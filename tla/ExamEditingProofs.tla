-------------------------- MODULE ExamEditingProofs --------------------------
(***************************************************************************)
(* Proofs about ExamEditing: what the triggers and the cascade do to the   *)
(* closure table, that no save changes an approved exam, and what a save   *)
(* made from current rows does to the orders and kinds of children.        *)
(***************************************************************************)
EXTENDS ExamEditing, TLAPS, WellFoundedInduction, FiniteSetTheorems

USE IdsApart, RangeAssumption

\* There is a path from a down to i.
Above(closure, a, i) == \E n \in Nat : Path(a, i, n) \in closure

(***************************************************************************)
(* The invariant of a database: the parents give the closure, its key is   *)
(* unique, paths join up, and of two sections above one, one is above the  *)
(* other.                                                                  *)
(***************************************************************************)
Keyed(closure) ==
    \A a, i \in Sections : \A m, n \in Nat :
        Path(a, i, m) \in closure /\ Path(a, i, n) \in closure => m = n

Transitive(closure) ==
    \A a, i, j \in Sections : \A m, n \in Nat :
        Path(a, i, m) \in closure /\ Path(i, j, n) \in closure
            => Path(a, j, m + n) \in closure

Linear(closure) ==
    \A a, b, i \in Sections :
        Above(closure, a, i) /\ Above(closure, b, i) =>
            Above(closure, a, b) \/ Above(closure, b, a)

\* ClosureFollows, path by path.
Follows(rows, closure, i) ==
    \A a \in Sections, n \in Nat :
        Path(a, i, n) \in closure <=>
            \/ a = i /\ n = 0
            \/ n > 0 /\ Path(a, rows[i].parent, n - 1) \in closure

WellKept(d) ==
    /\ IsDatabase(d)
    /\ \A i \in Stored(d) \cap Sections : Follows(d.rows, d.closure, i)
    /\ Keyed(d.closure)
    /\ Transitive(d.closure)
    /\ Linear(d.closure)

(***************************************************************************)
(* Paths.                                                                  *)
(***************************************************************************)
\* A path is its three fields.
LEMMA PathFields ==
    ASSUME NEW a, NEW i, NEW m, NEW b, NEW j, NEW n, Path(a, i, m) = Path(b, j, n)
    PROVE  a = b /\ i = j /\ m = n
  BY DEF Path

\* Every closure row of a database is a path between stored sections.
LEMMA RowsArePaths ==
    ASSUME NEW d, IsDatabase(d), NEW c \in d.closure
    PROVE  /\ c = Path(c.ancestor, c.descendant, c.depth)
           /\ c.ancestor \in DOMAIN d.type /\ c.descendant \in DOMAIN d.type
           /\ c.ancestor \in Sections /\ c.descendant \in Sections
           /\ c.depth \in Nat
  BY DEF IsDatabase, Path

\* What a path names is stored.
LEMMA PathEnds ==
    ASSUME NEW d, IsDatabase(d), NEW a, NEW i, NEW n, Path(a, i, n) \in d.closure
    PROVE  a \in DOMAIN d.type /\ i \in DOMAIN d.type /\ n \in Nat
  BY DEF IsDatabase, Path

\* Path by path, the closure follows the parents exactly when it does as a set.
LEMMA FollowsIsClosureFollows ==
    ASSUME NEW d, IsDatabase(d), NEW i \in Stored(d) \cap Sections
    PROVE  Follows(d.rows, d.closure, i) <=> PathsTo(d.closure, i) = AncestorPaths(d, i)
<1> DEFINE p == d.rows[i].parent
<1>1. ASSUME Follows(d.rows, d.closure, i)
      PROVE  PathsTo(d.closure, i) = AncestorPaths(d, i)
  <2>1. ASSUME NEW c \in PathsTo(d.closure, i)  PROVE c \in AncestorPaths(d, i)
    <3>1. c = Path(c.ancestor, i, c.depth) /\ c \in d.closure /\ c.ancestor \in Sections /\ c.depth \in Nat
      BY <2>1, RowsArePaths DEF PathsTo
    <3>2. CASE c.ancestor = i /\ c.depth = 0
      BY <3>1, <3>2 DEF AncestorPaths
    <3>3. CASE c.depth > 0 /\ Path(c.ancestor, p, c.depth - 1) \in d.closure
      <4> DEFINE q == Path(c.ancestor, p, c.depth - 1)
      <4>1. q \in PathsTo(d.closure, p) /\ q.ancestor = c.ancestor /\ q.depth + 1 = c.depth
        BY <3>1, <3>3 DEF PathsTo, Path
      <4>2. c = Path(q.ancestor, i, q.depth + 1)
        BY <3>1, <4>1
      <4> HIDE DEF q
      <4> QED  BY <4>1, <4>2 DEF AncestorPaths
    <3> QED  BY <1>1, <3>1, <3>2, <3>3 DEF Follows
  <2>2. ASSUME NEW c \in AncestorPaths(d, i)  PROVE c \in PathsTo(d.closure, i)
    <3>1. CASE c = Path(i, i, 0)
      <4>1. c \in d.closure
        BY <1>1, <3>1 DEF Follows
      <4> QED  BY <3>1, <4>1 DEF PathsTo, Path
    <3>2. ASSUME NEW q \in PathsTo(d.closure, p), c = Path(q.ancestor, i, q.depth + 1)
          PROVE  c \in PathsTo(d.closure, i)
      <4>1. q = Path(q.ancestor, p, q.depth) /\ q \in d.closure /\ q.ancestor \in Sections /\ q.depth \in Nat
        BY <3>2, RowsArePaths DEF PathsTo
      <4>2. Path(q.ancestor, i, q.depth + 1) \in d.closure
        BY <1>1, <4>1 DEF Follows
      <4> QED  BY <3>2, <4>2 DEF PathsTo, Path
    <3> QED  BY <2>2, <3>1, <3>2 DEF AncestorPaths
  <2> QED  BY <2>1, <2>2
<1>2. ASSUME PathsTo(d.closure, i) = AncestorPaths(d, i)
      PROVE  Follows(d.rows, d.closure, i)
  <2> SUFFICES ASSUME NEW a \in Sections, NEW n \in Nat
               PROVE  Path(a, i, n) \in d.closure <=>
                        \/ a = i /\ n = 0
                        \/ n > 0 /\ Path(a, p, n - 1) \in d.closure
    BY DEF Follows
  <2> DEFINE c == Path(a, i, n)
             q == Path(a, p, n - 1)
  <2>1. c.ancestor = a /\ c.descendant = i /\ c.depth = n /\ q.ancestor = a /\ q.descendant = p /\ q.depth = n - 1
    BY DEF Path
  <2>2. c \in d.closure <=> c \in AncestorPaths(d, i)
    BY <1>2, <2>1 DEF PathsTo
  <2>3. c = Path(i, i, 0) <=> a = i /\ n = 0
    BY PathFields
  <2>4. ASSUME NEW r \in PathsTo(d.closure, p), c = Path(r.ancestor, i, r.depth + 1)
        PROVE  n > 0 /\ q \in d.closure
    <3>1. r = Path(r.ancestor, p, r.depth) /\ r \in d.closure /\ r.depth \in Nat
      BY <2>4, RowsArePaths DEF PathsTo
    <3>2. a = r.ancestor /\ n = r.depth + 1
      BY <2>4, PathFields
    <3> QED  BY <3>1, <3>2
  <2>5. ASSUME n > 0, q \in d.closure
        PROVE  \E r \in PathsTo(d.closure, p) : c = Path(r.ancestor, i, r.depth + 1)
    <3>1. q \in PathsTo(d.closure, p)
      BY <2>1, <2>5 DEF PathsTo
    <3>2. q.depth + 1 = n
      BY <2>1
    <3> QED  BY <2>1, <3>1, <3>2
  <2> QED  BY <2>2, <2>3, <2>4, <2>5 DEF AncestorPaths
<1> QED  BY <1>1, <1>2

(***************************************************************************)
(* Creating a row.                                                         *)
(***************************************************************************)
\* The insert trigger adds the new section's own path and those of its parent.
LEMMA InsertPaths ==
    ASSUME NEW d, IsDatabase(d), NEW id \in Sections \ Stored(d),
           NEW p \in Parents, p \in Stored(d) \cup {Exam},
           NEW a \in Sections, NEW j \in Sections, NEW n \in Nat
    PROVE  Path(a, j, n) \in InsertTrigger(d.closure, id, p) <=>
             \/ Path(a, j, n) \in d.closure
             \/ j = id /\ a = id /\ n = 0
             \/ j = id /\ n > 0 /\ Path(a, p, n - 1) \in d.closure
<1> DEFINE cl   == d.closure
           c    == Path(a, j, n)
           self == Added(cl, {Path(id, id, 0)})
           new  == {Path(q.ancestor, id, q.depth + 1) : q \in PathsTo(self, p)}
<1>1. \A x \in cl : x.ancestor # id /\ x.descendant # id
  BY RowsArePaths DEF IsDatabase
<1>2. self = cl \cup {Path(id, id, 0)}
  BY <1>1 DEF Added, Path
<1>3. p # id /\ \A x \in cl : x.descendant # Exam
  BY RowsArePaths
<1>4. PathsTo(self, p) = PathsTo(cl, p)
  BY <1>2, <1>3 DEF PathsTo, Path
<1>5. \A x \in new : \A y \in self : y.ancestor # x.ancestor \/ y.descendant # x.descendant
  <2> SUFFICES ASSUME NEW q \in PathsTo(cl, p), NEW y \in self, y.ancestor = q.ancestor
               PROVE  y.descendant # id
    BY <1>4 DEF Path
  <2>1. q.ancestor # id
    BY <1>1 DEF PathsTo
  <2>2. y \in cl \/ y = Path(id, id, 0)
    BY <1>2
  <2>3. Path(id, id, 0).ancestor = id
    BY DEF Path
  <2> HIDE DEF self
  <2> QED  BY <1>1, <2>1, <2>2, <2>3
<1>6. Added(self, new) = self \cup new
  BY <1>5 DEF Added
<1>7. InsertTrigger(cl, id, p) = self \cup new
  <2>1. CASE p = Exam
    <3>1. PathsTo(self, p) = {}
      BY <1>3, <1>4, <2>1 DEF PathsTo
    <3>2. new = {}
      BY <3>1
    <3> QED  BY <2>1, <3>2 DEF InsertTrigger
  <2>2. CASE p # Exam
    BY <1>6, <2>2 DEF InsertTrigger
  <2> QED  BY <2>1, <2>2
<1>8. c \in new <=> j = id /\ n > 0 /\ Path(a, p, n - 1) \in cl
  <2>1. ASSUME NEW q \in PathsTo(cl, p), c = Path(q.ancestor, id, q.depth + 1)
        PROVE  j = id /\ n > 0 /\ Path(a, p, n - 1) \in cl
    <3>1. q = Path(q.ancestor, p, q.depth) /\ q \in cl /\ q.depth \in Nat
      BY <2>1, RowsArePaths DEF PathsTo
    <3>2. a = q.ancestor /\ j = id /\ n = q.depth + 1
      BY <2>1, PathFields
    <3> QED  BY <3>1, <3>2
  <2>2. ASSUME j = id, n > 0, Path(a, p, n - 1) \in cl
        PROVE  c \in new
    <3> DEFINE q == Path(a, p, n - 1)
    <3>1. q.ancestor = a /\ q.descendant = p /\ q.depth + 1 = n
      BY DEF Path
    <3>2. q \in PathsTo(cl, p)
      BY <2>2, <3>1 DEF PathsTo
    <3>3. c = Path(q.ancestor, id, q.depth + 1)
      BY <2>2, <3>1
    <3> HIDE DEF q
    <3> QED  BY <1>4, <3>2, <3>3
  <2> QED  BY <1>4, <2>1, <2>2
<1>9. c = Path(id, id, 0) <=> j = id /\ a = id /\ n = 0
  BY PathFields
<1> QED  BY <1>2, <1>7, <1>8, <1>9

\* A new section under a stored one, or at the top, keeps the closure well kept.
LEMMA CreateSectionKept ==
    ASSUME NEW d, WellKept(d), NEW id \in Sections, NEW p \in Parents, NEW order \in Int,
           MayCreate(d, id, p)
    PROVE  WellKept(Create(d, id, p, order))
<1> DEFINE e   == Create(d, id, p, order)
           row == [parent |-> p, order |-> order]
<1>1. /\ IsDatabase(d) /\ id \notin Stored(d) /\ p \in Stored(d) \cup {Exam}
      /\ id \in Sections \ Stored(d) /\ id \notin Questions /\ p # id
  BY DEF WellKept, MayCreate
<1>2. d = [status |-> d.status, rows |-> d.rows, type |-> d.type, closure |-> d.closure]
  BY <1>1 DEF IsDatabase
<1>3. /\ e.status = d.status
      /\ e.rows = [i \in Stored(d) \cup {id} |-> IF i = id THEN row ELSE d.rows[i]]
      /\ e.type = [i \in DOMAIN d.type \cup {id} |-> IF i = id THEN "SECTION" ELSE d.type[i]]
      /\ e.closure = InsertTrigger(d.closure, id, p)
      /\ e = [status |-> e.status, rows |-> e.rows, type |-> e.type, closure |-> e.closure]
  BY <1>1, <1>2 DEF Create
<1> HIDE DEF e
<1>4. /\ Stored(e) = Stored(d) \cup {id}
      /\ \A i \in Stored(d) : e.rows[i] = d.rows[i]
      /\ e.rows[id] = row
  BY <1>1, <1>3 DEF Stored
<1>5. \A i \in Stored(d) : i \in Items /\ d.rows[i] \in [parent : Parents, order : Int]
                             /\ d.rows[i].parent \in Stored(d) \cup {Exam}
  BY <1>1 DEF IsDatabase
<1>6. DOMAIN e.type = Stored(e) \cap Sections
  BY <1>1, <1>3, <1>4 DEF IsDatabase
<1>7. \A c \in e.closure : /\ c = Path(c.ancestor, c.descendant, c.depth)
                           /\ c.ancestor \in DOMAIN e.type /\ c.descendant \in DOMAIN e.type
                           /\ c.depth \in Nat
  <2> DEFINE self == Added(d.closure, {Path(id, id, 0)})
  <2>1. \A c \in self : /\ c = Path(c.ancestor, c.descendant, c.depth)
                        /\ c.ancestor \in DOMAIN e.type /\ c.descendant \in DOMAIN e.type
                        /\ c.depth \in Nat
    <3>1. DOMAIN e.type = DOMAIN d.type \cup {id}
      BY <1>3
    <3> QED  BY <1>1, <3>1, RowsArePaths DEF Added, Path
  <2>2. ASSUME NEW c, NEW q \in PathsTo(self, p), c = Path(q.ancestor, id, q.depth + 1)
        PROVE  /\ c = Path(c.ancestor, c.descendant, c.depth)
               /\ c.ancestor \in DOMAIN e.type /\ c.descendant \in DOMAIN e.type
               /\ c.depth \in Nat
    <3>1. q.ancestor \in DOMAIN e.type /\ q.depth \in Nat
      BY <2>1, <2>2 DEF PathsTo
    <3>2. c.ancestor = q.ancestor /\ c.descendant = id /\ c.depth = q.depth + 1
      BY <2>2 DEF Path
    <3> QED  BY <1>3, <2>2, <3>1, <3>2
  <2>3. ASSUME NEW c \in e.closure
        PROVE  c \in self \/ \E q \in PathsTo(self, p) : c = Path(q.ancestor, id, q.depth + 1)
    BY <1>3 DEF InsertTrigger, Added
  <2> QED  BY <2>1, <2>2, <2>3
<1>8. IsDatabase(e)
  <2>1. \A i \in Stored(e) : i \in Items /\ e.rows[i] \in [parent : Parents, order : Int]
                               /\ e.rows[i].parent \in Stored(e) \cup {Exam}
    BY <1>1, <1>4, <1>5 DEF Items
  <2>2. \A i \in DOMAIN e.type : e.type[i] \in SectionType
    BY <1>1, <1>3 DEF IsDatabase, SectionType
  <2>3. e.closure \subseteq [ancestor : DOMAIN e.type, descendant : DOMAIN e.type, depth : Nat]
    BY <1>7 DEF Path
  <2>4. e.status \in ExamStatus \cup {Deleted}
    BY <1>1, <1>3 DEF IsDatabase
  <2> QED  BY <1>3, <1>6, <2>1, <2>2, <2>3, <2>4 DEF IsDatabase
<1>9. \A a, j \in Sections : \A n \in Nat :
         Path(a, j, n) \in e.closure <=>
             \/ Path(a, j, n) \in d.closure
             \/ j = id /\ a = id /\ n = 0
             \/ j = id /\ n > 0 /\ Path(a, p, n - 1) \in d.closure
  BY <1>1, <1>3, InsertPaths
<1>10. \A a, j, n : Path(a, j, n) \in d.closure => a # id /\ j # id /\ j \in Stored(d)
  <2> SUFFICES ASSUME NEW a, NEW j, NEW n, Path(a, j, n) \in d.closure
               PROVE  a # id /\ j # id /\ j \in Stored(d)
    OBVIOUS
  <2> QED  BY <1>1, PathEnds DEF IsDatabase
<1>11. ASSUME NEW i \in Stored(e) \cap Sections
       PROVE  Follows(e.rows, e.closure, i)
  <2> SUFFICES ASSUME NEW a \in Sections, NEW n \in Nat
               PROVE  Path(a, i, n) \in e.closure <=>
                        \/ a = i /\ n = 0
                        \/ n > 0 /\ Path(a, e.rows[i].parent, n - 1) \in e.closure
    BY DEF Follows
  <2>1. CASE i = id
    <3>1. n > 0 => (Path(a, p, n - 1) \in e.closure <=> Path(a, p, n - 1) \in d.closure)
      <4>1. CASE p = Exam
        BY <1>1, <1>8, <4>1, PathEnds DEF IsDatabase
      <4>2. CASE p \in Sections
        BY <1>1, <1>9, <4>2
      <4> QED  BY <4>1, <4>2 DEF Parents
    <3> QED  BY <1>4, <1>9, <1>10, <2>1, <3>1
  <2>2. CASE i # id
    <3> DEFINE q == d.rows[i].parent
    <3>1. i \in Stored(d) \cap Sections /\ e.rows[i].parent = q /\ q # id /\ q \in Parents
      BY <1>1, <1>4, <1>5, <2>2
    <3>2. Path(a, i, n) \in d.closure <=>
            \/ a = i /\ n = 0
            \/ n > 0 /\ Path(a, q, n - 1) \in d.closure
      BY <3>1 DEF WellKept, Follows
    <3>3. n > 0 => (Path(a, q, n - 1) \in e.closure <=> Path(a, q, n - 1) \in d.closure)
      <4>1. CASE q = Exam
        BY <1>1, <1>8, <4>1, PathEnds DEF IsDatabase
      <4>2. CASE q \in Sections
        BY <1>9, <3>1, <4>2
      <4> QED  BY <3>1, <4>1, <4>2 DEF Parents
    <3> QED  BY <1>9, <2>2, <3>1, <3>2, <3>3
  <2> QED  BY <2>1, <2>2
<1>12. Keyed(e.closure)
  <2> SUFFICES ASSUME NEW a \in Sections, NEW j \in Sections, NEW m \in Nat, NEW n \in Nat,
                      Path(a, j, m) \in e.closure, Path(a, j, n) \in e.closure
               PROVE  m = n
    BY DEF Keyed
  <2>1. p \in Sections \/ \A k : Path(a, p, k) \notin d.closure
    BY <1>1, PathEnds DEF Parents, IsDatabase
  <2>2. m > 0 /\ n > 0 /\ Path(a, p, m - 1) \in d.closure /\ Path(a, p, n - 1) \in d.closure => m = n
    BY <2>1 DEF WellKept, Keyed
  <2>3. Path(a, j, m) \in d.closure /\ Path(a, j, n) \in d.closure => m = n
    BY DEF WellKept, Keyed
  <2> QED  BY <1>9, <1>10, <2>2, <2>3
<1>13. \A a, j \in Sections : Above(e.closure, a, j) <=>
          \/ Above(d.closure, a, j)
          \/ j = id /\ (a = id \/ Above(d.closure, a, p))
  <2> SUFFICES ASSUME NEW a \in Sections, NEW j \in Sections
               PROVE  Above(e.closure, a, j) <=>
                        \/ Above(d.closure, a, j)
                        \/ j = id /\ (a = id \/ Above(d.closure, a, p))
    OBVIOUS
  <2>1. ASSUME NEW n \in Nat, Path(a, j, n) \in e.closure
        PROVE  \/ Above(d.closure, a, j)
               \/ j = id /\ (a = id \/ Above(d.closure, a, p))
    <3>1. n > 0 => n - 1 \in Nat
      OBVIOUS
    <3> QED  BY <1>9, <2>1, <3>1 DEF Above
  <2>2. ASSUME NEW n \in Nat, Path(a, p, n) \in d.closure, j = id
        PROVE  Path(a, j, n + 1) \in e.closure
    BY <1>9, <2>2
  <2>3. a = id /\ j = id => Path(a, j, 0) \in e.closure
    BY <1>9
  <2>4. Above(d.closure, a, j) => Above(e.closure, a, j)
    BY <1>9 DEF Above
  <2>5. Above(d.closure, a, p) /\ j = id => Above(e.closure, a, j)
    <3>1. \A n \in Nat : n + 1 \in Nat
      OBVIOUS
    <3> QED  BY <2>2, <3>1 DEF Above
  <2>6. a = id /\ j = id => Above(e.closure, a, j)
    BY <2>3 DEF Above
  <2> QED  BY <2>1, <2>4, <2>5, <2>6 DEF Above
<1>14. \A a, j : Above(d.closure, a, j) => a # id /\ j # id /\ a \in Sections /\ j \in Sections
  <2> SUFFICES ASSUME NEW a, NEW j, NEW n \in Nat, Path(a, j, n) \in d.closure
               PROVE  a # id /\ j # id /\ a \in Sections /\ j \in Sections
    BY DEF Above
  <2> QED  BY <1>1, <1>10, PathEnds DEF IsDatabase
<1>15. Transitive(e.closure)
  <2> SUFFICES ASSUME NEW a \in Sections, NEW i \in Sections, NEW j \in Sections,
                      NEW m \in Nat, NEW n \in Nat,
                      Path(a, i, m) \in e.closure, Path(i, j, n) \in e.closure
               PROVE  Path(a, j, m + n) \in e.closure
    BY DEF Transitive
  <2>1. CASE Path(i, j, n) \in d.closure
    <3>1. Path(a, i, m) \in d.closure
      BY <1>9, <1>10, <2>1
    <3>2. Path(a, j, m + n) \in d.closure
      BY <2>1, <3>1 DEF WellKept, Transitive
    <3> QED  BY <1>9, <3>2
  <2>2. CASE j = id /\ i = id /\ n = 0
    BY <2>2
  <2>3. CASE j = id /\ n > 0 /\ Path(i, p, n - 1) \in d.closure
    <3>1. i # id /\ p \in Sections
      BY <1>1, <1>10, <2>3, PathEnds DEF IsDatabase
    <3>2. Path(a, i, m) \in d.closure
      BY <1>9, <3>1
    <3>3. Path(a, p, m + (n - 1)) \in d.closure
      BY <2>3, <3>1, <3>2 DEF WellKept, Transitive
    <3>4. m + (n - 1) = (m + n) - 1 /\ m + n > 0
      BY <2>3
    <3> QED  BY <1>9, <2>3, <3>3, <3>4
  <2> QED  BY <1>9, <2>1, <2>2, <2>3
<1>16. Linear(e.closure)
  BY <1>13, <1>14 DEF WellKept, Linear
<1> QED  BY <1>8, <1>11, <1>12, <1>15, <1>16 DEF WellKept, e

(***************************************************************************)
(* Giving a section another parent.                                        *)
(***************************************************************************)
\* Joined paths are above, and above is an order.
LEMMA AboveIsOrder ==
    ASSUME NEW d, WellKept(d)
    PROVE  /\ \A a, i, j \in Sections :
                 Above(d.closure, a, i) /\ Above(d.closure, i, j) => Above(d.closure, a, j)
           /\ \A a, i \in Sections :
                 Above(d.closure, a, i) /\ Above(d.closure, i, a) => a = i
           /\ \A i \in Stored(d) \cap Sections : Path(i, i, 0) \in d.closure
<1>1. ASSUME NEW a \in Sections, NEW i \in Sections, NEW j \in Sections,
             Above(d.closure, a, i), Above(d.closure, i, j)
      PROVE  Above(d.closure, a, j)
  <2>1. PICK m \in Nat, n \in Nat : Path(a, i, m) \in d.closure /\ Path(i, j, n) \in d.closure
    BY <1>1 DEF Above
  <2>2. Path(a, j, m + n) \in d.closure
    BY <2>1 DEF WellKept, Transitive
  <2> QED  BY <2>2 DEF Above
<1>2. \A i \in Stored(d) \cap Sections : Path(i, i, 0) \in d.closure
  BY DEF WellKept, Follows
<1>3. ASSUME NEW a \in Sections, NEW i \in Sections,
             Above(d.closure, a, i), Above(d.closure, i, a)
      PROVE  a = i
  <2>1. PICK m \in Nat, n \in Nat : Path(a, i, m) \in d.closure /\ Path(i, a, n) \in d.closure
    BY <1>3 DEF Above
  <2>2. a \in Stored(d) \cap Sections /\ i \in Stored(d) \cap Sections
    BY <2>1, PathEnds DEF WellKept, IsDatabase
  <2>3. Path(a, a, m + n) \in d.closure /\ m + n \in Nat
    BY <2>1 DEF WellKept, Transitive
  <2>4. m + n = 0
    BY <1>2, <2>2, <2>3 DEF WellKept, Keyed
  <2>5. m = 0
    BY <2>4
  <2> QED  BY <2>1, <2>2, <2>5 DEF WellKept, Follows
<1> QED  BY <1>1, <1>2, <1>3

\* The paths after the update trigger: those the moved subtree does not lose, and those
\* from above the new parent to below the moved section.
KeptPath(closure, id, a, j) ==
    ~(a # id /\ Above(closure, a, id) /\ Above(closure, id, j))

JoinedPath(closure, id, p, a, j, n) ==
    \E m, k \in Nat : /\ n = m + k + 1
                      /\ Path(a, p, m) \in closure
                      /\ Path(id, j, k) \in closure

\* The update trigger finds no path in its way: it keeps and joins exactly these.
LEMMA UpdatePaths ==
    ASSUME NEW d, WellKept(d), NEW id \in Stored(d) \cap Sections,
           NEW p \in Parents, p \in Stored(d) \cup {Exam}, ~Above(d.closure, id, p),
           NEW a \in Sections, NEW j \in Sections, NEW n \in Nat
    PROVE  Path(a, j, n) \in UpdateTrigger(d.closure, id, p) <=>
             \/ Path(a, j, n) \in d.closure /\ KeptPath(d.closure, id, a, j)
             \/ JoinedPath(d.closure, id, p, a, j, n)
<1> DEFINE cl    == d.closure
           above == {c.ancestor : c \in PathsTo(cl, id)} \ {id}
           below == {c.descendant : c \in PathsFrom(cl, id)}
           kept  == {c \in cl : c.ancestor \notin above \/ c.descendant \notin below}
           new   == {Path(u.ancestor, v.descendant, u.depth + v.depth + 1) :
                       u \in PathsTo(kept, p), v \in PathsFrom(kept, id)}
           x     == Path(a, j, n)
<1>1. IsDatabase(d)
  BY DEF WellKept
<1>2. \A b \in Sections : b \in above <=> b # id /\ Above(cl, b, id)
  <2>1. ASSUME NEW b \in Sections, NEW c \in PathsTo(cl, id), b = c.ancestor
        PROVE  Above(cl, b, id)
    <3>1. c = Path(b, id, c.depth) /\ c.depth \in Nat /\ c \in cl
      BY <1>1, <2>1, RowsArePaths DEF PathsTo
    <3> QED  BY <3>1 DEF Above
  <2>2. ASSUME NEW b \in Sections, NEW k \in Nat, Path(b, id, k) \in cl
        PROVE  \E c \in PathsTo(cl, id) : b = c.ancestor
    <3>1. Path(b, id, k).ancestor = b /\ Path(b, id, k).descendant = id
      BY DEF Path
    <3> QED  BY <2>2, <3>1 DEF PathsTo
  <2> QED  BY <2>1, <2>2 DEF Above
<1>3. \A b \in Sections : b \in below <=> Above(cl, id, b)
  <2>1. ASSUME NEW b \in Sections, NEW c \in PathsFrom(cl, id), b = c.descendant
        PROVE  Above(cl, id, b)
    <3>1. c = Path(id, b, c.depth) /\ c.depth \in Nat /\ c \in cl
      BY <1>1, <2>1, RowsArePaths DEF PathsFrom
    <3> QED  BY <3>1 DEF Above
  <2>2. ASSUME NEW b \in Sections, NEW k \in Nat, Path(id, b, k) \in cl
        PROVE  \E c \in PathsFrom(cl, id) : b = c.descendant
    <3>1. Path(id, b, k).ancestor = id /\ Path(id, b, k).descendant = b
      BY DEF Path
    <3> QED  BY <2>2, <3>1 DEF PathsFrom
  <2> QED  BY <2>1, <2>2 DEF Above
<1>4. \A b, i \in Sections : \A k :
         Path(b, i, k) \in kept <=> Path(b, i, k) \in cl /\ KeptPath(cl, id, b, i)
  <2> SUFFICES ASSUME NEW b \in Sections, NEW i \in Sections, NEW k
               PROVE  Path(b, i, k) \in kept <=> Path(b, i, k) \in cl /\ KeptPath(cl, id, b, i)
    OBVIOUS
  <2>1. Path(b, i, k).ancestor = b /\ Path(b, i, k).descendant = i
    BY DEF Path
  <2>2. (b \notin above \/ i \notin below) <=> KeptPath(cl, id, b, i)
    BY <1>2, <1>3 DEF KeptPath
  <2> HIDE DEF above, below
  <2> QED  BY <2>1, <2>2
<1>5. PathsTo(kept, p) = PathsTo(cl, p)
  <2> SUFFICES ASSUME NEW c \in cl, c.descendant = p
               PROVE  c.descendant \notin below
    BY DEF PathsTo
  <2>1. p \in Sections
    BY <1>1, RowsArePaths
  <2> QED  BY <1>3, <2>1
<1>6. PathsFrom(kept, id) = PathsFrom(cl, id)
  BY DEF PathsFrom
<1>7. \A u \in PathsTo(cl, p), v \in PathsFrom(cl, id) : \A c \in kept :
         c.ancestor # u.ancestor \/ c.descendant # v.descendant
  <2> SUFFICES ASSUME NEW u \in PathsTo(cl, p), NEW v \in PathsFrom(cl, id), NEW c \in kept,
                      c.ancestor = u.ancestor, c.descendant = v.descendant
               PROVE  FALSE
    OBVIOUS
  <2> DEFINE b == u.ancestor
             i == v.descendant
  <2>1. /\ u = Path(b, p, u.depth) /\ v = Path(id, i, v.depth) /\ c = Path(b, i, c.depth)
        /\ u \in cl /\ v \in cl /\ c \in cl
        /\ u.depth \in Nat /\ v.depth \in Nat /\ c.depth \in Nat
        /\ b \in Sections /\ i \in Sections /\ p \in Sections
    BY <1>1, RowsArePaths DEF PathsTo, PathsFrom
  <2>2. Above(cl, b, p) /\ Above(cl, id, i) /\ Above(cl, b, i)
    BY <2>1 DEF Above
  <2>3. KeptPath(cl, id, b, i)
    BY <1>4, <2>1
  <2> HIDE DEF b, i, kept, above, below, new
  <2>4. Above(cl, b, id) \/ Above(cl, id, b)
    BY <2>1, <2>2 DEF WellKept, Linear
  <2>5. ~Above(cl, id, b)
    BY <2>1, <2>2, AboveIsOrder
  <2>6. b = id
    BY <2>2, <2>3, <2>4, <2>5 DEF KeptPath
  <2> QED  BY <2>2, <2>6
<1>8. \A y \in new : \A c \in kept : c.ancestor # y.ancestor \/ c.descendant # y.descendant
  <2> SUFFICES ASSUME NEW u \in PathsTo(cl, p), NEW v \in PathsFrom(cl, id), NEW c \in kept,
                      NEW y, y = Path(u.ancestor, v.descendant, u.depth + v.depth + 1)
               PROVE  c.ancestor # y.ancestor \/ c.descendant # y.descendant
    BY <1>5, <1>6
  <2>1. y.ancestor = u.ancestor /\ y.descendant = v.descendant
    BY DEF Path
  <2> HIDE DEF kept
  <2> QED  BY <1>7, <2>1
<1>9. x \in new <=> JoinedPath(cl, id, p, a, j, n)
  <2>1. ASSUME NEW u \in PathsTo(cl, p), NEW v \in PathsFrom(cl, id),
               x = Path(u.ancestor, v.descendant, u.depth + v.depth + 1)
        PROVE  JoinedPath(cl, id, p, a, j, n)
    <3>1. /\ u = Path(u.ancestor, p, u.depth) /\ v = Path(id, v.descendant, v.depth)
          /\ u \in cl /\ v \in cl /\ u.depth \in Nat /\ v.depth \in Nat
      BY <1>1, RowsArePaths DEF PathsTo, PathsFrom
    <3>2. a = u.ancestor /\ j = v.descendant /\ n = u.depth + v.depth + 1
      BY <2>1, PathFields
    <3> QED  BY <3>1, <3>2 DEF JoinedPath
  <2>2. ASSUME NEW m \in Nat, NEW k \in Nat, n = m + k + 1,
               Path(a, p, m) \in cl, Path(id, j, k) \in cl
        PROVE  x \in new
    <3> DEFINE u == Path(a, p, m)
               v == Path(id, j, k)
    <3>1. u.ancestor = a /\ u.descendant = p /\ u.depth = m /\ v.ancestor = id /\ v.descendant = j /\ v.depth = k
      BY DEF Path
    <3>2. u \in PathsTo(cl, p) /\ v \in PathsFrom(cl, id)
      BY <2>2, <3>1 DEF PathsTo, PathsFrom
    <3>3. x = Path(u.ancestor, v.descendant, u.depth + v.depth + 1)
      BY <2>2, <3>1
    <3> HIDE DEF u, v, kept
    <3> QED  BY <1>5, <1>6, <3>2, <3>3
  <2> QED  BY <1>5, <1>6, <2>1, <2>2 DEF JoinedPath
<1>10. x \in UpdateTrigger(cl, id, p) <=> x \in kept \/ x \in new
  <2>1. CASE p = Exam
    <3>1. UpdateTrigger(cl, id, p) = kept
      BY <2>1 DEF UpdateTrigger
    <3>2. PathsTo(cl, p) = {}
      BY <1>1, <2>1, RowsArePaths DEF PathsTo
    <3>3. PathsTo(kept, p) = {}
      BY <1>5, <3>2
    <3> HIDE DEF kept
    <3>4. x \notin new
      BY <3>3
    <3> QED  BY <3>1, <3>4
  <2>2. CASE p # Exam
    <3>1. UpdateTrigger(cl, id, p) = Added(kept, new)
      BY <2>2 DEF UpdateTrigger
    <3> HIDE DEF kept, new
    <3> QED  BY <1>8, <3>1 DEF Added
  <2> QED  BY <2>1, <2>2
<1> HIDE DEF kept, new
<1> QED  BY <1>4, <1>9, <1>10

\* A row that keeps its place in the tree, or is a question's, leaves the closure alone.
LEMMA PutInPlaceKept ==
    ASSUME NEW d, WellKept(d), NEW id \in Stored(d), NEW p \in Parents, NEW order \in Int,
           p \in Stored(d) \cup {Exam}, id \in Questions \/ d.rows[id].parent = p
    PROVE  WellKept(Put(d, id, p, order))
<1> DEFINE e == Put(d, id, p, order)
<1>1. IsDatabase(d)
  BY DEF WellKept
<1>2. /\ e = [status |-> e.status, rows |-> e.rows, type |-> e.type, closure |-> e.closure]
      /\ e.status = d.status /\ e.type = d.type /\ e.closure = d.closure
      /\ e.rows = [d.rows EXCEPT ![id] = [parent |-> p, order |-> order]]
  <2> DEFINE r == [d.rows EXCEPT ![id] = [parent |-> p, order |-> order]]
  <2>1. e = [d EXCEPT !.rows = r, !.closure = d.closure]
    BY <1>1 DEF Put
  <2>2. d = [status |-> d.status, rows |-> d.rows, type |-> d.type, closure |-> d.closure]
    BY <1>1 DEF IsDatabase
  <2> HIDE DEF e, r
  <2>3. /\ e = [status |-> e.status, rows |-> e.rows, type |-> e.type, closure |-> e.closure]
        /\ e.status = d.status /\ e.type = d.type /\ e.closure = d.closure /\ e.rows = r
    BY <2>1, <2>2
  <2> QED  BY <2>3 DEF r
<1> HIDE DEF e
<1>3. Stored(e) = Stored(d) /\ e.rows[id] = [parent |-> p, order |-> order]
      /\ \A i \in Stored(d) : i # id => e.rows[i] = d.rows[i]
  BY <1>2 DEF Stored
<1>4. \A i \in Stored(e) : i \in Items /\ e.rows[i] \in [parent : Parents, order : Int]
                             /\ e.rows[i].parent \in Stored(e) \cup {Exam}
  BY <1>1, <1>3 DEF IsDatabase
<1>5. \A i \in Stored(e) \cap Sections : e.rows[i].parent = d.rows[i].parent
  BY <1>3
<1>6. IsDatabase(e)
  BY <1>1, <1>2, <1>3, <1>4 DEF IsDatabase
<1>7. \A i \in Stored(e) \cap Sections : Follows(e.rows, e.closure, i)
  BY <1>2, <1>3, <1>5 DEF WellKept, Follows
<1> QED  BY <1>2, <1>6, <1>7 DEF WellKept, e

\* A section moved with all that is below it keeps the closure well kept.
LEMMA MoveSectionKept ==
    ASSUME NEW d, WellKept(d), NEW id \in Stored(d) \cap Sections, NEW p \in Parents,
           NEW order \in Int, p \in Stored(d) \cup {Exam}, d.rows[id].parent # p,
           ~Above(d.closure, id, p)
    PROVE  WellKept(Put(d, id, p, order))
<1> DEFINE e  == Put(d, id, p, order)
           cl == d.closure
           U(a)       == Above(cl, a, id)
           B(j)       == Above(cl, id, j)
           K(a, j)    == KeptPath(cl, id, a, j)
           J(a, j, n) == JoinedPath(cl, id, p, a, j, n)
<1>1. IsDatabase(d) /\ id \notin Questions
  BY DEF WellKept
<1>2. /\ e = [status |-> e.status, rows |-> e.rows, type |-> e.type, closure |-> e.closure]
      /\ e.status = d.status /\ e.type = d.type /\ e.closure = UpdateTrigger(cl, id, p)
      /\ e.rows = [d.rows EXCEPT ![id] = [parent |-> p, order |-> order]]
  <2> DEFINE r == [d.rows EXCEPT ![id] = [parent |-> p, order |-> order]]
             c == UpdateTrigger(cl, id, p)
  <2>1. e = [d EXCEPT !.rows = r, !.closure = c]
    BY <1>1 DEF Put
  <2>2. d = [status |-> d.status, rows |-> d.rows, type |-> d.type, closure |-> d.closure]
    BY <1>1 DEF IsDatabase
  <2> HIDE DEF e, r, c
  <2>3. /\ e = [status |-> e.status, rows |-> e.rows, type |-> e.type, closure |-> e.closure]
        /\ e.status = d.status /\ e.type = d.type /\ e.closure = c /\ e.rows = r
    BY <2>1, <2>2
  <2> QED  BY <2>3 DEF r, c
<1> HIDE DEF e
<1>3. Stored(e) = Stored(d) /\ e.rows[id] = [parent |-> p, order |-> order]
      /\ \A i \in Stored(d) : i # id => e.rows[i] = d.rows[i]
  BY <1>2 DEF Stored
<1>4. \A i \in Stored(e) : i \in Items /\ e.rows[i] \in [parent : Parents, order : Int]
                             /\ e.rows[i].parent \in Stored(e) \cup {Exam}
  BY <1>1, <1>3 DEF IsDatabase
<1>5. \A c \in e.closure : c \in [ancestor : DOMAIN e.type, descendant : DOMAIN e.type, depth : Nat]
  <2> DEFINE above == {c.ancestor : c \in PathsTo(cl, id)} \ {id}
             below == {c.descendant : c \in PathsFrom(cl, id)}
             kept  == {c \in cl : c.ancestor \notin above \/ c.descendant \notin below}
  <2>1. ASSUME NEW c \in e.closure
        PROVE  c \in kept \/ \E u \in PathsTo(kept, p), v \in PathsFrom(kept, id) :
                               c = Path(u.ancestor, v.descendant, u.depth + v.depth + 1)
    <3>1. CASE p = Exam
      BY <1>2, <3>1 DEF UpdateTrigger
    <3>2. CASE p # Exam
      <4>1. e.closure = Added(kept, {Path(u.ancestor, v.descendant, u.depth + v.depth + 1) :
                                       u \in PathsTo(kept, p), v \in PathsFrom(kept, id)})
        BY <1>2, <3>2 DEF UpdateTrigger
      <4> HIDE DEF kept
      <4> QED  BY <2>1, <4>1 DEF Added
    <3> QED  BY <3>1, <3>2
  <2>2. \A c \in kept : c \in cl
    OBVIOUS
  <2> HIDE DEF kept
  <2>3. ASSUME NEW c, NEW u \in PathsTo(kept, p), NEW v \in PathsFrom(kept, id),
               c = Path(u.ancestor, v.descendant, u.depth + v.depth + 1)
        PROVE  c \in [ancestor : DOMAIN e.type, descendant : DOMAIN e.type, depth : Nat]
    <3>1. u \in cl /\ v \in cl
      BY <2>2 DEF PathsTo, PathsFrom
    <3>2. /\ u.ancestor \in DOMAIN d.type /\ v.descendant \in DOMAIN d.type
          /\ u.depth \in Nat /\ v.depth \in Nat
      BY <1>1, <3>1, RowsArePaths
    <3>3. u.depth + v.depth + 1 \in Nat
      BY <3>2
    <3> QED  BY <1>2, <2>3, <3>2, <3>3 DEF Path
  <2>4. ASSUME NEW c \in cl
        PROVE  c \in [ancestor : DOMAIN e.type, descendant : DOMAIN e.type, depth : Nat]
    BY <1>1, <1>2 DEF IsDatabase
  <2> QED  BY <2>1, <2>2, <2>3, <2>4
<1>6. IsDatabase(e)
  <2>1. e.closure \subseteq [ancestor : DOMAIN e.type, descendant : DOMAIN e.type, depth : Nat]
    BY <1>5
  <2> QED  BY <1>1, <1>2, <1>3, <1>4, <2>1 DEF IsDatabase
<1>7. \A a, j \in Sections : \A n \in Nat :
         Path(a, j, n) \in e.closure <=> (Path(a, j, n) \in cl /\ K(a, j)) \/ J(a, j, n)
  BY <1>2, UpdatePaths
<1>8. \A n : Path(id, p, n) \notin cl
  BY <1>1, PathEnds DEF Above
<1>9. B(id) /\ \A n \in Nat : Path(id, id, n) \in cl => n = 0
  BY AboveIsOrder DEF Above, WellKept, Keyed
<1>10. \A a, j \in Sections : \A n \in Nat : J(a, j, n) => B(j) /\ Above(cl, a, p)
  BY DEF JoinedPath, Above
\* Where nothing is below the moved section, the paths stay.
<1>11. ASSUME NEW q \in Parents, ~B(q), NEW a \in Sections, NEW n \in Nat
       PROVE  Path(a, q, n) \in e.closure <=> Path(a, q, n) \in cl
  <2>1. CASE q = Exam
    BY <1>1, <1>6, <2>1, PathEnds DEF IsDatabase
  <2>2. CASE q \in Sections
    BY <1>7, <1>10, <1>11, <2>2 DEF KeptPath
  <2> QED  BY <2>1, <2>2 DEF Parents
<1> HIDE DEF U, K, J
<1>12. ASSUME NEW i \in Stored(e) \cap Sections
       PROVE  Follows(e.rows, e.closure, i)
  <2> SUFFICES ASSUME NEW a \in Sections, NEW n \in Nat
               PROVE  Path(a, i, n) \in e.closure <=>
                        \/ a = i /\ n = 0
                        \/ n > 0 /\ Path(a, e.rows[i].parent, n - 1) \in e.closure
    BY DEF Follows
  <2> DEFINE q == d.rows[i].parent
  <2>1. /\ i \in Stored(d) \cap Sections /\ q \in Parents
        /\ \A b \in Sections, k \in Nat :
              Path(b, i, k) \in cl <=> (b = i /\ k = 0) \/ (k > 0 /\ Path(b, q, k - 1) \in cl)
    BY <1>1, <1>3 DEF WellKept, Follows, IsDatabase
  <2>2. CASE ~B(i)
    <3>1. i # id
      BY <1>9, <2>2
    <3>2. ~B(q)
      <4>1. ASSUME NEW k \in Nat, Path(id, q, k) \in cl
            PROVE  Path(id, i, k + 1) \in cl
        <5>1. k + 1 \in Nat /\ k + 1 > 0 /\ (k + 1) - 1 = k
          OBVIOUS
        <5> QED  BY <2>1, <4>1, <5>1
      <4>2. \A k \in Nat : k + 1 \in Nat
        OBVIOUS
      <4> QED  BY <2>2, <4>1, <4>2 DEF Above
    <3>3. Path(a, i, n) \in e.closure <=> Path(a, i, n) \in cl
      BY <1>11, <2>2, <2>1 DEF Parents
    <3>4. n > 0 => (Path(a, q, n - 1) \in e.closure <=> Path(a, q, n - 1) \in cl)
      BY <1>11, <2>1, <3>2
    <3>5. e.rows[i].parent = q
      BY <1>3, <2>1, <3>1
    <3> QED  BY <2>1, <3>3, <3>4, <3>5
  <2>3. CASE i = id
    <3>1. J(a, id, n) <=> n > 0 /\ Path(a, p, n - 1) \in cl
      <4>1. ASSUME NEW m \in Nat, NEW k \in Nat, n = m + k + 1,
                   Path(a, p, m) \in cl, Path(id, id, k) \in cl
            PROVE  n > 0 /\ Path(a, p, n - 1) \in cl
        <5>1. k = 0
          BY <1>9, <4>1
        <5>2. n - 1 = m /\ n > 0
          BY <4>1, <5>1
        <5> QED  BY <4>1, <5>2
      <4>2. ASSUME n > 0, Path(a, p, n - 1) \in cl
            PROVE  J(a, id, n)
        <5>1. Path(id, id, 0) \in cl
          BY AboveIsOrder
        <5>2. n - 1 \in Nat /\ 0 \in Nat /\ n = (n - 1) + 0 + 1
          BY <4>2
        <5> QED  BY <4>2, <5>1, <5>2 DEF J, JoinedPath
      <4> QED  BY <4>1, <4>2 DEF J, JoinedPath
    <3>2. Path(a, id, n) \in cl /\ K(a, id) <=> a = id /\ n = 0
      <4>1. ASSUME Path(a, id, n) \in cl, K(a, id)
            PROVE  a = id /\ n = 0
        <5>1. Above(cl, a, id)
          BY <4>1 DEF Above
        <5>2. a = id
          BY <1>9, <4>1, <5>1 DEF K, KeptPath
        <5> QED  BY <1>9, <4>1, <5>2
      <4>2. ASSUME a = id, n = 0
            PROVE  Path(a, id, n) \in cl /\ K(a, id)
        BY <4>2, AboveIsOrder DEF K, KeptPath
      <4> QED  BY <4>1, <4>2
    <3>3. n > 0 => (Path(a, p, n - 1) \in e.closure <=> Path(a, p, n - 1) \in cl)
      BY <1>11
    <3>4. e.rows[i].parent = p
      BY <1>3, <2>3
    <3> QED  BY <1>7, <2>3, <3>1, <3>2, <3>3, <3>4
  <2>4. CASE B(i) /\ i # id
    <3>1. \A k \in Nat : Path(id, i, k) \in cl <=> k > 0 /\ Path(id, q, k - 1) \in cl
      BY <2>1, <2>4
    <3>2. q \in Sections /\ B(q)
      <4>1. PICK k \in Nat : Path(id, i, k) \in cl
        BY <2>4 DEF Above
      <4>2. k - 1 \in Nat /\ Path(id, q, k - 1) \in cl
        BY <3>1, <4>1
      <4>3. q \in Sections
        BY <1>1, <4>2, PathEnds DEF IsDatabase
      <4> QED  BY <4>2, <4>3 DEF Above
    <3>3. K(i, i)
      BY <2>4, AboveIsOrder DEF K, KeptPath
    <3>4. K(a, i) <=> K(a, q)
      BY <2>4, <3>2 DEF K, KeptPath
    <3>5. J(a, i, n) <=> n > 0 /\ J(a, q, n - 1)
      <4>1. ASSUME NEW m \in Nat, NEW k \in Nat, n = m + k + 1,
                   Path(a, p, m) \in cl, Path(id, i, k) \in cl
            PROVE  n > 0 /\ J(a, q, n - 1)
        <5>1. k > 0 /\ Path(id, q, k - 1) \in cl
          BY <3>1, <4>1
        <5>2. k - 1 \in Nat /\ n - 1 = m + (k - 1) + 1 /\ n > 0
          BY <4>1, <5>1
        <5> QED  BY <4>1, <5>1, <5>2 DEF J, JoinedPath
      <4>2. ASSUME NEW m \in Nat, NEW k \in Nat, n > 0, n - 1 = m + k + 1,
                   Path(a, p, m) \in cl, Path(id, q, k) \in cl
            PROVE  J(a, i, n)
        <5>1. k + 1 \in Nat /\ k + 1 > 0 /\ (k + 1) - 1 = k /\ n = m + (k + 1) + 1
          BY <4>2
        <5>2. Path(id, i, k + 1) \in cl
          BY <3>1, <4>2, <5>1
        <5> QED  BY <4>2, <5>1, <5>2 DEF J, JoinedPath
      <4> QED  BY <4>1, <4>2 DEF J, JoinedPath
    <3>6. e.rows[i].parent = q
      BY <1>3, <2>1, <2>4
    <3>7. n > 0 => (Path(a, q, n - 1) \in e.closure <=>
                      (Path(a, q, n - 1) \in cl /\ K(a, q)) \/ J(a, q, n - 1))
      BY <1>7, <3>2
    <3>8. Path(a, i, n) \in cl <=> (a = i /\ n = 0) \/ (n > 0 /\ Path(a, q, n - 1) \in cl)
      BY <2>1
    <3>9. Path(a, i, n) \in e.closure <=> (Path(a, i, n) \in cl /\ K(a, i)) \/ J(a, i, n)
      BY <1>7, <2>1
    <3> QED  BY <3>3, <3>4, <3>5, <3>6, <3>7, <3>8, <3>9
  <2> QED  BY <2>2, <2>3, <2>4
<1>13. Keyed(e.closure)
  <2> SUFFICES ASSUME NEW a \in Sections, NEW j \in Sections, NEW m \in Nat, NEW n \in Nat,
                      Path(a, j, m) \in e.closure, Path(a, j, n) \in e.closure
               PROVE  m = n
    BY DEF Keyed
  <2>1. Keyed(cl)
    BY DEF WellKept
  <2>2. \A k \in Nat : J(a, j, k) => ~(Above(cl, a, j) /\ K(a, j))
    <3> SUFFICES ASSUME NEW k \in Nat, J(a, j, k), Above(cl, a, j), K(a, j)
                 PROVE  FALSE
      OBVIOUS
    <3>1. B(j) /\ Above(cl, a, p)
      BY <1>10
    <3>2. p \in Sections
      BY <1>1, <3>1, PathEnds DEF Above, IsDatabase
    <3>3. Above(cl, a, id) \/ Above(cl, id, a)
      BY <3>1 DEF WellKept, Linear
    <3>4. ~Above(cl, id, a)
      BY <3>1, <3>2, AboveIsOrder
    <3> QED  BY <1>9, <3>1, <3>3, <3>4 DEF K, KeptPath
  <2>3. ASSUME J(a, j, m), J(a, j, n)
        PROVE  m = n
    <3>1. PICK m1 \in Nat, k1 \in Nat :
             m = m1 + k1 + 1 /\ Path(a, p, m1) \in cl /\ Path(id, j, k1) \in cl
      BY <2>3 DEF J, JoinedPath
    <3>2. PICK m2 \in Nat, k2 \in Nat :
             n = m2 + k2 + 1 /\ Path(a, p, m2) \in cl /\ Path(id, j, k2) \in cl
      BY <2>3 DEF J, JoinedPath
    <3>3. p \in Sections
      BY <1>1, <3>1, PathEnds DEF IsDatabase
    <3>4. m1 = m2 /\ k1 = k2
      BY <2>1, <3>1, <3>2, <3>3 DEF Keyed
    <3> QED  BY <3>1, <3>2, <3>4
  <2>4. Path(a, j, m) \in cl /\ Path(a, j, n) \in cl => m = n
    BY <2>1 DEF Keyed
  <2>5. (Path(a, j, m) \in cl => Above(cl, a, j)) /\ (Path(a, j, n) \in cl => Above(cl, a, j))
    BY DEF Above
  <2>6. /\ (Path(a, j, m) \in cl /\ K(a, j)) \/ J(a, j, m)
        /\ (Path(a, j, n) \in cl /\ K(a, j)) \/ J(a, j, n)
    BY <1>7
  <2> QED  BY <2>2, <2>3, <2>4, <2>5, <2>6
<1>14. Transitive(e.closure)
  <2> SUFFICES ASSUME NEW a \in Sections, NEW i \in Sections, NEW j \in Sections,
                      NEW m \in Nat, NEW n \in Nat,
                      Path(a, i, m) \in e.closure, Path(i, j, n) \in e.closure
               PROVE  Path(a, j, m + n) \in e.closure
    BY DEF Transitive
  <2>1. /\ (Path(a, i, m) \in cl /\ K(a, i)) \/ J(a, i, m)
        /\ (Path(i, j, n) \in cl /\ K(i, j)) \/ J(i, j, n)
    BY <1>7
  <2>2. m + n \in Nat
    OBVIOUS
  <2>3. Transitive(cl) /\ Linear(cl)
    BY DEF WellKept
  <2>4. CASE Path(a, i, m) \in cl /\ K(a, i) /\ Path(i, j, n) \in cl /\ K(i, j)
    <3>1. Path(a, j, m + n) \in cl
      BY <2>3, <2>4 DEF Transitive
    <3>2. K(a, j)
      <4> SUFFICES ASSUME a # id, Above(cl, a, id), B(j)
                   PROVE  FALSE
        BY DEF K, KeptPath
      <4>1. ~B(i)
        BY <2>4 DEF K, KeptPath
      <4>2. Above(cl, i, j)
        BY <2>4 DEF Above
      <4>3. Above(cl, i, id)
        BY <2>3, <4>1, <4>2 DEF Linear
      <4>4. i = id
        BY <2>4, <4>3 DEF K, KeptPath
      <4> QED  BY <1>9, <4>1, <4>4
    <3> QED  BY <1>7, <2>2, <3>1, <3>2
  <2>5. CASE Path(a, i, m) \in cl /\ K(a, i) /\ J(i, j, n)
    <3>1. PICK u \in Nat, k \in Nat :
             n = u + k + 1 /\ Path(i, p, u) \in cl /\ Path(id, j, k) \in cl
      BY <2>5 DEF J, JoinedPath
    <3>2. p \in Sections
      BY <1>1, <3>1, PathEnds DEF IsDatabase
    <3>3. Path(a, p, m + u) \in cl
      BY <2>3, <2>5, <3>1, <3>2 DEF Transitive
    <3>4. m + u \in Nat /\ m + n = (m + u) + k + 1
      BY <3>1
    <3>5. J(a, j, m + n)
      BY <3>1, <3>3, <3>4 DEF J, JoinedPath
    <3> QED  BY <1>7, <2>2, <3>5
  <2>6. CASE J(a, i, m) /\ Path(i, j, n) \in cl
    <3>1. PICK u \in Nat, k \in Nat :
             m = u + k + 1 /\ Path(a, p, u) \in cl /\ Path(id, i, k) \in cl
      BY <2>6 DEF J, JoinedPath
    <3>2. Path(id, j, k + n) \in cl
      BY <2>3, <2>6, <3>1 DEF Transitive
    <3>3. k + n \in Nat /\ m + n = u + (k + n) + 1
      BY <3>1
    <3>4. J(a, j, m + n)
      BY <3>1, <3>2, <3>3 DEF J, JoinedPath
    <3> QED  BY <1>7, <2>2, <3>4
  <2>7. CASE J(a, i, m) /\ J(i, j, n)
    <3>1. B(i) /\ Above(cl, i, p)
      BY <1>10, <2>7
    <3>2. p \in Sections
      BY <1>1, <3>1, PathEnds DEF Above, IsDatabase
    <3>3. Above(cl, id, p)
      BY <3>1, <3>2, AboveIsOrder
    <3> QED  BY <3>3
  <2> QED  BY <2>1, <2>4, <2>5, <2>6, <2>7
<1>15. \A a, j \in Sections :
          Above(e.closure, a, j) <=>
            (Above(cl, a, j) /\ K(a, j)) \/ (Above(cl, a, p) /\ B(j))
  <2> SUFFICES ASSUME NEW a \in Sections, NEW j \in Sections
               PROVE  Above(e.closure, a, j) <=>
                        (Above(cl, a, j) /\ K(a, j)) \/ (Above(cl, a, p) /\ B(j))
    OBVIOUS
  <2>1. ASSUME NEW n \in Nat, Path(a, j, n) \in e.closure
        PROVE  (Above(cl, a, j) /\ K(a, j)) \/ (Above(cl, a, p) /\ B(j))
    BY <1>7, <1>10, <2>1 DEF Above
  <2>2. ASSUME Above(cl, a, j), K(a, j)
        PROVE  Above(e.closure, a, j)
    BY <1>7, <2>2 DEF Above
  <2>3. ASSUME NEW m \in Nat, NEW k \in Nat, Path(a, p, m) \in cl, Path(id, j, k) \in cl
        PROVE  Above(e.closure, a, j)
    <3>1. m + k + 1 \in Nat
      OBVIOUS
    <3>2. J(a, j, m + k + 1)
      BY <2>3, <3>1 DEF J, JoinedPath
    <3> QED  BY <1>7, <3>1, <3>2 DEF Above
  <2>4. ASSUME Above(cl, a, p), B(j)
        PROVE  Above(e.closure, a, j)
    BY <2>3, <2>4 DEF Above
  <2> QED  BY <2>1, <2>2, <2>4 DEF Above
<1>16. Linear(e.closure)
  <2> SUFFICES ASSUME NEW a \in Sections, NEW b \in Sections, NEW i \in Sections,
                      Above(e.closure, a, i), Above(e.closure, b, i)
               PROVE  Above(e.closure, a, b) \/ Above(e.closure, b, a)
    BY DEF Linear
  <2> DEFINE Old(u, v) == Above(cl, u, v) /\ K(u, v)
             New(u, v) == Above(cl, u, p) /\ B(v)
  <2>1. (Old(a, i) \/ New(a, i)) /\ (Old(b, i) \/ New(b, i))
    BY <1>15
  <2>2. Linear(cl)
    BY DEF WellKept
  \* Two kept paths: the one between them is kept.
  <2>3. ASSUME NEW u \in Sections, NEW v \in Sections, Old(u, i), Old(v, i), Above(cl, u, v)
        PROVE  Old(u, v)
    <3> SUFFICES ASSUME u # id, Above(cl, u, id), B(v)
                 PROVE  FALSE
      BY <2>3 DEF K, KeptPath
    <3>1. B(i)
      BY <2>3, AboveIsOrder
    <3> QED  BY <2>3, <3>1 DEF K, KeptPath
  \* One kept and one joined: the kept one starts in the moved subtree.
  <2>4. ASSUME NEW u \in Sections, NEW v \in Sections, Old(u, i), New(v, i)
        PROVE  New(v, u)
    <3>1. Above(cl, u, id) \/ Above(cl, id, u)
      BY <2>2, <2>4 DEF Linear
    <3>2. Above(cl, u, id) => u = id
      BY <2>4 DEF K, KeptPath
    <3> QED  BY <1>9, <2>4, <3>1, <3>2
  \* Two joined: both start above the new parent.
  <2>5. ASSUME NEW u \in Sections, NEW v \in Sections, New(u, i), New(v, i), Above(cl, u, v)
        PROVE  Old(u, v)
    <3>1. p \in Sections
      BY <1>1, <2>5, PathEnds DEF Above, IsDatabase
    <3>2. ~B(v)
      BY <2>5, <3>1, AboveIsOrder
    <3> QED  BY <2>5, <3>2 DEF K, KeptPath
  <2>6. CASE Old(a, i) /\ Old(b, i)
    <3>1. Above(cl, a, b) \/ Above(cl, b, a)
      BY <2>2, <2>6 DEF Linear
    <3>2. Old(a, b) \/ Old(b, a)
      BY <2>3, <2>6, <3>1
    <3> QED  BY <1>15, <3>2
  <2>7. CASE New(a, i) /\ New(b, i)
    <3>1. p \in Sections
      BY <1>1, <2>7, PathEnds DEF Above, IsDatabase
    <3>2. Above(cl, a, b) \/ Above(cl, b, a)
      BY <2>2, <2>7, <3>1 DEF Linear
    <3>3. Old(a, b) \/ Old(b, a)
      BY <2>5, <2>7, <3>2
    <3> QED  BY <1>15, <3>3
  <2>8. CASE Old(a, i) /\ New(b, i)
    <3>1. New(b, a)
      BY <2>4, <2>8
    <3> QED  BY <1>15, <3>1
  <2>9. CASE New(a, i) /\ Old(b, i)
    <3>1. New(a, b)
      BY <2>4, <2>9
    <3> QED  BY <1>15, <3>1
  <2> QED  BY <2>1, <2>6, <2>7, <2>8, <2>9
<1> QED  BY <1>6, <1>12, <1>13, <1>14, <1>16 DEF WellKept, e

(***************************************************************************)
(* Deleting a row and what is below it.                                    *)
(***************************************************************************)
\* Every set of natural numbers that is not empty has a least member.
LEMMA LeastNatural ==
    ASSUME NEW T \in SUBSET Nat, T # {}
    PROVE  \E n \in T : \A m \in T : ~(m < n)
<1>1. PICK n \in T : \A m \in T : <<m, n>> \notin OpToRel(<, Nat)
  BY NatLessThanWellFounded, WFMin
<1>2. \A m \in T : <<m, n>> \in OpToRel(<, Nat) <=> m < n
  BY DEF OpToRel
<1> QED  BY <1>1, <1>2

\* The cascade takes the row, the children of all it takes, and no stranger.
LEMMA SubtreeCloses ==
    ASSUME NEW d, NEW id \in Stored(d)
    PROVE  /\ id \in Subtree(d, id) /\ Subtree(d, id) \subseteq Stored(d)
           /\ \A c \in Stored(d) : d.rows[c].parent \in Subtree(d, id) => c \in Subtree(d, id)
           /\ \A down \in SUBSET Stored(d) :
                 (id \in down /\ \A c \in Stored(d) : d.rows[c].parent \in down => c \in down)
                    => Subtree(d, id) \subseteq down
<1>1. id \in Subtree(d, id) /\ Subtree(d, id) \subseteq Stored(d)
  BY DEF Subtree
<1>2. \A down \in SUBSET Stored(d) :
         (id \in down /\ \A c \in Stored(d) : d.rows[c].parent \in down => c \in down)
            => Subtree(d, id) \subseteq down
  BY DEF Subtree
<1>3. ASSUME NEW c \in Stored(d), d.rows[c].parent \in Subtree(d, id)
      PROVE  c \in Subtree(d, id)
  <2> SUFFICES ASSUME NEW down \in SUBSET Stored(d), id \in down,
                      \A x \in Stored(d) : d.rows[x].parent \in down => x \in down
               PROVE  c \in down
    BY DEF Subtree
  <2>1. d.rows[c].parent \in down
    BY <1>2, <1>3
  <2> QED  BY <2>1
<1> QED  BY <1>1, <1>2, <1>3

\* Of sections it takes exactly those the closure has below the row, so nothing that
\* stays has anything above it that goes.
LEMMA NothingAboveGoes ==
    ASSUME NEW d, WellKept(d), NEW id \in Stored(d),
           NEW a \in Sections, NEW j \in Sections, NEW n \in Nat,
           Path(a, j, n) \in d.closure, a \in Subtree(d, id)
    PROVE  j \in Subtree(d, id)
<1> DEFINE cl   == d.closure
           gone == Subtree(d, id)
           E    == {x \in Stored(d) : \/ x = id
                                      \/ x \in Sections /\ Above(cl, id, x)
                                      \/ x \in Questions /\ Above(cl, id, d.rows[x].parent)}
<1>1. IsDatabase(d)
  BY DEF WellKept
<1>2. \A x \in Stored(d) : x \in Items /\ d.rows[x].parent \in Parents
  BY <1>1 DEF IsDatabase
<1>3. \A x : Above(cl, id, x) => id \in Sections
  BY <1>1, PathEnds DEF Above, IsDatabase
<1>4. \A q \in E : q \in Sections => id \in Sections /\ Above(cl, id, q)
  <2> SUFFICES ASSUME NEW q \in E, q \in Sections
               PROVE  id \in Sections /\ Above(cl, id, q)
    OBVIOUS
  <2>1. CASE q = id
    BY <2>1, AboveIsOrder DEF Above
  <2>2. CASE q # id
    <3>1. q \notin Questions
      OBVIOUS
    <3> QED  BY <1>3, <2>2, <3>1
  <2> QED  BY <2>1, <2>2
<1>5. ASSUME NEW c \in Stored(d), d.rows[c].parent \in E
      PROVE  c \in E
  <2> DEFINE q == d.rows[c].parent
  <2>1. q \in Sections
    BY <1>2, <1>5 DEF Parents, Items
  <2>2. id \in Sections /\ Above(cl, id, q)
    BY <1>4, <1>5, <2>1
  <2>3. CASE c \in Questions
    BY <2>2, <2>3
  <2>4. CASE c \in Sections
    <3>1. PICK k \in Nat : Path(id, q, k) \in cl
      BY <2>2 DEF Above
    <3>2. k + 1 \in Nat /\ k + 1 > 0 /\ (k + 1) - 1 = k
      OBVIOUS
    <3>3. Path(id, c, k + 1) \in cl
      BY <2>2, <2>4, <3>1, <3>2 DEF WellKept, Follows
    <3>4. Above(cl, id, c)
      BY <3>2, <3>3 DEF Above
    <3> QED  BY <2>4, <3>4
  <2> QED  BY <1>2, <2>3, <2>4 DEF Items
<1>6. gone \subseteq E
  <2>1. id \in E /\ E \in SUBSET Stored(d)
    OBVIOUS
  <2>2. \A c \in Stored(d) : d.rows[c].parent \in E => c \in E
    BY <1>5
  <2> HIDE DEF E
  <2> QED  BY <2>1, <2>2, SubtreeCloses
<1>7. id \in Sections /\ Above(cl, id, a) /\ Above(cl, a, j)
  BY <1>4, <1>6 DEF Above
<1>8. Above(cl, id, j)
  BY <1>7, AboveIsOrder
<1> HIDE DEF gone, E
<1>9. ASSUME NEW x \in Sections, Above(cl, id, x), x \notin gone
      PROVE  FALSE
  <2> DEFINE T == {m \in Nat : \E y \in Sections : y \notin gone /\ Path(id, y, m) \in cl}
  <2>1. T # {}
    BY <1>9 DEF Above
  <2>2. PICK m \in T : \A k \in T : ~(k < m)
    BY <2>1, LeastNatural
  <2>3. PICK y \in Sections : y \notin gone /\ Path(id, y, m) \in cl
    OBVIOUS
  <2>4. y \in Stored(d) \cap Sections
    BY <1>1, <2>3, PathEnds DEF IsDatabase
  <2>5. m = 0 \/ Path(id, d.rows[y].parent, m - 1) \in cl
    BY <1>7, <2>3, <2>4 DEF WellKept, Follows
  <2>6. m # 0
    <3>1. m = 0 => y = id
      BY <1>7, <2>3, <2>4 DEF WellKept, Follows
    <3>2. id \in gone
      BY SubtreeCloses DEF gone
    <3> QED  BY <2>3, <3>1, <3>2
  <2>7. m - 1 \in Nat /\ m - 1 < m
    BY <2>6
  <2>8. d.rows[y].parent \in Sections
    BY <1>1, <2>5, <2>6, PathEnds DEF IsDatabase
  <2>9. d.rows[y].parent \in gone
    BY <2>2, <2>5, <2>6, <2>7, <2>8
  <2> QED  BY <2>3, <2>4, <2>9, SubtreeCloses DEF gone
<1> QED  BY <1>8, <1>9 DEF gone

\* A row deleted with all that is below it leaves the closure well kept.
LEMMA DeleteKept ==
    ASSUME NEW d, WellKept(d), NEW id \in Stored(d)
    PROVE  WellKept(Delete(d, id))
<1> DEFINE e    == Delete(d, id)
           cl   == d.closure
           gone == Subtree(d, id)
           r    == [i \in Stored(d) \ gone |-> d.rows[i]]
           ty   == [i \in DOMAIN d.type \ gone |-> d.type[i]]
           c2   == {c \in cl : c.ancestor \notin gone /\ c.descendant \notin gone}
<1>1. IsDatabase(d)
  BY DEF WellKept
<1>2. d = [status |-> d.status, rows |-> d.rows, type |-> d.type, closure |-> d.closure]
  BY <1>1 DEF IsDatabase
<1>3. e = [d EXCEPT !.rows = r, !.type = ty, !.closure = c2]
  BY DEF Delete
<1> HIDE DEF e, r, ty, c2, gone
<1>4. /\ e = [status |-> e.status, rows |-> e.rows, type |-> e.type, closure |-> e.closure]
      /\ e.status = d.status /\ e.type = ty /\ e.closure = c2 /\ e.rows = r
  BY <1>2, <1>3
<1>5. Stored(e) = Stored(d) \ gone /\ \A i \in Stored(e) : e.rows[i] = d.rows[i]
  BY <1>4 DEF Stored, r
<1>6. /\ id \in gone /\ gone \subseteq Stored(d)
      /\ \A c \in Stored(d) : d.rows[c].parent \in gone => c \in gone
  BY SubtreeCloses DEF gone
<1>7. DOMAIN e.type = Stored(e) \cap Sections /\ \A i \in DOMAIN e.type : e.type[i] \in SectionType
  BY <1>1, <1>4, <1>5 DEF IsDatabase, ty
<1>8. \A i \in Stored(e) : i \in Items /\ e.rows[i] \in [parent : Parents, order : Int]
                             /\ e.rows[i].parent \in Stored(e) \cup {Exam}
  BY <1>1, <1>5, <1>6 DEF IsDatabase
<1>9. ASSUME NEW c \in e.closure
      PROVE  c \in [ancestor : DOMAIN e.type, descendant : DOMAIN e.type, depth : Nat]
  <2>1. c \in cl /\ c.ancestor \notin gone /\ c.descendant \notin gone
    BY <1>4, <1>9 DEF c2
  <2>2. DOMAIN e.type = DOMAIN d.type \ gone
    BY <1>4 DEF ty
  <2>3. c \in [ancestor : DOMAIN d.type, descendant : DOMAIN d.type, depth : Nat]
    BY <1>1, <2>1 DEF IsDatabase
  <2> QED  BY <2>1, <2>2, <2>3
<1>10. IsDatabase(e)
  <2>1. e.closure \subseteq [ancestor : DOMAIN e.type, descendant : DOMAIN e.type, depth : Nat]
    BY <1>9
  <2>2. e.status \in ExamStatus \cup {Deleted}
    BY <1>1, <1>4 DEF IsDatabase
  <2> QED  BY <1>4, <1>7, <1>8, <2>1, <2>2 DEF IsDatabase
<1>11. \A a, j, n : Path(a, j, n) \in e.closure <=>
                      Path(a, j, n) \in cl /\ a \notin gone /\ j \notin gone
  BY <1>4 DEF c2, Path
<1>12. \A a, j \in Sections : \A n \in Nat :
          j \notin gone => (Path(a, j, n) \in e.closure <=> Path(a, j, n) \in cl)
  BY <1>11, NothingAboveGoes DEF gone
<1>13. ASSUME NEW i \in Stored(e) \cap Sections
       PROVE  Follows(e.rows, e.closure, i)
  <2> SUFFICES ASSUME NEW a \in Sections, NEW n \in Nat
               PROVE  Path(a, i, n) \in e.closure <=>
                        \/ a = i /\ n = 0
                        \/ n > 0 /\ Path(a, e.rows[i].parent, n - 1) \in e.closure
    BY DEF Follows
  <2> DEFINE q == d.rows[i].parent
  <2>1. i \in Stored(d) \cap Sections /\ i \notin gone /\ e.rows[i].parent = q /\ q \notin gone
        /\ q \in Parents
    BY <1>1, <1>5, <1>6 DEF IsDatabase
  <2>2. Path(a, i, n) \in cl <=> (a = i /\ n = 0) \/ (n > 0 /\ Path(a, q, n - 1) \in cl)
    BY <2>1 DEF WellKept, Follows
  <2>3. n > 0 => (Path(a, q, n - 1) \in e.closure <=> Path(a, q, n - 1) \in cl)
    <3>1. CASE q = Exam
      BY <1>1, <1>10, <3>1, PathEnds DEF IsDatabase
    <3>2. CASE q \in Sections
      BY <1>12, <2>1, <3>2
    <3> QED  BY <2>1, <3>1, <3>2 DEF Parents
  <2> QED  BY <1>12, <2>1, <2>2, <2>3
<1>14. Keyed(e.closure)
  BY <1>11 DEF WellKept, Keyed
<1>15. Transitive(e.closure)
  BY <1>11 DEF WellKept, Transitive
<1>16. \A a, j \in Sections : Above(e.closure, a, j) <=>
          Above(cl, a, j) /\ a \notin gone /\ j \notin gone
  BY <1>11 DEF Above
<1>17. Linear(e.closure)
  BY <1>16 DEF WellKept, Linear
<1> QED  BY <1>10, <1>13, <1>14, <1>15, <1>17 DEF WellKept, e

(***************************************************************************)
(* The statements of a save.                                               *)
(***************************************************************************)
Statements ==
    {Dropping} \cup {Deleting(id) : id \in Items}
      \cup [do : {"create", "put"}, id : Items, parent : Parents, order : Int]
      \cup [do : {"own"}, id : Items, parent : Parents, type : SectionType]

\* WellKept, of finitely many rows: a list of children has a length.
Kept(d) == WellKept(d) /\ IsFiniteSet(Stored(d))

\* Other statuses and content types leave the closure as well kept as it was.
LEMMA RestKept ==
    ASSUME NEW d, WellKept(d), NEW e,
           e = [status |-> e.status, rows |-> e.rows, type |-> e.type, closure |-> e.closure],
           e.rows = d.rows, e.closure = d.closure, DOMAIN e.type = DOMAIN d.type,
           e.status \in ExamStatus \cup {Deleted},
           \A i \in DOMAIN e.type : e.type[i] \in SectionType
    PROVE  WellKept(e)
<1>1. IsDatabase(d) /\ Stored(e) = Stored(d)
  BY DEF WellKept, Stored
<1>2. IsDatabase(e)
  BY <1>1 DEF IsDatabase
<1> QED  BY <1>1, <1>2 DEF WellKept

\* An exam without sections is well kept.
LEMMA EmptyKept ==
    ASSUME NEW status \in ExamStatus \cup {Deleted}, NEW d, d = [EmptyOutline EXCEPT !.status = status]
    PROVE  Kept(d) /\ d.status = status
<1>1. d = [status |-> status, rows |-> <<>>, type |-> <<>>, closure |-> {}]
  BY DEF EmptyOutline
<1>2. Stored(d) = {} /\ DOMAIN d.type = {} /\ d.closure = {} /\ d.status = status
  BY <1>1 DEF Stored
<1>3. IsDatabase(d)
  <2>1. d = [status |-> d.status, rows |-> d.rows, type |-> d.type, closure |-> d.closure]
    BY <1>1
  <2> QED  BY <1>2, <2>1 DEF IsDatabase
<1>4. WellKept(d)
  BY <1>2, <1>3 DEF WellKept, Keyed, Transitive, Linear, Above
<1> QED  BY <1>2, <1>4, FS_EmptySet DEF Kept

\* A new question has a row and nothing else.
LEMMA CreateQuestionKept ==
    ASSUME NEW d, WellKept(d), NEW id \in Questions, NEW p \in Parents, NEW order \in Int,
           MayCreate(d, id, p)
    PROVE  WellKept(Create(d, id, p, order))
<1> DEFINE e == Create(d, id, p, order)
           r == [i \in Stored(d) \cup {id} |->
                   IF i = id THEN [parent |-> p, order |-> order] ELSE d.rows[i]]
<1>1. IsDatabase(d)
  BY DEF WellKept
<1>2. d = [status |-> d.status, rows |-> d.rows, type |-> d.type, closure |-> d.closure]
  BY <1>1 DEF IsDatabase
<1>3. e = [d EXCEPT !.rows = r]
  BY DEF Create
<1> HIDE DEF e, r
<1>4. /\ e = [status |-> e.status, rows |-> e.rows, type |-> e.type, closure |-> e.closure]
      /\ e.status = d.status /\ e.type = d.type /\ e.closure = d.closure /\ e.rows = r
  BY <1>2, <1>3
<1>5. /\ Stored(e) = Stored(d) \cup {id}
      /\ \A i \in Stored(d) : i # id => e.rows[i] = d.rows[i]
      /\ e.rows[id] = [parent |-> p, order |-> order]
  BY <1>4 DEF Stored, r
<1>6. id \notin Sections /\ id \notin Stored(d) /\ p \in Stored(d) \cup {Exam}
  BY DEF MayCreate
<1>7. IsDatabase(e)
  <2>1. \A i \in Stored(e) : i \in Items /\ e.rows[i] \in [parent : Parents, order : Int]
                               /\ e.rows[i].parent \in Stored(e) \cup {Exam}
    BY <1>1, <1>5, <1>6 DEF IsDatabase, Items
  <2>2. DOMAIN e.type = Stored(e) \cap Sections
    BY <1>1, <1>4, <1>5, <1>6 DEF IsDatabase
  <2> QED  BY <1>1, <1>4, <2>1, <2>2 DEF IsDatabase
<1>8. \A i \in Stored(e) \cap Sections : Follows(e.rows, e.closure, i)
  BY <1>4, <1>5, <1>6 DEF WellKept, Follows
<1> QED  BY <1>4, <1>7, <1>8 DEF WellKept, e

\* A row put where the trigger does not raise.
LEMMA PutKept ==
    ASSUME NEW d, WellKept(d), NEW id \in Items, NEW p \in Parents, NEW order \in Int,
           MayPut(d, id, p)
    PROVE  WellKept(Put(d, id, p, order))
<1>1. /\ IsDatabase(d) /\ id \in Stored(d) /\ p \in Stored(d) \cup {Exam}
  BY DEF WellKept, MayPut
<1>2. CASE id \in Questions \/ d.rows[id].parent = p
  BY <1>1, <1>2, PutInPlaceKept
<1>3. CASE id \in Sections /\ d.rows[id].parent # p
  <2>1. ~Raises(d.closure, id, p)
    BY <1>3 DEF MayPut
  <2>2. ~Above(d.closure, id, p)
    <3> SUFFICES ASSUME NEW n \in Nat, Path(id, p, n) \in d.closure  PROVE FALSE
      BY DEF Above
    <3>1. p \in DOMAIN d.type /\ DOMAIN d.type \subseteq Sections
      BY <1>1, PathEnds DEF IsDatabase
    <3>2. Path(id, p, n) \in PathsFrom(d.closure, id) /\ Path(id, p, n).descendant = p
      BY DEF PathsFrom, Path
    <3> QED  BY <2>1, <3>1, <3>2 DEF Raises
  <2> QED  BY <1>1, <1>3, <2>2, MoveSectionKept
<1> QED  BY <1>2, <1>3 DEF Items

\* Put leaves which rows and types there are, and the status.
LEMMA PutShape ==
    ASSUME NEW d, IsDatabase(d), NEW id \in Stored(d), NEW p, NEW order
    PROVE  LET e == Put(d, id, p, order)
           IN  /\ e = [status |-> d.status, rows |-> e.rows, type |-> d.type, closure |-> e.closure]
               /\ Stored(e) = Stored(d)
<1> DEFINE e  == Put(d, id, p, order)
           r  == [d.rows EXCEPT ![id] = [parent |-> p, order |-> order]]
           c2 == IF id \in Questions \/ d.rows[id].parent = p THEN d.closure
                 ELSE UpdateTrigger(d.closure, id, p)
<1>1. d = [status |-> d.status, rows |-> d.rows, type |-> d.type, closure |-> d.closure]
  BY DEF IsDatabase
<1>2. e = [d EXCEPT !.rows = r, !.closure = c2]
  BY <1>1 DEF Put
<1>3. DOMAIN r = DOMAIN d.rows
  OBVIOUS
<1> HIDE DEF e, r, c2
<1>4. e = [status |-> d.status, rows |-> e.rows, type |-> d.type, closure |-> e.closure] /\ e.rows = r
  BY <1>1, <1>2
<1> QED  BY <1>3, <1>4 DEF Stored, e

\* A statement that is allowed keeps the tables well kept.  It gives the exam no other
\* status, but may delete it.
LEMMA EffectKept ==
    ASSUME NEW d, Kept(d), NEW s, NEW st \in Statements, session[s].work = d, Allowed(s, st)
    PROVE  Kept(Effect(d, st)) /\ Effect(d, st).status \in {d.status, Deleted}
<1>1. IsDatabase(d) /\ WellKept(d) /\ IsFiniteSet(Stored(d))
  BY DEF Kept, WellKept
<1>2. CASE st = Dropping
  <2>1. Effect(d, st) = [EmptyOutline EXCEPT !.status = Deleted]
    BY <1>2 DEF Effect, Dropping
  <2> QED  BY <2>1, EmptyKept
<1>3. ASSUME NEW id \in Items, st = Deleting(id)
      PROVE  Kept(Effect(d, st)) /\ Effect(d, st).status \in {d.status, Deleted}
  <2>1. Effect(d, st) = Delete(d, id) /\ id \in Stored(d)
    BY <1>3 DEF Effect, Deleting, Allowed
  <2>2. WellKept(Delete(d, id))
    BY <1>1, <2>1, DeleteKept
  <2>3. Stored(Delete(d, id)) = Stored(d) \ Subtree(d, id) /\ Delete(d, id).status = d.status
    <3> DEFINE gone == Subtree(d, id)
               r  == [i \in Stored(d) \ gone |-> d.rows[i]]
               ty == [i \in DOMAIN d.type \ gone |-> d.type[i]]
               c2 == {c \in d.closure : c.ancestor \notin gone /\ c.descendant \notin gone}
    <3>1. d = [status |-> d.status, rows |-> d.rows, type |-> d.type, closure |-> d.closure]
      BY <1>1 DEF IsDatabase
    <3>2. Delete(d, id) = [d EXCEPT !.rows = r, !.type = ty, !.closure = c2]
      BY DEF Delete
    <3>3. DOMAIN r = Stored(d) \ gone
      OBVIOUS
    <3> HIDE DEF r, ty, c2, gone
    <3>4. Delete(d, id).rows = r /\ Delete(d, id).status = d.status
      BY <3>1, <3>2
    <3> QED  BY <3>3, <3>4 DEF Stored, gone
  <2>4. IsFiniteSet(Stored(Delete(d, id)))
    BY <1>1, <2>3, FS_Subset
  <2> QED  BY <2>1, <2>2, <2>3, <2>4 DEF Kept
<1>4. ASSUME NEW id \in Items, NEW p \in Parents, NEW order \in Int,
             st = [do |-> "create", id |-> id, parent |-> p, order |-> order]
      PROVE  Kept(Effect(d, st)) /\ Effect(d, st).status \in {d.status, Deleted}
  <2> DEFINE e == Create(d, id, p, order)
  <2>1. Effect(d, st) = e /\ MayCreate(d, id, p)
    BY <1>4 DEF Effect, Allowed
  <2>2. WellKept(e)
    BY <1>1, <2>1, CreateSectionKept, CreateQuestionKept DEF Items
  <2>3. Stored(e) = Stored(d) \cup {id} /\ e.status = d.status
    <3> DEFINE r  == [i \in Stored(d) \cup {id} |->
                        IF i = id THEN [parent |-> p, order |-> order] ELSE d.rows[i]]
               ty == [i \in DOMAIN d.type \cup {id} |-> IF i = id THEN "SECTION" ELSE d.type[i]]
    <3>1. d = [status |-> d.status, rows |-> d.rows, type |-> d.type, closure |-> d.closure]
      BY <1>1 DEF IsDatabase
    <3>2. \/ e = [d EXCEPT !.rows = r]
          \/ e = [d EXCEPT !.rows = r, !.type = ty, !.closure = InsertTrigger(d.closure, id, p)]
      BY <3>1 DEF Create
    <3>3. DOMAIN r = Stored(d) \cup {id}
      OBVIOUS
    <3> HIDE DEF e, r, ty
    <3>4. e.rows = r /\ e.status = d.status
      BY <3>1, <3>2
    <3> QED  BY <3>3, <3>4 DEF Stored, e
  <2> HIDE DEF e
  <2>4. IsFiniteSet(Stored(e))
    BY <1>1, <2>3, FS_AddElement
  <2> QED  BY <2>1, <2>2, <2>3, <2>4 DEF Kept
<1>5. ASSUME NEW id \in Items, NEW p \in Parents, NEW order \in Int,
             st = [do |-> "put", id |-> id, parent |-> p, order |-> order]
      PROVE  Kept(Effect(d, st)) /\ Effect(d, st).status \in {d.status, Deleted}
  <2>1. Effect(d, st) = Put(d, id, p, order) /\ MayPut(d, id, p)
    BY <1>5 DEF Effect, Allowed
  <2>2. WellKept(Put(d, id, p, order))
    BY <1>1, <2>1, PutKept
  <2>3. Stored(Put(d, id, p, order)) = Stored(d) /\ Put(d, id, p, order).status = d.status
    BY <1>1, <2>1, PutShape DEF MayPut
  <2> QED  BY <1>1, <2>1, <2>2, <2>3 DEF Kept
<1>6. ASSUME NEW id \in Items, NEW p \in Parents, NEW type \in SectionType,
             st = [do |-> "own", id |-> id, parent |-> p, type |-> type]
      PROVE  Kept(Effect(d, st)) /\ Effect(d, st).status \in {d.status, Deleted}
  <2> DEFINE order == d.rows[id].order
             put   == Put(d, id, p, order)
             e     == Effect(d, st)
  <2>1. MayPut(d, id, p) /\ id \in Stored(d)
    BY <1>6 DEF Allowed, MayPut
  <2>2. e = IF id \in Questions THEN put ELSE [put EXCEPT !.type[id] = type]
    BY <1>6 DEF Effect
  <2>3. order \in Int
    BY <1>1, <2>1 DEF IsDatabase
  <2>4. WellKept(put)
    BY <1>1, <2>1, <2>3, PutKept
  <2>5. /\ put = [status |-> d.status, rows |-> put.rows, type |-> d.type, closure |-> put.closure]
        /\ Stored(put) = Stored(d)
    BY <1>1, <2>1, PutShape
  <2>6. put.status = d.status /\ put.type = d.type
    BY <2>5
  <2> HIDE DEF e, put, order
  <2>7. CASE id \in Questions
    BY <1>1, <2>2, <2>4, <2>5, <2>6, <2>7 DEF Kept, e
  <2>8. CASE id \notin Questions
    <3> DEFINE ty == [d.type EXCEPT ![id] = type]
    <3>1. DOMAIN ty = DOMAIN d.type /\ \A i \in DOMAIN ty : ty[i] \in SectionType
      BY <1>1 DEF IsDatabase
    <3>2. e = [put EXCEPT !.type = ty]
      BY <2>2, <2>5, <2>6, <2>8
    <3> HIDE DEF ty
    <3>3. e = [status |-> d.status, rows |-> put.rows, type |-> ty, closure |-> put.closure]
      BY <2>5, <3>2
    <3>4. /\ e = [status |-> e.status, rows |-> e.rows, type |-> e.type, closure |-> e.closure]
          /\ e.rows = put.rows /\ e.closure = put.closure /\ e.type = ty /\ e.status = d.status
      BY <3>3
    <3>5. e.status \in ExamStatus \cup {Deleted}
      BY <1>1, <3>4 DEF IsDatabase
    <3>6. WellKept(e)
      BY <2>4, <2>6, <3>1, <3>4, <3>5, RestKept
    <3>7. IsFiniteSet(Stored(e))
      BY <1>1, <2>5, <3>4 DEF Stored
    <3> QED  BY <3>4, <3>6, <3>7 DEF Kept, e
  <2> QED  BY <2>7, <2>8
<1> QED  BY <1>2, <1>3, <1>4, <1>5, <1>6 DEF Statements

(***************************************************************************)
(* The invariant.                                                          *)
(***************************************************************************)
Child    == [id : Items, order : Int]
Children == Seq(Child)

CopyGood(copy) ==
    /\ copy.of \in Items \cup {Exam} /\ copy.parent \in Parents
    /\ copy.type \in SectionType
    /\ copy.list \in Children
    /\ copy.of \in Questions => copy.list = <<>>

\* A transaction that could still commit was loaded before the exam was approved, or
\* deletes it.
SavingGood(x) ==
    /\ x.version \in 1..version
    /\ Kept(x.work)
    /\ x.todo \in Seq(Statements)
    /\ x.version = version => db.status # "APPROVED" \/ x.work.status = Deleted

SessionGood(x) ==
    \/ x.at = "idle"
    \/ x.at = "reading" /\ CopyGood(x.copy)
    \/ x.at = "saving" /\ CopyGood(x.copy) /\ SavingGood(x)

Inv ==
    /\ Kept(db)
    /\ version \in Nat \ {0}
    /\ DOMAIN session = Sessions
    /\ \A s \in Sessions : SessionGood(session[s])

(***************************************************************************)
(* What an edit sends is made of statements.                               *)
(***************************************************************************)
\* The children of a list have ids and orders.
LEMMA ChildrenAre ==
    ASSUME NEW list \in Children
    PROVE  /\ Len(list) \in Nat /\ DOMAIN list = 1..Len(list)
           /\ list # <<>> => Len(list) > 0
           /\ \A k \in 1..Len(list) : list[k] \in Child /\ list[k].id \in Items /\ list[k].order \in Int
<1>1. Len(list) \in Nat /\ DOMAIN list = 1..Len(list) /\ (list # <<>> => Len(list) > 0)
  BY DEF Children
<1>2. \A k \in 1..Len(list) : list[k] \in Child
  BY DEF Children
<1>3. \A c \in Child : c.id \in Items /\ c.order \in Int
  BY DEF Child
<1> QED  BY <1>1, <1>2, <1>3

\* A function from 1 to n is such a list.
LEMMA ChildrenFrom ==
    ASSUME NEW n \in Nat, NEW list \in [1..n -> Child]
    PROVE  list \in Children /\ Len(list) = n
  BY DEF Children

\* What is loaded of stored rows has the types of a copy.
LEMMA CopiesGood ==
    ASSUME NEW d, Kept(d), NEW x \in Stored(d) \cup {Exam}, NEW copy \in Copies(d, x)
    PROVE  CopyGood(copy)
<1>1. IsDatabase(d) /\ IsFiniteSet(Stored(d))
  BY DEF Kept, WellKept
<1>2. x \in Items \cup {Exam} /\ (x \in Sections => x \in DOMAIN d.type)
  BY <1>1 DEF IsDatabase
<1>3. ParentIn(d, x) \in Parents /\ TypeIn(d, x) \in SectionType
  BY <1>1, <1>2 DEF IsDatabase, ParentIn, TypeIn, Parents, SectionType
<1>4. ASSUME NEW list \in Listings(d, x)  PROVE list \in Children
  <2> DEFINE kids == Listed(d, x)
             vals == {[id |-> i, order |-> d.rows[i].order] : i \in kids}
  <2>1. kids \subseteq Stored(d)
    BY DEF Listed, ChildrenOf
  <2>2. Cardinality(kids) \in Nat
    BY <1>1, <2>1, FS_Subset, FS_CardinalityType
  <2>3. vals \subseteq Child
    BY <1>1, <2>1 DEF IsDatabase, Child
  <2>4. list \in [1..Cardinality(kids) -> vals]
    BY <1>4 DEF Listings
  <2> HIDE DEF kids, vals
  <2>5. list \in [1..Cardinality(kids) -> Child]
    BY <2>3, <2>4
  <2> QED  BY <2>2, <2>5, ChildrenFrom
<1>5. <<>> \in Children
  BY DEF Children
<1>6. PICK list \in Children :
         /\ copy = [of |-> x, list |-> list, parent |-> ParentIn(d, x), type |-> TypeIn(d, x)]
         /\ x \in Questions => list = <<>>
  BY <1>4, <1>5 DEF Copies
<1> QED  BY <1>2, <1>3, <1>6 DEF CopyGood

\* What a handler holds when it edits has the types of a copy.
LEMMA HeldGood ==
    ASSUME Inv, NEW s \in Sessions, NEW copy \in Held(s)
    PROVE  CopyGood(copy)
<1>1. CASE session[s].at = "idle"
  BY <1>1, CopiesGood DEF Held, Inv
<1>2. CASE session[s].at = "reading"
  BY <1>2 DEF Held, Inv, SessionGood
<1> QED  BY <1>1, <1>2 DEF Held

\* Orders are integers, whatever index was asked for.
LEMMA PlacementTypes ==
    ASSUME NEW list \in Children, NEW asked \in Int
    PROVE  Placement(list, asked).list \in Children /\ Placement(list, asked).order \in Int
<1> DEFINE index == TargetIndex(list, asked)
           inner == index # Len(list) - 1 /\ index # 0
           kids  == IF inner /\ Crowded(list, index) THEN Spread(list) ELSE list
<1>1. Spread(list) \in Children /\ Len(Spread(list)) = Len(list)
  <2>1. ASSUME NEW k \in 1..Len(list)
        PROVE  [id |-> list[k].id, order |-> (k - 1) * OrderRange] \in Child
    <3>1. list[k].id \in Items /\ (k - 1) * OrderRange \in Int
      BY ChildrenAre
    <3> QED  BY <3>1 DEF Child
  <2>2. DOMAIN list = 1..Len(list) /\ Len(list) \in Nat
    BY ChildrenAre
  <2>3. Spread(list) = [k \in 1..Len(list) |-> [id |-> list[k].id, order |-> (k - 1) * OrderRange]]
    BY <2>2 DEF Spread
  <2>4. Spread(list) \in [1..Len(list) -> Child]
    BY <2>1, <2>3
  <2> QED  BY <2>2, <2>4, ChildrenFrom
<1>2. kids \in Children /\ Len(kids) = Len(list)
  BY <1>1
<1>3. index \in Int /\ Len(list) \in Nat /\ (list # <<>> => Len(list) > 0 /\ index \in 0..(Len(list) - 1))
  BY ChildrenAre DEF TargetIndex
<1>4. Placement(list, asked) =
        [list  |-> kids,
         order |-> IF list = <<>> THEN 0
                   ELSE IF inner THEN (kids[index + 1].order + kids[index + 2].order) \div 2
                   ELSE IF index = Len(list) - 1 THEN list[index + 1].order + OrderRange
                   ELSE list[1].order - OrderRange]
  BY DEF Placement
<1> HIDE DEF index, kids
<1>5. \A k \in 1..Len(list) : kids[k].order \in Int /\ list[k].order \in Int
  BY <1>2, ChildrenAre
<1>6. CASE list = <<>>
  BY <1>2, <1>4, <1>6
<1>7. CASE list # <<>> /\ inner
  <2>1. index + 1 \in 1..Len(list) /\ index + 2 \in 1..Len(list)
    BY <1>3, <1>7
  <2>2. (kids[index + 1].order + kids[index + 2].order) \div 2 \in Int
    BY <1>5, <2>1
  <2> QED  BY <1>2, <1>4, <1>7, <2>2
<1>8. CASE list # <<>> /\ ~inner
  <2>1. index + 1 \in 1..Len(list) /\ 1 \in 1..Len(list)
    BY <1>3, <1>8
  <2>2. list[index + 1].order + OrderRange \in Int /\ list[1].order - OrderRange \in Int
    BY <1>5, <2>1
  <2> QED  BY <1>2, <1>4, <1>8, <2>2
<1> QED  BY <1>6, <1>7, <1>8

\* Rebalancing and placing a child are statements on rows of known kinds.
LEMMA ChangesTyped ==
    ASSUME NEW copy, CopyGood(copy), copy.of \in Parents, NEW id \in Items, NEW asked \in Int,
           NEW do \in {"create", "put"}
    PROVE  PlaceChanges(copy, asked, do, id) \in Seq(Statements)
<1> DEFINE place == Placement(copy.list, asked)
           moved == [k \in DOMAIN place.list |->
                       Placing("put", place.list[k].id, copy.of, place.list[k].order)]
           first == IF place.list = copy.list THEN <<>> ELSE moved
<1>1. place.list \in Children /\ place.order \in Int
  BY PlacementTypes DEF CopyGood
<1> HIDE DEF place
<1>2. ASSUME NEW i \in Items, NEW o \in Int
      PROVE  Placing("put", i, copy.of, o) \in Statements /\ Placing(do, i, copy.of, o) \in Statements
  BY DEF Placing, Statements
<1>3. moved \in Seq(Statements)
  <2>1. Len(place.list) \in Nat /\ DOMAIN place.list = 1..Len(place.list)
    BY <1>1, ChildrenAre
  <2>2. \A k \in 1..Len(place.list) :
           Placing("put", place.list[k].id, copy.of, place.list[k].order) \in Statements
    BY <1>1, <1>2, ChildrenAre
  <2>3. moved \in [1..Len(place.list) -> Statements]
    BY <2>1, <2>2
  <2> QED  BY <2>1, <2>3
<1>4. first \in Seq(Statements)
  BY <1>3
<1>5. <<Placing(do, id, copy.of, place.order)>> \in Seq(Statements)
  BY <1>1, <1>2
<1>6. PlaceChanges(copy, asked, do, id) = first \o <<Placing(do, id, copy.of, place.order)>>
  BY DEF PlaceChanges, place
<1> HIDE DEF first
<1> QED  BY <1>4, <1>5, <1>6

\* The other sessions are as good as they were when nothing is committed.
LEMMA OthersGood ==
    ASSUME Inv, UNCHANGED <<db, version>>, NEW s \in Sessions, NEW x,
           session' = [session EXCEPT ![s] = x], SessionGood(x)
    PROVE  Inv'
<1>1. ASSUME NEW t \in Sessions  PROVE SessionGood(session[t])'
  <2>1. SessionGood(session'[t])
    BY DEF Inv
  <2> QED  BY <2>1 DEF SessionGood, SavingGood, CopyGood, Kept, WellKept
<1>2. DOMAIN session' = Sessions
  BY DEF Inv
<1>3. Kept(db)'
  BY DEF Inv, Kept, WellKept
<1> QED  BY <1>1, <1>2, <1>3 DEF Inv

\* A handler starts a save with what it read: the exam is not approved, or it is deleted.
LEMMA SendGood ==
    ASSUME Inv, NEW s \in Sessions, NEW copy, CopyGood(copy),
           NEW status \in ExamStatus \cup {Deleted}, Modifiable \/ status = Deleted,
           NEW todo \in Seq(Statements), Send(s, copy, status, todo)
    PROVE  Inv'
<1> DEFINE work == [db EXCEPT !.status = status]
           x    == Saving(copy, version, work, todo)
<1>1. Kept(db) /\ version \in Nat \ {0}
  BY DEF Inv
<1>2. /\ work = [status |-> work.status, rows |-> work.rows, type |-> work.type,
                 closure |-> work.closure]
      /\ work.status = status /\ work.rows = db.rows /\ work.type = db.type
      /\ work.closure = db.closure
  <2>1. db = [status |-> db.status, rows |-> db.rows, type |-> db.type, closure |-> db.closure]
    BY <1>1 DEF Kept, WellKept, IsDatabase
  <2> QED  BY <2>1
<1> HIDE DEF work
<1>3. Kept(work)
  <2>1. \A i \in DOMAIN work.type : work.type[i] \in SectionType
    BY <1>1, <1>2 DEF Kept, WellKept, IsDatabase
  <2>2. WellKept(work)
    BY <1>1, <1>2, <2>1, RestKept DEF Kept
  <2> QED  BY <1>1, <1>2, <2>2 DEF Kept, Stored
<1>4. /\ x.at = "saving" /\ x.copy = copy /\ x.version = version /\ x.work = work
      /\ x.todo = todo
  BY DEF Saving
<1> HIDE DEF x
<1>5. SessionGood(x)
  BY <1>1, <1>2, <1>3, <1>4 DEF SessionGood, SavingGood, Modifiable
<1>6. session' = [session EXCEPT ![s] = x] /\ UNCHANGED <<db, version>>
  BY DEF Send, x, work
<1> QED  BY <1>5, <1>6, OthersGood

\* The same for the saves that keep the status, and write the row they loaded.
LEMMA SaveGood ==
    ASSUME Inv, NEW s \in Sessions, NEW copy, CopyGood(copy), NEW type \in SectionType,
           Modifiable, NEW changes \in Seq(Statements), Save(s, copy, type, changes)
    PROVE  Inv'
<1> DEFINE own  == Owning(copy.of, copy.parent, type)
           todo == IF copy.of = Exam THEN changes ELSE changes \o <<own>>
<1>1. copy.of # Exam => own \in Statements
  BY DEF CopyGood, Owning, Statements
<1> HIDE DEF own
<1>2. todo \in Seq(Statements)
  BY <1>1
<1>3. db.status \in ExamStatus \cup {Deleted}
  BY DEF Inv, Kept, WellKept, IsDatabase
<1>4. Send(s, copy, db.status, todo)
  BY DEF Save, own
<1> HIDE DEF todo
<1> QED  BY <1>2, <1>3, <1>4, SendGood

\* Every command sends statements.
LEMMA EditGood ==
    ASSUME Inv, NEW s \in Sessions, NEW copy \in Held(s), Edit(s, copy)
    PROVE  Inv'
<1>1. CopyGood(copy)
  BY HeldGood
<1>2. copy.type \in SectionType /\ <<>> \in Seq(Statements)
  BY <1>1 DEF CopyGood
<1>3. ASSUME NEW id \in Items, NEW index \in -1..MaxIndex,
             CreateChild(s, copy, id, index) \/ AddChild(s, copy, id, index)
               \/ MoveChild(s, copy, id, index)
      PROVE  Inv'
  <2>1. index \in Int
    OBVIOUS
  <2>2. copy.of \in Parents
    <3>1. MoveChild(s, copy, id, index) => copy.list # <<>>
      BY DEF MoveChild, IdsOf
    <3>2. MoveChild(s, copy, id, index) => copy.of \in Parents
      BY <1>1, <3>1 DEF CopyGood, Items, Parents
    <3> QED  BY <1>3, <3>2 DEF CreateChild, AddChild, Accepts
  <2>3. /\ PlaceChanges(copy, index, "create", id) \in Seq(Statements)
        /\ PlaceChanges(copy, index, "put", id) \in Seq(Statements)
    BY <1>1, <2>1, <2>2, ChangesTyped
  <2>4. /\ Modifiable
        /\ \/ Save(s, copy, copy.type, PlaceChanges(copy, index, "create", id))
           \/ Save(s, copy, copy.type, PlaceChanges(copy, index, "put", id))
    BY <1>3 DEF CreateChild, AddChild, MoveChild
  <2> QED  BY <1>1, <1>2, <2>3, <2>4, SaveGood
<1>4. ASSUME NEW id \in Items, RemoveChild(s, copy, id)  PROVE Inv'
  <2>1. <<Deleting(id)>> \in Seq(Statements)
    BY DEF Statements
  <2>2. Modifiable /\ Save(s, copy, copy.type, <<Deleting(id)>>)
    BY <1>4 DEF RemoveChild
  <2> QED  BY <1>1, <1>2, <2>1, <2>2, SaveGood
<1>5. ASSUME NEW type \in SectionType, UpdateSection(s, copy, type)  PROVE Inv'
  BY <1>1, <1>2, <1>5, SaveGood DEF UpdateSection
<1>6. CASE UpdateQuestion(s, copy)
  BY <1>1, <1>2, <1>6, SaveGood DEF UpdateQuestion
<1>7. ASSUME NEW status \in ExamStatus, UpdateExam(s, copy, status)  PROVE Inv'
  BY <1>1, <1>2, <1>7, SendGood DEF UpdateExam
<1>8. CASE DeleteExam(s, copy)
  <2>1. <<Dropping>> \in Seq(Statements) /\ Deleted \in ExamStatus \cup {Deleted}
    BY DEF Statements
  <2> QED  BY <1>1, <1>8, <2>1, SendGood DEF DeleteExam
<1> QED  BY <1>3, <1>4, <1>5, <1>6, <1>7, <1>8 DEF Edit

(***************************************************************************)
(* The invariant holds.                                                    *)
(***************************************************************************)
LEMMA InitGood == Init => Inv
<1> SUFFICES ASSUME Init  PROVE Inv
  OBVIOUS
<1>1. Kept(db)
  <2>1. db = [EmptyOutline EXCEPT !.status = "PENDING"]
    BY DEF Init, EmptyOutline
  <2> QED  BY <2>1, EmptyKept DEF ExamStatus
<1> QED  BY <1>1 DEF Init, Inv, SessionGood, Idle

\* The rows a section or a question is loaded with are those of the committed tables.
LEMMA ReadGood ==
    ASSUME Inv, NEW s \in Sessions, NEW x \in Items, ReadRows(s, x)
    PROVE  Inv'
<1>1. PICK copy \in Copies(db, x) :
         session' = [session EXCEPT ![s] = [at |-> "reading", copy |-> copy]]
  BY DEF ReadRows
<1>2. CopyGood(copy)
  BY CopiesGood DEF ReadRows, Inv
<1>3. SessionGood([at |-> "reading", copy |-> copy])
  BY <1>2 DEF SessionGood
<1> QED  BY <1>1, <1>3, OthersGood DEF ReadRows

LEMMA ExecuteGood ==
    ASSUME Inv, NEW s \in Sessions, Execute(s)
    PROVE  Inv'
<1> DEFINE y  == session[s]
           st == Head(y.todo)
           e  == Effect(y.work, st)
           x  == Saving(y.copy, y.version, e, Tail(y.todo))
<1>1. y.at = "saving" /\ y.todo # <<>> /\ Allowed(s, st)
  BY DEF Execute
<1>2. CopyGood(y.copy) /\ SavingGood(y)
  BY <1>1 DEF Inv, SessionGood
<1>3. st \in Statements /\ Tail(y.todo) \in Seq(Statements)
  BY <1>1, <1>2 DEF SavingGood
<1>4. Kept(e) /\ e.status \in {y.work.status, Deleted}
  BY <1>1, <1>2, <1>3, EffectKept DEF SavingGood
<1>5. session' = [session EXCEPT ![s] = x]
  BY DEF Execute, Inv
<1>6. /\ x.at = "saving" /\ x.copy = y.copy /\ x.version = y.version /\ x.work = e
      /\ x.todo = Tail(y.todo)
  BY DEF Saving
<1> HIDE DEF x, e, y
<1>7. SessionGood(x)
  BY <1>2, <1>3, <1>4, <1>6 DEF SessionGood, SavingGood
<1>8. UNCHANGED <<db, version>>
  BY DEF Execute
<1> QED  BY <1>5, <1>7, <1>8, OthersGood

\* No other session has the new version, so none of them can commit any more.
LEMMA CommitGood ==
    ASSUME Inv, NEW s \in Sessions, Commit(s)
    PROVE  Inv'
<1>1. /\ db' = session[s].work /\ version' = version + 1 /\ session' = [session EXCEPT ![s] = Idle]
      /\ session[s].at = "saving"
  BY DEF Commit
<1>2. Kept(session[s].work)
  BY <1>1 DEF Inv, SessionGood, SavingGood
<1>3. Kept(db)'
  BY <1>1, <1>2 DEF Kept, WellKept
<1>4. version' \in Nat \ {0} /\ version \in Nat
  BY <1>1 DEF Inv
<1>5. ASSUME NEW t \in Sessions  PROVE SessionGood(session[t])'
  <2>1. CASE t = s
    BY <1>1, <2>1 DEF Inv, SessionGood, Idle
  <2>2. CASE t # s
    <3>1. session'[t] = session[t]
      BY <1>1, <2>2 DEF Inv
    <3>2. SessionGood(session[t])
      BY DEF Inv
    <3>3. CASE session[t].at = "saving" /\ CopyGood(session[t].copy) /\ SavingGood(session[t])
      <4>1. session[t].version \in 1..version' /\ session[t].version # version'
        BY <1>1, <1>4, <3>3 DEF SavingGood
      <4> QED  BY <3>1, <3>3, <4>1 DEF SessionGood, SavingGood, CopyGood, Kept, WellKept
    <3>4. CASE session[t].at # "saving"
      BY <3>1, <3>2, <3>4 DEF SessionGood, CopyGood
    <3> QED  BY <3>2, <3>3, <3>4 DEF SessionGood
  <2> QED  BY <2>1, <2>2
<1>6. DOMAIN session' = Sessions
  BY <1>1 DEF Inv
<1> QED  BY <1>3, <1>4, <1>5, <1>6 DEF Inv

LEMMA NextGood == Inv /\ [Next]_vars => Inv'
<1> SUFFICES ASSUME Inv, [Next]_vars  PROVE Inv'
  OBVIOUS
<1>1. ASSUME NEW s \in Sessions, NEW x \in Items, ReadRows(s, x)  PROVE Inv'
  BY <1>1, ReadGood
<1>2. ASSUME NEW s \in Sessions, NEW copy \in Held(s), Edit(s, copy)  PROVE Inv'
  BY <1>2, EditGood
<1>3. ASSUME NEW s \in Sessions, Execute(s)  PROVE Inv'
  BY <1>3, ExecuteGood
<1>4. ASSUME NEW s \in Sessions, Commit(s)  PROVE Inv'
  BY <1>4, CommitGood
<1>5. ASSUME NEW s \in Sessions, Abandon(s)  PROVE Inv'
  <2>1. SessionGood(Idle)
    BY DEF SessionGood, Idle
  <2> QED  BY <1>5, <2>1, OthersGood DEF Abandon
<1>6. CASE UNCHANGED vars
  BY <1>6 DEF vars, Inv, SessionGood, SavingGood, CopyGood, Kept, WellKept
<1> QED  BY <1>1, <1>2, <1>3, <1>4, <1>5, <1>6 DEF Next

\* The tables are well kept, and no open save could commit over an approval.
THEOREM ExamInvariant == Spec => []Inv
  BY InitGood, NextGood, PTL DEF Spec

(***************************************************************************)
(* What the invariant gives.                                               *)
(***************************************************************************)
\* Rows name parents that exist and closure rows name sections that exist, in the
\* committed tables and in what every open transaction sees, whatever the cascade
\* took (the foreign keys, the triggers).
THEOREM TablesTyped == Spec => []TypeOK
<1>1. Inv => TypeOK
  <2> SUFFICES ASSUME Inv  PROVE TypeOK
    OBVIOUS
  <2>1. ASSUME NEW s \in Sessions, session[s].at # "idle"
        PROVE  /\ session[s].at \in {"reading", "saving"}
               /\ IsCopy(session[s].copy)
               /\ session[s].at = "saving" =>
                     session[s].version \in 1..version /\ IsDatabase(session[s].work)
    <3>1. SessionGood(session[s])
      BY DEF Inv
    <3>2. CopyGood(session[s].copy)
      BY <2>1, <3>1 DEF SessionGood
    <3>3. IsCopy(session[s].copy)
      <4>1. \A k \in DOMAIN session[s].copy.list : session[s].copy.list[k] \in Child
        BY <3>2, ChildrenAre DEF CopyGood
      <4> QED  BY <3>2, <4>1 DEF CopyGood, IsCopy, Child
    <3> QED  BY <2>1, <3>1, <3>3 DEF SessionGood, SavingGood, Kept, WellKept
  <2> QED  BY <2>1 DEF TypeOK, Inv, Kept, WellKept
<1> QED  BY <1>1, ExamInvariant, PTL

\* The triggers keep exactly the ancestors that the parents give (create-section,
\* move-section, delete-section, in any interleaving).
THEOREM ClosureCorrect == Spec => []ClosureFollowsParents
<1>1. Inv => ClosureFollowsParents
  <2> SUFFICES ASSUME Inv  PROVE ClosureFollowsParents
    OBVIOUS
  <2>1. IsDatabase(db) /\ \A i \in Stored(db) \cap Sections : Follows(db.rows, db.closure, i)
    BY DEF Inv, Kept, WellKept
  <2>2. \A i \in Stored(db) \cap Sections : PathsTo(db.closure, i) = AncestorPaths(db, i)
    BY <2>1, FollowsIsClosureFollows
  <2> QED  BY <2>2 DEF ClosureFollowsParents, ClosureFollows
<1> QED  BY <1>1, ExamInvariant, PTL

\* The sections form a forest below the exam: of two sections above a third, one is
\* above the other, and two sections are never above each other (the trigger's check).
THEOREM SectionsNest ==
    Spec => [](/\ Linear(db.closure)
               /\ \A a, i \in Sections :
                     Above(db.closure, a, i) /\ Above(db.closure, i, a) => a = i)
<1>1. Inv => /\ Linear(db.closure)
             /\ \A a, i \in Sections :
                   Above(db.closure, a, i) /\ Above(db.closure, i, a) => a = i
  BY AboveIsOrder DEF Inv, Kept, WellKept
<1> QED  BY <1>1, ExamInvariant, PTL

\* After the approval no save loaded before it commits: the exam stays as it was
\* approved until it is deleted (assertModifiable, exam.version).
THEOREM ApprovedStaysFrozen == Spec => ApprovedFrozen
<1>1. Inv /\ [Next]_vars => [db.status = "APPROVED" => db' = db \/ db'.status = Deleted]_vars
  <2> SUFFICES ASSUME Inv, Next, db.status = "APPROVED", db' # db
               PROVE  db'.status = Deleted
    BY DEF vars
  <2>1. ASSUME NEW s \in Sessions, NEW copy, Edit(s, copy)  PROVE db' = db
    <3>1. \A c, status, todo : Send(s, c, status, todo) => db' = db
      BY DEF Send
    <3>2. \A c, type, changes : Save(s, c, type, changes) => db' = db
      BY <3>1 DEF Save
    <3> QED
      BY <2>1, <3>1, <3>2 DEF Edit, CreateChild, AddChild, MoveChild, RemoveChild,
         UpdateSection, UpdateQuestion, UpdateExam, DeleteExam
  <2>2. PICK s \in Sessions : Commit(s)
    BY <2>1 DEF Next, ReadRows, Execute, Abandon
  <2>3. session[s].at = "saving" /\ session[s].version = version /\ db' = session[s].work
    BY <2>2 DEF Commit
  <2> QED  BY <2>3 DEF Inv, SessionGood, SavingGood
<1> QED  BY <1>1, ExamInvariant, PTL DEF Spec, ApprovedFrozen
(***************************************************************************)
(* What a save comes to.  The row of an item, and the type of a section,   *)
(* are in the end those of the last statement left that writes them, or    *)
(* what the transaction sees when there is none (k is 0).                  *)
(***************************************************************************)
Places(st, i) == st.do \in {"create", "put"} /\ st.id = i

Settles(work, todo, i, k) ==
    /\ IF k = 0 THEN i \in Stored(work) ELSE Places(todo[k], i)
    /\ \A j \in DOMAIN todo : j > k => ~Places(todo[j], i)

SettledRow(work, todo, i, k) ==
    IF k = 0 THEN work.rows[i] ELSE [parent |-> todo[k].parent, order |-> todo[k].order]

Types(st, p) == st.do \in {"create", "own"} /\ st.id = p

SettlesType(work, todo, p, k) ==
    /\ IF k = 0 THEN p \in DOMAIN work.type ELSE Types(todo[k], p)
    /\ \A j \in DOMAIN todo : j > k => ~Types(todo[j], p)

SettledType(work, todo, p, k) ==
    IF k = 0 THEN work.type[p] ELSE IF todo[k].do = "own" THEN todo[k].type ELSE "SECTION"

\* The row that the save wrote as it was loaded does not change its parent.
OwnerStays(work, todo) ==
    \A k \in DOMAIN todo : \A m \in 0..Len(todo) :
        todo[k].do = "own" /\ Settles(work, todo, todo[k].id, m)
            => SettledRow(work, todo, todo[k].id, m).parent = todo[k].parent

\* OrdersDistinct and KindsAgree of what the tables will be.
EndsDistinct(work, todo) ==
    \A i, j \in Items : \A k, l \in 0..Len(todo) :
        /\ Settles(work, todo, i, k) /\ Settles(work, todo, j, l)
        /\ i # j /\ (i \in Sections <=> j \in Sections)
        /\ SettledRow(work, todo, i, k).parent = SettledRow(work, todo, j, l).parent
        => SettledRow(work, todo, i, k).order # SettledRow(work, todo, j, l).order

EndsInKind(work, todo) ==
    \A i \in Items, p \in Sections : \A k, l \in 0..Len(todo) :
        /\ Settles(work, todo, i, k) /\ SettledRow(work, todo, i, k).parent = p
        /\ SettlesType(work, todo, p, l)
        => (SettledType(work, todo, p, l) = "QUESTION" <=> i \in Questions)

\* The trigger will refuse the save: it puts the section it has loaded below itself.
BelowItself(of, todo) == \E k \in DOMAIN todo : Places(todo[k], of) /\ todo[k].parent = of

EndsWell(x) ==
    \/ BelowItself(x.copy.of, x.todo)
    \/ /\ OwnerStays(x.work, x.todo)
       /\ OrdersDistinct(db) => EndsDistinct(x.work, x.todo)
       /\ KindsAgree(db) => EndsInKind(x.work, x.todo)

\* A save that could still commit, made from what the tables hold, ends well.
OutcomeInv ==
    \A s \in Sessions :
        session[s].at = "saving" /\ session[s].version = version /\ Current(s)
            => EndsWell(session[s])

\* The row that a statement writes is there.
Finds(d, st) == st.do \in {"put", "own"} => st.id \in Stored(d)

\* The rows and types after a create, a put and a delete.
LEMMA CreateRows ==
    ASSUME NEW d, IsDatabase(d), NEW id, NEW p, NEW order
    PROVE  LET e == Create(d, id, p, order)
           IN  /\ Stored(e) = Stored(d) \cup {id}
               /\ e.rows[id] = [parent |-> p, order |-> order]
               /\ \A j \in Stored(d) : j # id => e.rows[j] = d.rows[j]
               /\ id \in Questions => e.type = d.type
               /\ id \notin Questions =>
                    /\ DOMAIN e.type = DOMAIN d.type \cup {id} /\ e.type[id] = "SECTION"
                    /\ \A j \in DOMAIN d.type : j # id => e.type[j] = d.type[j]
<1> DEFINE e  == Create(d, id, p, order)
           r  == [j \in Stored(d) \cup {id} |->
                    IF j = id THEN [parent |-> p, order |-> order] ELSE d.rows[j]]
           ty == [j \in DOMAIN d.type \cup {id} |-> IF j = id THEN "SECTION" ELSE d.type[j]]
           c2 == InsertTrigger(d.closure, id, p)
<1>1. e = IF id \in Questions THEN [d EXCEPT !.rows = r]
          ELSE [d EXCEPT !.rows = r, !.type = ty, !.closure = c2]
  BY DEF Create
<1>2. d = [status |-> d.status, rows |-> d.rows, type |-> d.type, closure |-> d.closure]
  BY DEF IsDatabase
<1>3. /\ DOMAIN r = Stored(d) \cup {id} /\ r[id] = [parent |-> p, order |-> order]
      /\ \A j \in Stored(d) : j # id => r[j] = d.rows[j]
  OBVIOUS
<1>4. /\ DOMAIN ty = DOMAIN d.type \cup {id} /\ ty[id] = "SECTION"
      /\ \A j \in DOMAIN d.type : j # id => ty[j] = d.type[j]
  OBVIOUS
<1> HIDE DEF e, r, ty, c2
<1>5. e.rows = r /\ e.type = IF id \in Questions THEN d.type ELSE ty
  BY <1>1, <1>2
<1>6. Stored(e) = DOMAIN r
  BY <1>5 DEF Stored
<1> QED  BY <1>3, <1>4, <1>5, <1>6 DEF e

LEMMA PutRows ==
    ASSUME NEW d, IsDatabase(d), NEW id \in Stored(d), NEW p, NEW order
    PROVE  LET e == Put(d, id, p, order)
           IN  /\ e.rows[id] = [parent |-> p, order |-> order]
               /\ \A j \in Stored(d) : j # id => e.rows[j] = d.rows[j]
               /\ Stored(e) = Stored(d) /\ e.type = d.type
<1> DEFINE e  == Put(d, id, p, order)
           r  == [d.rows EXCEPT ![id] = [parent |-> p, order |-> order]]
           c2 == IF id \in Questions \/ d.rows[id].parent = p THEN d.closure
                 ELSE UpdateTrigger(d.closure, id, p)
<1>1. e = [d EXCEPT !.rows = r, !.closure = c2]
  BY DEF Put
<1>2. d = [status |-> d.status, rows |-> d.rows, type |-> d.type, closure |-> d.closure]
  BY DEF IsDatabase
<1>3. /\ DOMAIN r = Stored(d) /\ r[id] = [parent |-> p, order |-> order]
      /\ \A j \in Stored(d) : j # id => r[j] = d.rows[j]
  BY DEF Stored
<1> HIDE DEF e, r, c2
<1>4. e.rows = r /\ e.type = d.type
  BY <1>1, <1>2
<1>5. Stored(e) = DOMAIN r
  BY <1>4 DEF Stored
<1> QED  BY <1>3, <1>4, <1>5 DEF e

LEMMA DeleteRows ==
    ASSUME NEW d, IsDatabase(d), NEW id
    PROVE  LET e == Delete(d, id)
           IN  /\ Stored(e) \subseteq Stored(d) /\ \A j \in Stored(e) : e.rows[j] = d.rows[j]
               /\ DOMAIN e.type \subseteq DOMAIN d.type
               /\ \A j \in DOMAIN e.type : e.type[j] = d.type[j]
<1> DEFINE gone == Subtree(d, id)
           e  == Delete(d, id)
           r  == [j \in Stored(d) \ gone |-> d.rows[j]]
           ty == [j \in DOMAIN d.type \ gone |-> d.type[j]]
           c2 == {c \in d.closure : c.ancestor \notin gone /\ c.descendant \notin gone}
<1>1. e = [d EXCEPT !.rows = r, !.type = ty, !.closure = c2]
  BY DEF Delete
<1>2. d = [status |-> d.status, rows |-> d.rows, type |-> d.type, closure |-> d.closure]
  BY DEF IsDatabase
<1> HIDE DEF gone
<1>3. DOMAIN r \subseteq Stored(d) /\ \A j \in DOMAIN r : r[j] = d.rows[j]
  OBVIOUS
<1>4. DOMAIN ty \subseteq DOMAIN d.type /\ \A j \in DOMAIN ty : ty[j] = d.type[j]
  OBVIOUS
<1> HIDE DEF e, r, ty, c2
<1>5. e.rows = r /\ e.type = ty
  BY <1>1, <1>2
<1>6. Stored(e) = DOMAIN r
  BY <1>5 DEF Stored
<1> QED  BY <1>3, <1>4, <1>5, <1>6 DEF e

\* The statements left, counted from the next one.
LEMMA TailCounts ==
    ASSUME NEW todo \in Seq(Statements), todo # <<>>
    PROVE  /\ Len(todo) \in Nat /\ Len(todo) > 0 /\ DOMAIN todo = 1..Len(todo)
           /\ Len(Tail(todo)) = Len(todo) - 1 /\ DOMAIN Tail(todo) = 1..(Len(todo) - 1)
           /\ Head(todo) = todo[1]
           /\ \A k \in 1..(Len(todo) - 1) : Tail(todo)[k] = todo[k + 1]
  OBVIOUS

\* What the statements are made of.
LEMMA StatementFields ==
    ASSUME NEW st \in Statements
    PROVE  /\ st.do \in {"create", "put", "own", "delete", "drop"}
           /\ st.do \in {"create", "put"} =>
                /\ st.id \in Items /\ st.parent \in Parents /\ st.order \in Int
                /\ st = [do |-> st.do, id |-> st.id, parent |-> st.parent, order |-> st.order]
           /\ st.do = "own" =>
                /\ st.id \in Items /\ st.parent \in Parents /\ st.type \in SectionType
           /\ st.do = "delete" => st.id \in Items
  BY DEF Statements, Dropping, Deleting

\* The rows after a statement: the one it places is as it says, the one it owns has the
\* parent it says, and no other changes, but rows may be gone.
LEMMA RowsAfter ==
    ASSUME NEW d, IsDatabase(d), NEW st \in Statements, Finds(d, st),
           NEW i \in Stored(Effect(d, st))
    PROVE  /\ Effect(d, st).rows[i] =
                IF Places(st, i) THEN [parent |-> st.parent, order |-> st.order]
                ELSE IF st.do = "own" /\ st.id = i THEN [parent |-> st.parent, order |-> d.rows[i].order]
                ELSE d.rows[i]
           /\ ~Places(st, i) => i \in Stored(d)
<1> DEFINE e == Effect(d, st)
<1>1. CASE st.do = "create"
  <2>1. e = Create(d, st.id, st.parent, st.order)
    BY <1>1 DEF Effect
  <2>2. /\ Stored(e) = Stored(d) \cup {st.id}
        /\ e.rows[st.id] = [parent |-> st.parent, order |-> st.order]
        /\ \A j \in Stored(d) : j # st.id => e.rows[j] = d.rows[j]
    <3> HIDE DEF e
    <3> QED  BY <2>1, CreateRows
  <2> QED  BY <1>1, <2>2 DEF Places
<1>2. CASE st.do = "put"
  <2>1. e = Put(d, st.id, st.parent, st.order) /\ st.id \in Stored(d)
    BY <1>2 DEF Effect, Finds
  <2>2. /\ Stored(e) = Stored(d)
        /\ e.rows[st.id] = [parent |-> st.parent, order |-> st.order]
        /\ \A j \in Stored(d) : j # st.id => e.rows[j] = d.rows[j]
    <3> HIDE DEF e
    <3> QED  BY <2>1, PutRows
  <2> QED  BY <1>2, <2>2 DEF Places
<1>3. CASE st.do = "own"
  <2> DEFINE order == d.rows[st.id].order
             put   == Put(d, st.id, st.parent, order)
  <2>1. st.id \in Stored(d)
    BY <1>3 DEF Finds
  <2>2. put = [status |-> d.status, rows |-> put.rows, type |-> d.type, closure |-> put.closure]
    BY <2>1, PutShape
  <2>3. e = IF st.id \in Questions THEN put ELSE [put EXCEPT !.type[st.id] = st.type]
    BY <1>3 DEF Effect
  <2>4. /\ put.rows[st.id] = [parent |-> st.parent, order |-> order]
        /\ \A j \in Stored(d) : j # st.id => put.rows[j] = d.rows[j]
        /\ Stored(put) = Stored(d)
    <3> HIDE DEF order
    <3> QED  BY <2>1, PutRows
  <2> HIDE DEF put, e
  <2>5. e.rows = put.rows
    BY <2>2, <2>3
  <2>6. i \in Stored(d)
    BY <2>4, <2>5 DEF Stored, e
  <2> QED  BY <1>3, <2>4, <2>5, <2>6 DEF Places, e
<1>4. CASE st.do = "delete"
  <2>1. e = Delete(d, st.id)
    BY <1>4 DEF Effect
  <2> QED  BY <1>4, <2>1, DeleteRows DEF Places
<1>5. CASE st.do = "drop"
  <2>1. e = [EmptyOutline EXCEPT !.status = Deleted]
    BY <1>5 DEF Effect
  <2>2. e.rows = <<>>
    BY <2>1 DEF EmptyOutline
  <2> HIDE DEF e
  <2>3. Stored(e) = {}
    BY <2>2 DEF Stored
  <2> QED  BY <2>3 DEF e
<1> QED  BY <1>1, <1>2, <1>3, <1>4, <1>5, StatementFields

\* The types after a statement: a section it creates or owns has the type it says.
LEMMA TypesAfter ==
    ASSUME NEW d, IsDatabase(d), NEW st \in Statements, Finds(d, st),
           NEW p \in Sections, p \in DOMAIN Effect(d, st).type
    PROVE  /\ Effect(d, st).type[p] =
                IF Types(st, p) THEN IF st.do = "own" THEN st.type ELSE "SECTION"
                ELSE d.type[p]
           /\ ~Types(st, p) => p \in DOMAIN d.type
<1> DEFINE e == Effect(d, st)
<1>1. CASE st.do = "create"
  <2>1. e = Create(d, st.id, st.parent, st.order)
    BY <1>1 DEF Effect
  <2>2. /\ Stored(e) = Stored(d) \cup {st.id}
        /\ e.rows[st.id] = [parent |-> st.parent, order |-> st.order]
        /\ st.id \in Questions => e.type = d.type
        /\ st.id \notin Questions =>
             /\ DOMAIN e.type = DOMAIN d.type \cup {st.id} /\ e.type[st.id] = "SECTION"
             /\ \A j \in DOMAIN d.type : j # st.id => e.type[j] = d.type[j]
    <3> HIDE DEF e
    <3> QED  BY <2>1, CreateRows
  <2>3. CASE st.id \in Questions
    BY <1>1, <2>2, <2>3 DEF Types
  <2>4. CASE st.id \notin Questions
    BY <1>1, <2>2, <2>4 DEF Types
  <2> QED  BY <2>3, <2>4
<1>2. CASE st.do = "put"
  <2>1. e = Put(d, st.id, st.parent, st.order) /\ st.id \in Stored(d)
    BY <1>2 DEF Effect, Finds
  <2>2. e.type = d.type /\ e.rows[st.id] = [parent |-> st.parent, order |-> st.order]
    <3> HIDE DEF e
    <3> QED  BY <2>1, PutRows
  <2> QED  BY <1>2, <2>2 DEF Types
<1>3. CASE st.do = "own"
  <2> DEFINE put == Put(d, st.id, st.parent, d.rows[st.id].order)
  <2>1. st.id \in Stored(d)
    BY <1>3 DEF Finds
  <2>2. put = [status |-> d.status, rows |-> put.rows, type |-> d.type, closure |-> put.closure]
    BY <2>1, PutShape
  <2>3. e = IF st.id \in Questions THEN put ELSE [put EXCEPT !.type[st.id] = st.type]
    BY <1>3 DEF Effect
  <2> HIDE DEF put, e
  <2>4. e.type = IF st.id \in Questions THEN d.type ELSE [d.type EXCEPT ![st.id] = st.type]
    BY <2>2, <2>3
  <2>5. CASE st.id \in Questions
    BY <1>3, <2>4, <2>5 DEF Types, e
  <2>6. CASE st.id \notin Questions
    BY <1>3, <2>4, <2>6 DEF Types, e
  <2> QED  BY <2>5, <2>6
<1>4. CASE st.do = "delete"
  <2>1. e = Delete(d, st.id)
    BY <1>4 DEF Effect
  <2> QED  BY <1>4, <2>1, DeleteRows DEF Types
<1>5. CASE st.do = "drop"
  <2>1. e = [EmptyOutline EXCEPT !.status = Deleted]
    BY <1>5 DEF Effect
  <2>2. e.type = <<>>
    BY <2>1 DEF EmptyOutline
  <2> HIDE DEF e
  <2>3. DOMAIN e.type = {}
    BY <2>2
  <2> QED  BY <2>3 DEF e
<1> QED  BY <1>1, <1>2, <1>3, <1>4, <1>5, StatementFields

\* What settles a row after a statement settled it before, and as the same row.
LEMMA RowsCarry ==
    ASSUME NEW d, IsDatabase(d), NEW todo \in Seq(Statements), todo # <<>>, Finds(d, Head(todo)),
           OwnerStays(d, todo),
           NEW i \in Items, NEW k \in 0..(Len(todo) - 1),
           Settles(Effect(d, Head(todo)), Tail(todo), i, k)
    PROVE  \E m \in 0..Len(todo) :
              /\ Settles(d, todo, i, m)
              /\ SettledRow(d, todo, i, m) = SettledRow(Effect(d, Head(todo)), Tail(todo), i, k)
<1> DEFINE st == Head(todo)
           e  == Effect(d, st)
           rest == Tail(todo)
<1>1. /\ Len(todo) \in Nat /\ Len(todo) > 0 /\ DOMAIN todo = 1..Len(todo)
      /\ DOMAIN rest = 1..(Len(todo) - 1) /\ st = todo[1]
      /\ \A j \in 1..(Len(todo) - 1) : rest[j] = todo[j + 1]
  BY TailCounts
<1>2. st \in Statements
  OBVIOUS
<1> HIDE DEF st, rest
<1>3. ASSUME NEW j \in DOMAIN todo, j > k + 1  PROVE ~Places(todo[j], i)
  <2>1. j - 1 \in DOMAIN rest /\ j - 1 > k /\ rest[j - 1] = todo[j]
    BY <1>1, <1>3
  <2> QED  BY <2>1 DEF Settles, rest
<1>4. CASE k # 0
  <2>1. k \in 1..(Len(todo) - 1) /\ k + 1 \in 0..Len(todo) /\ k + 1 # 0 /\ rest[k] = todo[k + 1]
    BY <1>1, <1>4
  <2>2. Places(todo[k + 1], i)
    BY <1>4, <2>1 DEF Settles, rest
  <2>3. Settles(d, todo, i, k + 1)
    BY <1>3, <2>1, <2>2 DEF Settles
  <2>4. SettledRow(d, todo, i, k + 1) = SettledRow(e, rest, i, k)
    BY <1>4, <2>1 DEF SettledRow
  <2> QED  BY <2>1, <2>3, <2>4 DEF rest, st
<1>5. CASE k = 0 /\ Places(st, i)
  <2>1. 1 \in 0..Len(todo) /\ i \in Stored(e)
    BY <1>1, <1>5 DEF Settles, st
  <2>2. Settles(d, todo, i, 1)
    BY <1>1, <1>3, <1>5 DEF Settles
  <2>3. e.rows[i] = [parent |-> st.parent, order |-> st.order]
    BY <1>2, <1>5, <2>1, RowsAfter DEF st
  <2>4. SettledRow(d, todo, i, 1) = SettledRow(e, rest, i, 0)
    BY <1>1, <2>3 DEF SettledRow
  <2> QED  BY <1>5, <2>1, <2>2, <2>4 DEF rest, st
<1>6. CASE k = 0 /\ ~Places(st, i)
  <2>1. i \in Stored(e)
    BY <1>6 DEF Settles, st
  <2>2. i \in Stored(d)
    BY <1>2, <1>6, <2>1, RowsAfter DEF st
  <2>3. Settles(d, todo, i, 0) /\ 0 \in 0..Len(todo)
    <3>1. ASSUME NEW j \in DOMAIN todo  PROVE ~Places(todo[j], i)
      BY <1>1, <1>3, <1>6, <3>1
    <3> QED  BY <1>1, <2>2, <3>1 DEF Settles
  <2>4. e.rows[i] = d.rows[i]
    <3>1. CASE st.do = "own" /\ st.id = i
      <4>1. e.rows[i] = [parent |-> st.parent, order |-> d.rows[i].order]
        BY <1>2, <1>6, <2>1, <3>1, RowsAfter DEF st
      <4>2. d.rows[i] \in [parent : Parents, order : Int]
        BY <2>2 DEF IsDatabase
      <4>3. 1 \in DOMAIN todo
        BY <1>1
      <4>4. SettledRow(d, todo, i, 0).parent = st.parent
        BY <1>1, <2>3, <3>1, <4>3 DEF OwnerStays
      <4> QED  BY <4>1, <4>2, <4>4 DEF SettledRow
    <3>2. CASE ~(st.do = "own" /\ st.id = i)
      BY <1>2, <1>6, <2>1, <3>2, RowsAfter DEF st
    <3> QED  BY <3>1, <3>2
  <2>5. SettledRow(d, todo, i, 0) = SettledRow(e, rest, i, 0)
    BY <2>4 DEF SettledRow
  <2> QED  BY <1>6, <2>3, <2>5 DEF rest, st
<1> QED  BY <1>4, <1>5, <1>6

\* The same for types.
LEMMA TypesCarry ==
    ASSUME NEW d, IsDatabase(d), NEW todo \in Seq(Statements), todo # <<>>, Finds(d, Head(todo)),
          
           NEW p \in Sections, NEW k \in 0..(Len(todo) - 1),
           SettlesType(Effect(d, Head(todo)), Tail(todo), p, k)
    PROVE  \E m \in 0..Len(todo) :
              /\ SettlesType(d, todo, p, m)
              /\ SettledType(d, todo, p, m) = SettledType(Effect(d, Head(todo)), Tail(todo), p, k)
<1> DEFINE st == Head(todo)
           e  == Effect(d, st)
           rest == Tail(todo)
<1>1. /\ Len(todo) \in Nat /\ Len(todo) > 0 /\ DOMAIN todo = 1..Len(todo)
      /\ DOMAIN rest = 1..(Len(todo) - 1) /\ st = todo[1]
      /\ \A j \in 1..(Len(todo) - 1) : rest[j] = todo[j + 1]
  BY TailCounts
<1>2. st \in Statements
  OBVIOUS
<1> HIDE DEF st, rest
<1>3. ASSUME NEW j \in DOMAIN todo, j > k + 1  PROVE ~Types(todo[j], p)
  <2>1. j - 1 \in DOMAIN rest /\ j - 1 > k /\ rest[j - 1] = todo[j]
    BY <1>1, <1>3
  <2> QED  BY <2>1 DEF SettlesType, rest
<1>4. CASE k # 0
  <2>1. k \in 1..(Len(todo) - 1) /\ k + 1 \in 0..Len(todo) /\ k + 1 # 0 /\ rest[k] = todo[k + 1]
    BY <1>1, <1>4
  <2>2. Types(todo[k + 1], p)
    BY <1>4, <2>1 DEF SettlesType, rest
  <2>3. SettlesType(d, todo, p, k + 1)
    BY <1>3, <2>1, <2>2 DEF SettlesType
  <2>4. SettledType(d, todo, p, k + 1) = SettledType(e, rest, p, k)
    BY <1>4, <2>1 DEF SettledType
  <2> QED  BY <2>1, <2>3, <2>4 DEF rest, st
<1>5. CASE k = 0 /\ Types(st, p)
  <2>1. 1 \in 0..Len(todo) /\ p \in DOMAIN e.type
    BY <1>1, <1>5 DEF SettlesType, st
  <2>2. SettlesType(d, todo, p, 1)
    BY <1>1, <1>3, <1>5 DEF SettlesType
  <2>3. e.type[p] = IF st.do = "own" THEN st.type ELSE "SECTION"
    BY <1>2, <1>5, <2>1, TypesAfter DEF st
  <2>4. SettledType(d, todo, p, 1) = SettledType(e, rest, p, 0)
    BY <1>1, <2>3 DEF SettledType
  <2> QED  BY <1>5, <2>1, <2>2, <2>4 DEF rest, st
<1>6. CASE k = 0 /\ ~Types(st, p)
  <2>1. p \in DOMAIN e.type
    BY <1>6 DEF SettlesType, st
  <2>2. p \in DOMAIN d.type /\ e.type[p] = d.type[p]
    BY <1>2, <1>6, <2>1, TypesAfter DEF st
  <2>3. SettlesType(d, todo, p, 0) /\ 0 \in 0..Len(todo)
    <3>1. ASSUME NEW j \in DOMAIN todo  PROVE ~Types(todo[j], p)
      BY <1>1, <1>3, <1>6, <3>1
    <3> QED  BY <1>1, <2>2, <3>1 DEF SettlesType
  <2>4. SettledType(d, todo, p, 0) = SettledType(e, rest, p, 0)
    BY <2>2 DEF SettledType
  <2> QED  BY <1>6, <2>3, <2>4 DEF rest, st
<1> QED  BY <1>4, <1>5, <1>6

\* A statement that is done leaves the end of the save as it was.
LEMMA EndsCarry ==
    ASSUME NEW d, IsDatabase(d), NEW todo \in Seq(Statements), todo # <<>>, Finds(d, Head(todo)),
           OwnerStays(d, todo)
    PROVE  /\ OwnerStays(Effect(d, Head(todo)), Tail(todo))
           /\ EndsDistinct(d, todo) => EndsDistinct(Effect(d, Head(todo)), Tail(todo))
           /\ EndsInKind(d, todo) => EndsInKind(Effect(d, Head(todo)), Tail(todo))
<1> DEFINE e == Effect(d, Head(todo))
           rest == Tail(todo)
<1>1. /\ Len(todo) \in Nat /\ Len(todo) > 0 /\ DOMAIN todo = 1..Len(todo)
      /\ DOMAIN rest = 1..(Len(todo) - 1) /\ Len(rest) = Len(todo) - 1
      /\ \A j \in 1..(Len(todo) - 1) : rest[j] = todo[j + 1]
  BY TailCounts
<1>2. ASSUME NEW i \in Items, NEW k \in 0..Len(rest), Settles(e, rest, i, k)
      PROVE  \E m \in 0..Len(todo) : /\ Settles(d, todo, i, m)
                                     /\ SettledRow(d, todo, i, m) = SettledRow(e, rest, i, k)
  <2>1. k \in 0..(Len(todo) - 1)
    BY <1>1
  <2> QED  BY <1>2, <2>1, RowsCarry
<1>3. ASSUME NEW p \in Sections, NEW k \in 0..Len(rest), SettlesType(e, rest, p, k)
      PROVE  \E m \in 0..Len(todo) : /\ SettlesType(d, todo, p, m)
                                     /\ SettledType(d, todo, p, m) = SettledType(e, rest, p, k)
  <2>1. k \in 0..(Len(todo) - 1)
    BY <1>1
  <2> QED  BY <1>3, <2>1, TypesCarry
<1> HIDE DEF e, rest
<1>4. OwnerStays(e, rest)
  <2> SUFFICES ASSUME NEW k \in DOMAIN rest, NEW m \in 0..Len(rest), rest[k].do = "own",
                      Settles(e, rest, rest[k].id, m)
               PROVE  SettledRow(e, rest, rest[k].id, m).parent = rest[k].parent
    BY DEF OwnerStays
  <2>1. k + 1 \in DOMAIN todo /\ rest[k] = todo[k + 1]
    BY <1>1
  <2>2. rest[k].id \in Items
    <3>1. todo[k + 1] \in Statements
      BY <2>1
    <3> QED  BY <2>1, <3>1, StatementFields
  <2>3. PICK n \in 0..Len(todo) :
           /\ Settles(d, todo, rest[k].id, n)
           /\ SettledRow(d, todo, rest[k].id, n) = SettledRow(e, rest, rest[k].id, m)
    BY <1>2, <2>2
  <2>4. SettledRow(d, todo, rest[k].id, n).parent = rest[k].parent
    BY <2>1, <2>3 DEF OwnerStays
  <2> QED  BY <2>3, <2>4
<1>5. ASSUME EndsDistinct(d, todo)  PROVE EndsDistinct(e, rest)
  <2> SUFFICES ASSUME NEW i \in Items, NEW j \in Items, NEW k \in 0..Len(rest), NEW l \in 0..Len(rest),
                      Settles(e, rest, i, k), Settles(e, rest, j, l),
                      i # j, i \in Sections <=> j \in Sections,
                      SettledRow(e, rest, i, k).parent = SettledRow(e, rest, j, l).parent
               PROVE  SettledRow(e, rest, i, k).order # SettledRow(e, rest, j, l).order
    BY DEF EndsDistinct
  <2>1. PICK m \in 0..Len(todo) : /\ Settles(d, todo, i, m)
                                  /\ SettledRow(d, todo, i, m) = SettledRow(e, rest, i, k)
    BY <1>2
  <2>2. PICK n \in 0..Len(todo) : /\ Settles(d, todo, j, n)
                                  /\ SettledRow(d, todo, j, n) = SettledRow(e, rest, j, l)
    BY <1>2
  <2>3. SettledRow(d, todo, i, m).order # SettledRow(d, todo, j, n).order
    BY <1>5, <2>1, <2>2 DEF EndsDistinct
  <2> QED  BY <2>1, <2>2, <2>3
<1>6. ASSUME EndsInKind(d, todo)  PROVE EndsInKind(e, rest)
  <2> SUFFICES ASSUME NEW i \in Items, NEW p \in Sections, NEW k \in 0..Len(rest), NEW l \in 0..Len(rest),
                      Settles(e, rest, i, k), SettledRow(e, rest, i, k).parent = p,
                      SettlesType(e, rest, p, l)
               PROVE  SettledType(e, rest, p, l) = "QUESTION" <=> i \in Questions
    BY DEF EndsInKind
  <2>1. PICK m \in 0..Len(todo) : /\ Settles(d, todo, i, m)
                                  /\ SettledRow(d, todo, i, m) = SettledRow(e, rest, i, k)
    BY <1>2
  <2>2. PICK n \in 0..Len(todo) : /\ SettlesType(d, todo, p, n)
                                  /\ SettledType(d, todo, p, n) = SettledType(e, rest, p, l)
    BY <1>3
  <2>3. SettledType(d, todo, p, n) = "QUESTION" <=> i \in Questions
    BY <1>6, <2>1, <2>2 DEF EndsInKind
  <2> QED  BY <2>2, <2>3
<1> QED  BY <1>4, <1>5, <1>6 DEF e, rest

\* No row is below itself, and the trigger refuses to put one there.
LEMMA NotBelowItself ==
    ASSUME NEW d, WellKept(d), NEW id \in Sections
    PROVE  ~MayPut(d, id, id) /\ ~MayCreate(d, id, id)
<1>1. id # Exam
  OBVIOUS
<1>2. ~MayCreate(d, id, id)
  BY <1>1 DEF MayCreate
<1>3. SUFFICES ASSUME MayPut(d, id, id)  PROVE FALSE
  BY <1>2
<1>4. id \in Stored(d)
  BY <1>3 DEF MayPut
<1>5. Path(id, id, 0) \in d.closure
  BY <1>4, AboveIsOrder
<1>6. d.rows[id].parent # id
  <2> SUFFICES ASSUME d.rows[id].parent = id  PROVE FALSE
    OBVIOUS
  <2>1. Follows(d.rows, d.closure, id)
    BY <1>4 DEF WellKept
  <2>2. Path(id, id, 1) \in d.closure
    <3>1. 1 \in Nat /\ 1 > 0 /\ 1 - 1 = 0
      OBVIOUS
    <3> QED  BY <1>5, <2>1, <3>1 DEF Follows
  <2>3. 0 = 1
    BY <1>5, <2>2 DEF WellKept, Keyed
  <2> QED  BY <2>3
<1>7. Raises(d.closure, id, id)
  BY <1>1, <1>5 DEF Raises, PathsFrom, Path
<1> QED  BY <1>3, <1>6, <1>7 DEF MayPut

\* When nothing is committed and one handler goes on, only its save is looked at.
LEMMA OneEnds ==
    ASSUME Inv, OutcomeInv, db' = db, version' = version, NEW s \in Sessions, NEW x,
           session' = [session EXCEPT ![s] = x],
           x.at = "saving" /\ x.version = version /\ x.copy \in Copies(db, x.copy.of) => EndsWell(x)
    PROVE  OutcomeInv'
<1> SUFFICES ASSUME NEW t \in Sessions, session'[t].at = "saving", session'[t].version = version,
                    session'[t].copy \in Copies(db, session'[t].copy.of)
             PROVE  EndsWell(session[t])'
  BY DEF OutcomeInv, Current
<1>1. EndsWell(session'[t])
  <2>1. CASE t = s
    BY <2>1 DEF Inv
  <2>2. CASE t # s
    <3>1. session'[t] = session[t]
      BY <2>2 DEF Inv
    <3> QED  BY <3>1 DEF OutcomeInv, Current
  <2> QED  BY <2>1, <2>2
<1> QED  BY <1>1 DEF EndsWell, OrdersDistinct, KindsAgree

\* A handler that runs a statement leaves every save as well as it was.
LEMMA ExecuteEnds ==
    ASSUME Inv, OutcomeInv, NEW s \in Sessions, Execute(s)
    PROVE  OutcomeInv'
<1> DEFINE y == session[s]
           st == Head(y.todo)
           x  == Saving(y.copy, y.version, Effect(y.work, st), Tail(y.todo))
<1>1. /\ y.at = "saving" /\ y.todo # <<>> /\ Allowed(s, st)
      /\ session' = [session EXCEPT ![s] = x] /\ db' = db /\ version' = version
  BY DEF Execute, Inv
<1>2. CopyGood(y.copy) /\ Kept(y.work) /\ y.todo \in Seq(Statements)
  BY <1>1 DEF Inv, SessionGood, SavingGood
<1>3. /\ x.at = "saving" /\ x.copy = y.copy /\ x.version = y.version
      /\ x.work = Effect(y.work, st) /\ x.todo = Tail(y.todo)
  BY DEF Saving
<1>4. st \in Statements /\ IsDatabase(y.work) /\ WellKept(y.work)
  BY <1>1, <1>2 DEF Kept, WellKept
<1>5. Finds(y.work, st)
  BY <1>1 DEF Allowed, MayPut, Finds
<1>6. EndsWell(y) => EndsWell(x)
  <2>1. CASE BelowItself(y.copy.of, y.todo)
    <3>1. PICK k \in DOMAIN y.todo : Places(y.todo[k], y.copy.of) /\ y.todo[k].parent = y.copy.of
      BY <2>1 DEF BelowItself
    <3>2. /\ Len(y.todo) \in Nat /\ DOMAIN y.todo = 1..Len(y.todo) /\ st = y.todo[1]
          /\ DOMAIN Tail(y.todo) = 1..(Len(y.todo) - 1)
          /\ \A j \in 1..(Len(y.todo) - 1) : Tail(y.todo)[j] = y.todo[j + 1]
      BY <1>1, <1>2, TailCounts
    <3>3. CASE k = 1
      <4>1. Places(st, y.copy.of) /\ st.parent = y.copy.of
        BY <3>1, <3>2, <3>3
      <4>2. y.copy.of \in Sections /\ st.id = y.copy.of
        BY <1>4, <4>1, StatementFields DEF Places, Items, Parents
      <4>3. MayPut(y.work, st.id, st.parent) \/ MayCreate(y.work, st.id, st.parent)
        BY <1>1, <4>1 DEF Allowed, Places
      <4> QED  BY <1>4, <4>1, <4>2, <4>3, NotBelowItself
    <3>4. CASE k # 1
      <4>1. k - 1 \in DOMAIN Tail(y.todo) /\ Tail(y.todo)[k - 1] = y.todo[k]
        BY <3>2, <3>4
      <4>2. BelowItself(y.copy.of, Tail(y.todo))
        BY <3>1, <4>1 DEF BelowItself
      <4> QED  BY <1>3, <4>2 DEF EndsWell
    <3> QED  BY <3>3, <3>4
  <2>2. CASE /\ OwnerStays(y.work, y.todo)
             /\ OrdersDistinct(db) => EndsDistinct(y.work, y.todo)
             /\ KindsAgree(db) => EndsInKind(y.work, y.todo)
    <3> HIDE DEF y, x
    <3>1. /\ OwnerStays(x.work, x.todo)
          /\ EndsDistinct(y.work, y.todo) => EndsDistinct(x.work, x.todo)
          /\ EndsInKind(y.work, y.todo) => EndsInKind(x.work, x.todo)
      BY <1>1, <1>2, <1>3, <1>4, <1>5, <2>2, EndsCarry
    <3> QED  BY <2>2, <3>1 DEF EndsWell
  <2> QED  BY <2>1, <2>2 DEF EndsWell
<1>7. x.version = version /\ x.copy \in Copies(db, x.copy.of) => EndsWell(x)
  <2> HIDE DEF x
  <2>1. y.version = version /\ y.copy \in Copies(db, y.copy.of) => EndsWell(y)
    BY <1>1 DEF OutcomeInv, Current
  <2> QED  BY <1>3, <1>6, <2>1
<1> HIDE DEF x
<1> QED  BY <1>1, <1>7, OneEnds

(***************************************************************************)
(* Placing a child among distinct orders.                                  *)
(***************************************************************************)
Ascending(list) == \A m, n \in DOMAIN list : m < n => list[m].order < list[n].order

\* What a copy that is current says of the tables: its list has every child of the
\* section's kind, once, in order.
LEMMA CopyIsCurrent ==
    ASSUME NEW d, Kept(d), NEW copy, CopyGood(copy), copy \in Copies(d, copy.of)
    PROVE  /\ copy.parent = ParentIn(d, copy.of) /\ copy.type = TypeIn(d, copy.of)
           /\ \A n \in DOMAIN copy.list : /\ copy.list[n].id \in Listed(d, copy.of)
                                          /\ copy.list[n].order = d.rows[copy.list[n].id].order
           /\ \A i \in Listed(d, copy.of) : \E n \in DOMAIN copy.list : copy.list[n].id = i
           /\ \A m, n \in DOMAIN copy.list :
                 m < n => copy.list[m].id # copy.list[n].id /\ copy.list[m].order <= copy.list[n].order
<1> DEFINE x == copy.of
           kids == Listed(d, x)
           vals == {[id |-> i, order |-> d.rows[i].order] : i \in kids}
<1>1. PICK list \in IF x \in Questions THEN {<<>>} ELSE Listings(d, x) :
         copy = [of |-> x, list |-> list, parent |-> ParentIn(d, x), type |-> TypeIn(d, x)]
  BY DEF Copies
<1>2. copy.list = list /\ copy.parent = ParentIn(d, x) /\ copy.type = TypeIn(d, x)
  BY <1>1
<1>3. kids \subseteq Stored(d) /\ IsDatabase(d) /\ IsFiniteSet(Stored(d))
  BY DEF Listed, ChildrenOf, Kept, WellKept
<1>4. CASE x \in Questions
  <2>1. list = <<>> /\ DOMAIN list = {}
    BY <1>1, <1>4
  <2>2. kids = {}
    <3>1. \A i \in Stored(d) : d.rows[i].parent \in Parents
      BY <1>3 DEF IsDatabase
    <3>2. x \notin Parents
      BY <1>4 DEF Parents
    <3> QED  BY <3>1, <3>2 DEF Listed, ChildrenOf
  <2> QED  BY <1>2, <2>1, <2>2
<1>5. CASE x \notin Questions
  <2> DEFINE n == Cardinality(kids)
             ids == [k \in 1..n |-> list[k].id]
  <2>1. /\ list \in [1..n -> vals]
        /\ \A j, k \in DOMAIN list : j < k => list[j].id # list[k].id /\ list[j].order <= list[k].order
    BY <1>1, <1>5 DEF Listings
  <2>2. IsFiniteSet(kids) /\ n \in Nat
    BY <1>3, FS_Subset, FS_CardinalityType
  <2>3. \A v \in vals : v.id \in kids /\ v.order = d.rows[v.id].order
    OBVIOUS
  <2> HIDE DEF kids, vals, n
  <2>4. DOMAIN list = 1..n /\ \A k \in 1..n : list[k].id \in kids /\ list[k].order = d.rows[list[k].id].order
    BY <2>1, <2>3
  <2>5. ids \in Injection(1..n, kids)
    <3>1. \A j, k \in 1..n : ids[j] = ids[k] => j = k
      BY <2>1, <2>2, <2>4
    <3>2. ids \in [1..n -> kids]
      BY <2>4
    <3> QED  BY <3>1, <3>2 DEF Injection, IsInjective
  <2>6. ids \in Surjection(1..n, kids)
    <3>1. Cardinality(1..n) = n
      BY <2>2, FS_Interval
    <3>2. Cardinality(1..n) = Cardinality(kids)
      BY <3>1 DEF n
    <3> HIDE DEF ids
    <3> QED  BY <2>2, <2>5, <3>2, FS_Injection
  <2>7. \A i \in kids : \E k \in 1..n : list[k].id = i
    BY <2>6 DEF Surjection
  <2> QED  BY <1>2, <2>1, <2>4, <2>7 DEF kids
<1> QED  BY <1>4, <1>5

\* Of the multiples of a range, a later one is at least a range further on.
LEMMA MultiplesApart ==
    ASSUME NEW a \in Int, NEW b \in Int, a < b, NEW r \in Nat
    PROVE  a * r + r <= b * r
<1> DEFINE n == b - a - 1
<1>1. n \in Nat /\ b = a + 1 + n
  OBVIOUS
<1> HIDE DEF n
<1>2. n * r \in Nat
  BY <1>1
<1>3. b * r = a * r + r + n * r
  BY <1>1
<1> QED  BY <1>2, <1>3

\* Rebalancing gives ascending orders with room between any two.
LEMMA SpreadAscends ==
    ASSUME NEW list \in Children
    PROVE  /\ DOMAIN Spread(list) = 1..Len(list)
           /\ \A n \in 1..Len(list) : /\ Spread(list)[n].id = list[n].id
                                      /\ Spread(list)[n].order = (n - 1) * OrderRange
           /\ \A m, n \in 1..Len(list) :
                 m < n => Spread(list)[m].order + OrderRange <= Spread(list)[n].order
<1>1. DOMAIN list = 1..Len(list) /\ Len(list) \in Nat
  BY ChildrenAre
<1>2. DOMAIN Spread(list) = 1..Len(list)
  BY <1>1 DEF Spread
<1>3. \A n \in 1..Len(list) : /\ Spread(list)[n].id = list[n].id
                              /\ Spread(list)[n].order = (n - 1) * OrderRange
  BY <1>1 DEF Spread
<1>4. ASSUME NEW m \in 1..Len(list), NEW n \in 1..Len(list), m < n
      PROVE  Spread(list)[m].order + OrderRange <= Spread(list)[n].order
  <2>1. m - 1 \in Int /\ n - 1 \in Int /\ m - 1 < n - 1
    BY <1>4
  <2>2. (m - 1) * OrderRange + OrderRange <= (n - 1) * OrderRange
    BY <2>1, MultiplesApart
  <2> QED  BY <1>3, <2>2
<1> QED  BY <1>2, <1>3, <1>4

\* A number strictly between two neighbours is no order of an ascending list.
LEMMA BetweenIsFree ==
    ASSUME NEW list \in Children, Ascending(list), NEW p \in 1..Len(list), p + 1 \in 1..Len(list),
           NEW o \in Int, list[p].order < o, o < list[p + 1].order, NEW n \in 1..Len(list)
    PROVE  list[n].order # o
<1>1. /\ DOMAIN list = 1..Len(list)
      /\ list[n].order \in Int /\ list[p].order \in Int /\ list[p + 1].order \in Int
  BY ChildrenAre
<1>2. CASE n <= p
  <2>1. n = p \/ n < p
    BY <1>2
  <2>2. n = p \/ list[n].order < list[p].order
    BY <1>1, <2>1 DEF Ascending
  <2> QED  BY <1>1, <2>2
<1>3. CASE n > p
  <2>1. n = p + 1 \/ p + 1 < n
    BY <1>3
  <2>2. n = p + 1 \/ list[p + 1].order < list[n].order
    BY <1>1, <2>1 DEF Ascending
  <2> QED  BY <1>1, <2>2
<1> QED  BY <1>2, <1>3

\* Half way between two numbers with room between them.
LEMMA MiddleIsBetween ==
    ASSUME NEW a \in Int, NEW b \in Int, b - a > 1
    PROVE  a < (a + b) \div 2 /\ (a + b) \div 2 < b
  OBVIOUS

\* The placed child has an order that no child of the list has afterwards, whatever index
\* was asked for (insertSection, moveSection, insertChild, moveChild).
LEMMA PlacementApart ==
    ASSUME NEW list \in Children, Ascending(list), NEW asked \in Int
    PROVE  LET place == Placement(list, asked)
           IN  /\ DOMAIN place.list = 1..Len(list)
               /\ \A n \in 1..Len(list) : /\ place.list[n].id = list[n].id
                                          /\ place.list[n].order # place.order
               /\ Ascending(place.list)
<1> DEFINE index == TargetIndex(list, asked)
           inner == index # Len(list) - 1 /\ index # 0
           kids  == IF inner /\ Crowded(list, index) THEN Spread(list) ELSE list
           order == IF list = <<>> THEN 0
                    ELSE IF inner THEN (kids[index + 1].order + kids[index + 2].order) \div 2
                    ELSE IF index = Len(list) - 1 THEN list[index + 1].order + OrderRange
                    ELSE list[1].order - OrderRange
<1>1. Placement(list, asked) = [list |-> kids, order |-> order]
  BY DEF Placement
<1>2. /\ Len(list) \in Nat /\ DOMAIN list = 1..Len(list)
      /\ index \in Int /\ (list # <<>> => Len(list) > 0 /\ index \in 0..(Len(list) - 1))
  BY ChildrenAre DEF TargetIndex
<1>3. \A n \in 1..Len(list) : list[n].order \in Int
  BY ChildrenAre
<1> HIDE DEF index
<1>4. kids \in Children /\ order \in Int
  <2>1. kids = Placement(list, asked).list /\ order = Placement(list, asked).order
    <3> HIDE DEF kids, order
    <3> QED  BY <1>1
  <2> QED  BY <2>1, PlacementTypes
<1>5. kids = Spread(list) \/ kids = list
  OBVIOUS
<1>6. /\ DOMAIN kids = 1..Len(list) /\ Len(kids) = Len(list)
      /\ \A n \in 1..Len(list) : kids[n].id = list[n].id
  <2> HIDE DEF kids
  <2>1. DOMAIN kids = 1..Len(list) /\ \A n \in 1..Len(list) : kids[n].id = list[n].id
    BY <1>2, <1>5, SpreadAscends
  <2>2. Len(kids) \in Nat /\ DOMAIN kids = 1..Len(kids)
    BY <1>4, ChildrenAre
  <2> QED  BY <1>2, <2>1, <2>2
<1>7. Ascending(kids)
  <2>1. CASE kids = list
    BY <2>1
  <2>2. CASE kids = Spread(list)
    <3> SUFFICES ASSUME NEW m \in 1..Len(list), NEW n \in 1..Len(list), m < n
                 PROVE  kids[m].order < kids[n].order
      BY <1>6 DEF Ascending
    <3> HIDE DEF kids
    <3>1. kids[m].order + OrderRange <= kids[n].order
      BY <2>2, SpreadAscends
    <3>2. kids[m].order \in Int /\ kids[n].order \in Int
      BY <1>4, <1>6, ChildrenAre
    <3> QED  BY <3>1, <3>2
  <2> QED  BY <1>5, <2>1, <2>2
<1>8. ASSUME NEW n \in 1..Len(list)  PROVE kids[n].order # order
  <2>1. list # <<>>
    <3>1. 1 <= Len(list)
      BY <1>2, <1>8
    <3> QED  BY <3>1
  <2> DEFINE len == Len(list)
  <2>5. /\ len \in Nat /\ n \in Int /\ 1 <= n /\ n <= len
        /\ index \in Int /\ 0 <= index /\ index <= len - 1 /\ (inner => index # len - 1)
    <3>1. len \in Nat /\ n \in 1..len
      BY <1>2, <1>8
    <3>2. index \in 0..(len - 1) /\ index \in Int
      BY <1>2, <2>1
    <3>3. inner => index # len - 1
      OBVIOUS
    <3> HIDE DEF len, inner
    <3> QED  BY <3>1, <3>2, <3>3
  <2> HIDE DEF len
  <2>2. CASE inner
    <3>1. index + 1 \in 1..Len(list) /\ index + 2 \in 1..Len(list) /\ index + 2 = (index + 1) + 1
      <4>1. index + 1 \in 1..len /\ index + 2 \in 1..len /\ index + 2 = (index + 1) + 1
        BY <2>2, <2>5
      <4> QED  BY <4>1 DEF len
    <3>2. kids[index + 1].order \in Int /\ kids[index + 2].order \in Int
      <4> HIDE DEF kids
      <4> QED  BY <1>4, <1>6, <3>1, ChildrenAre
    <3>3. kids[index + 2].order - kids[index + 1].order > 1
      <4>1. CASE Crowded(list, index)
        <5>1. kids = Spread(list)
          BY <2>2, <4>1
        <5> HIDE DEF kids
        <5>2. ASSUME NEW m \in 1..Len(list), NEW k \in 1..Len(list), m < k
              PROVE  kids[m].order + OrderRange <= kids[k].order
          BY <5>1, <5>2, SpreadAscends
        <5>3. index + 1 < index + 2
          BY <1>2
        <5>4. kids[index + 1].order + OrderRange <= kids[index + 2].order
          BY <3>1, <5>2, <5>3
        <5> QED  BY <3>2, <5>4
      <4>2. CASE ~Crowded(list, index)
        <5>1. kids = list
          BY <4>2
        <5>2. ~(list[index + 2].order - list[index + 1].order <= 1)
          BY <4>2 DEF Crowded
        <5> HIDE DEF kids
        <5> QED  BY <3>2, <5>1, <5>2
      <4> QED  BY <4>1, <4>2
    <3>4. order = (kids[index + 1].order + kids[index + 2].order) \div 2
      BY <2>1, <2>2
    <3> HIDE DEF order, kids, index
    <3>5. kids[index + 1].order < order /\ order < kids[index + 2].order
      BY <3>2, <3>3, <3>4, MiddleIsBetween
    <3> QED  BY <1>4, <1>6, <1>7, <3>1, <3>5, BetweenIsFree
  <2>3. CASE ~inner /\ index = Len(list) - 1
    <3>1. kids = list /\ order = list[Len(list)].order + OrderRange
      BY <1>2, <2>1, <2>3
    <3> HIDE DEF kids, order
    <3>2. len \in 1..len /\ (n = len \/ n < len)
      BY <2>5
    <3>3. list[len].order \in Int /\ list[n].order \in Int
      BY <1>3, <1>8, <3>2 DEF len
    <3>4. n = len \/ list[n].order < list[len].order
      <4>1. n \in DOMAIN list /\ len \in DOMAIN list
        <5>1. DOMAIN list = 1..len
          BY <1>2 DEF len
        <5>2. n \in 1..len
          BY <1>8 DEF len
        <5> QED  BY <3>2, <5>1, <5>2
      <4> QED  BY <3>2, <4>1 DEF Ascending
    <3>5. list[n].order <= list[len].order
      BY <3>3, <3>4
    <3> QED  BY <3>1, <3>3, <3>5 DEF len
  <2>4. CASE ~inner /\ index # Len(list) - 1
    <3>1. kids = list /\ order = list[1].order - OrderRange
      BY <2>1, <2>4
    <3>2. n = 1 \/ list[1].order < list[n].order
      BY <1>2, <1>8 DEF Ascending
    <3> HIDE DEF kids, order
    <3>3. 1 \in 1..Len(list)
      BY <1>2, <1>8
    <3> QED  BY <1>3, <1>8, <3>1, <3>2, <3>3
  <2> QED  BY <2>2, <2>3, <2>4
<1> HIDE DEF kids, order
<1> QED  BY <1>1, <1>6, <1>7, <1>8

(***************************************************************************)
(* What the commands plan.                                                 *)
(***************************************************************************)
\* Rows are placed below what was loaded, in its kind; it is written last, as loaded or,
\* when it has no children, with another type; created rows are new.
Plan(copy, type, todo) ==
    /\ copy.of # Exam => todo # <<>> /\ todo[Len(todo)] = Owning(copy.of, copy.parent, type)
    /\ \A k \in DOMAIN todo :
          /\ todo[k].do = "own" => todo[k].id = copy.of /\ todo[k].parent = copy.parent
          /\ todo[k].do \in {"create", "put"} =>
                /\ todo[k].parent = copy.of
                /\ todo[k].id \in Questions <=> type = "QUESTION"
          /\ todo[k].do = "create" => todo[k].id \notin Stored(db)
    /\ type = copy.type \/ copy.list = <<>>

\* A current plan leaves the parent of what it has loaded, and the kinds.
LEMMA PlanEnds ==
    ASSUME Kept(db), NEW copy, CopyGood(copy), copy \in Copies(db, copy.of),
           NEW type \in SectionType, NEW todo \in Seq(Statements), Plan(copy, type, todo)
    PROVE  /\ BelowItself(copy.of, todo) \/ OwnerStays(db, todo)
           /\ KindsAgree(db) => EndsInKind(db, todo)
<1>1. /\ copy.parent = ParentIn(db, copy.of) /\ copy.type = TypeIn(db, copy.of)
      /\ \A i \in Listed(db, copy.of) : \E n \in DOMAIN copy.list : copy.list[n].id = i
  BY CopyIsCurrent
<1>2. IsDatabase(db) /\ Len(todo) \in Nat /\ DOMAIN todo = 1..Len(todo)
  BY DEF Kept, WellKept
<1>3. ASSUME ~BelowItself(copy.of, todo)  PROVE OwnerStays(db, todo)
  <2> SUFFICES ASSUME NEW k \in DOMAIN todo, NEW m \in 0..Len(todo), todo[k].do = "own",
                      Settles(db, todo, todo[k].id, m)
               PROVE  SettledRow(db, todo, todo[k].id, m).parent = todo[k].parent
    BY DEF OwnerStays
  <2>1. todo[k].id = copy.of /\ todo[k].parent = copy.parent
    BY DEF Plan
  <2>2. CASE m = 0
    <3>1. copy.of \in Stored(db)
      BY <2>1, <2>2 DEF Settles
    <3>2. copy.of # Exam
      BY <1>2, <3>1 DEF IsDatabase, Items
    <3> QED  BY <1>1, <2>1, <2>2, <3>2 DEF SettledRow, ParentIn
  <2>3. CASE m # 0
    <3>1. m \in DOMAIN todo /\ Places(todo[m], copy.of)
      BY <1>2, <2>1, <2>3 DEF Settles
    <3>2. todo[m].parent = copy.of
      BY <3>1 DEF Plan, Places
    <3> QED  BY <1>3, <3>1, <3>2 DEF BelowItself
  <2> QED  BY <2>2, <2>3
<1>4. ASSUME KindsAgree(db)  PROVE EndsInKind(db, todo)
  <2> SUFFICES ASSUME NEW i \in Items, NEW p \in Sections, NEW k \in 0..Len(todo), NEW l \in 0..Len(todo),
                      Settles(db, todo, i, k), SettledRow(db, todo, i, k).parent = p,
                      SettlesType(db, todo, p, l)
               PROVE  SettledType(db, todo, p, l) = "QUESTION" <=> i \in Questions
    BY DEF EndsInKind
  <2>1. p # Exam
    OBVIOUS
  <2>2. ASSUME p = copy.of  PROVE SettledType(db, todo, p, l) = type
    <3>1. todo # <<>> /\ todo[Len(todo)] = Owning(copy.of, copy.parent, type)
      BY <2>1, <2>2 DEF Plan
    <3>2. Len(todo) \in DOMAIN todo
      BY <1>2, <3>1
    <3>3. todo[Len(todo)].do = "own" /\ todo[Len(todo)].id = p /\ todo[Len(todo)].type = type
      BY <2>2, <3>1 DEF Owning
    <3>4. ~(Len(todo) > l)
      BY <3>2, <3>3 DEF SettlesType, Types
    <3>5. l = Len(todo) /\ l # 0
      <4> DEFINE len == Len(todo)
      <4>1. len \in Nat /\ len \in 1..len /\ l \in 0..len /\ ~(len > l)
        BY <1>2, <3>2, <3>4
      <4> HIDE DEF len
      <4>2. l = len /\ l # 0
        BY <4>1
      <4> QED  BY <4>2 DEF len
    <3> QED  BY <3>3, <3>5 DEF SettledType
  <2>3. ASSUME p # copy.of, p \in Stored(db)  PROVE SettledType(db, todo, p, l) = db.type[p]
    <3>1. CASE l # 0
      <4>1. l \in DOMAIN todo /\ Types(todo[l], p)
        BY <1>2, <3>1 DEF SettlesType
      <4> QED  BY <2>3, <4>1 DEF Plan, Types
    <3> QED  BY <3>1 DEF SettledType
  <2>4. CASE k # 0
    <3>1. k \in DOMAIN todo /\ Places(todo[k], i) /\ todo[k].parent = p
      BY <1>2, <2>4 DEF Settles, SettledRow
    <3>2. p = copy.of /\ (i \in Questions <=> type = "QUESTION")
      BY <3>1 DEF Plan, Places
    <3> QED  BY <2>2, <3>2
  <2>5. CASE k = 0
    <3>1. i \in Stored(db) /\ db.rows[i].parent = p
      BY <2>5 DEF Settles, SettledRow
    <3>2. db.type[p] = "QUESTION" <=> i \in Questions
      BY <1>4, <2>1, <3>1 DEF KindsAgree
    <3>3. CASE p = copy.of /\ type = copy.type
      BY <1>1, <2>2, <3>2, <3>3 DEF TypeIn
    <3>4. CASE p = copy.of /\ copy.list = <<>>
      <4>1. i \in Listed(db, copy.of)
        BY <2>1, <3>1, <3>2, <3>4 DEF Listed, ChildrenOf, Items
      <4>2. DOMAIN copy.list = {}
        BY <3>4
      <4> QED  BY <1>1, <4>1, <4>2
    <3>5. CASE p # copy.of
      <4>1. p \in Stored(db)
        BY <1>2, <2>1, <3>1 DEF IsDatabase
      <4> QED  BY <2>3, <3>2, <3>5, <4>1
    <3> QED  BY <3>3, <3>4, <3>5 DEF Plan
  <2> QED  BY <2>4, <2>5
<1> QED  BY <1>3, <1>4

\* A plan that places nothing leaves the orders.
LEMMA NothingPlaced ==
    ASSUME NEW todo \in Seq(Statements),
           \A k \in DOMAIN todo : todo[k].do \notin {"create", "put"}, OrdersDistinct(db)
    PROVE  EndsDistinct(db, todo)
<1> SUFFICES ASSUME NEW i \in Items, NEW j \in Items, NEW k \in 0..Len(todo), NEW l \in 0..Len(todo),
                    Settles(db, todo, i, k), Settles(db, todo, j, l),
                    i # j, i \in Sections <=> j \in Sections,
                    SettledRow(db, todo, i, k).parent = SettledRow(db, todo, j, l).parent
             PROVE  SettledRow(db, todo, i, k).order # SettledRow(db, todo, j, l).order
  BY DEF EndsDistinct
<1>1. Len(todo) \in Nat /\ DOMAIN todo = 1..Len(todo)
  OBVIOUS
<1>2. k = 0 /\ l = 0
  BY <1>1 DEF Settles, Places
<1>3. /\ i \in Stored(db) /\ SettledRow(db, todo, i, k) = db.rows[i]
      /\ j \in Stored(db) /\ SettledRow(db, todo, j, l) = db.rows[j]
  BY <1>2 DEF Settles, SettledRow
<1> QED  BY <1>3 DEF OrdersDistinct

\* A sequence with one more element.
LEMMA OneMore ==
    ASSUME NEW S, NEW f \in Seq(S), NEW a \in S
    PROVE  /\ f \o <<a>> \in Seq(S) /\ Len(f \o <<a>>) = Len(f) + 1
           /\ DOMAIN (f \o <<a>>) = 1..(Len(f) + 1)
           /\ \A k \in 1..Len(f) : (f \o <<a>>)[k] = f[k]
           /\ (f \o <<a>>)[Len(f) + 1] = a
  OBVIOUS

\* The statements that place a child: those of a rebalancing, the child's own, and the
\* one that writes what was loaded.
PlacesChild(todo, n, copy, place, do, id, type) ==
    /\ DOMAIN todo = 1..Len(todo) /\ Len(todo) \in Nat /\ n + 1 \in DOMAIN todo
    /\ place.list = copy.list => n = 0
    /\ place.list # copy.list =>
         /\ n = Len(place.list)
         /\ \A k \in 1..n :
               todo[k] = Placing("put", place.list[k].id, copy.of, place.list[k].order)
    /\ todo[n + 1] = Placing(do, id, copy.of, place.order)
    /\ \A k \in DOMAIN todo : k > n + 1 => todo[k] = Owning(copy.of, copy.parent, type)

\* A save that places a child: what was loaded is the exam, or is written too.
SavesPlaced(todo, copy, asked, do, id, type) ==
    \/ todo = PlaceChanges(copy, asked, do, id)
    \/ todo = PlaceChanges(copy, asked, do, id) \o <<Owning(copy.of, copy.parent, type)>>

\* The changes of a placed child are such statements.
LEMMA PlacingShape ==
    ASSUME NEW copy, CopyGood(copy), copy.of \in Parents, NEW id \in Items, NEW asked \in Int,
           NEW do \in {"create", "put"}, NEW type, NEW todo, SavesPlaced(todo, copy, asked, do, id, type)
    PROVE  \E n \in Nat : PlacesChild(todo, n, copy, Placement(copy.list, asked), do, id, type)
<1> DEFINE place == Placement(copy.list, asked)
           moved == [k \in DOMAIN place.list |->
                       Placing("put", place.list[k].id, copy.of, place.list[k].order)]
           first == IF place.list = copy.list THEN <<>> ELSE moved
           last  == Placing(do, id, copy.of, place.order)
           own   == Owning(copy.of, copy.parent, type)
           n     == IF place.list = copy.list THEN 0 ELSE Len(place.list)
<1>1. place.list \in Children
  BY PlacementTypes DEF CopyGood
<1> HIDE DEF place
<1>2. PlaceChanges(copy, asked, do, id) = first \o <<last>>
  BY DEF PlaceChanges, place
<1> HIDE DEF last, own
<1>3. DOMAIN place.list = 1..Len(place.list) /\ Len(place.list) \in Nat
  BY <1>1, ChildrenAre
<1>4. moved \in Seq({moved[k] : k \in 1..Len(place.list)}) /\ Len(moved) = Len(place.list)
  BY <1>3
<1>5. \E S : first \in Seq(S) /\ Len(first) = n
  <2>1. CASE place.list = copy.list
    <3>1. first = <<>> /\ n = 0
      BY <2>1
    <3>2. <<>> \in Seq({}) /\ Len(<<>>) = 0
      OBVIOUS
    <3> HIDE DEF first, n
    <3> QED  BY <3>1, <3>2
  <2>2. CASE place.list # copy.list
    <3>1. first = moved /\ n = Len(place.list)
      BY <2>2
    <3> HIDE DEF first, n, moved
    <3> QED  BY <1>4, <3>1
  <2> QED  BY <2>1, <2>2
<1>6. n \in Nat
  BY <1>3
<1>7. place.list # copy.list =>
        /\ n = Len(place.list)
        /\ \A k \in 1..n : first[k] = Placing("put", place.list[k].id, copy.of, place.list[k].order)
  BY <1>3
<1>8. place.list = copy.list => n = 0
  OBVIOUS
<1> HIDE DEF first, n, moved
<1>9. PICK S : first \in Seq(S) /\ Len(first) = n
  BY <1>5
<1>10. todo = first \o <<last>> \/ todo = (first \o <<last>>) \o <<own>>
  BY <1>2 DEF own, SavesPlaced
<1>11. /\ DOMAIN todo = 1..Len(todo) /\ Len(todo) \in Nat /\ n + 1 \in DOMAIN todo
       /\ \A k \in 1..n : todo[k] = first[k]
       /\ todo[n + 1] = last
       /\ \A k \in DOMAIN todo : k > n + 1 => todo[k] = own
  <2> DEFINE T == S \cup {last, own}
             f == first \o <<last>>
  <2>1. first \in Seq(T) /\ last \in T /\ own \in T
    BY <1>9
  <2> HIDE DEF T
  <2>2. /\ f \in Seq(T) /\ Len(f) = n + 1 /\ DOMAIN f = 1..(n + 1)
        /\ \A k \in 1..n : f[k] = first[k]
        /\ f[n + 1] = last
    BY <1>9, <2>1, OneMore
  <2>3. CASE todo = f
    <3> HIDE DEF f
    <3> QED  BY <1>6, <2>2, <2>3
  <2>4. CASE todo = f \o <<own>>
    <3> HIDE DEF f
    <3>1. /\ Len(todo) = n + 2 /\ DOMAIN todo = 1..(n + 2)
          /\ \A k \in 1..(n + 1) : todo[k] = f[k]
          /\ todo[n + 2] = own
      <4>1. (n + 1) + 1 = n + 2
        BY <1>6
      <4>2. /\ Len(f \o <<own>>) = Len(f) + 1 /\ DOMAIN (f \o <<own>>) = 1..(Len(f) + 1)
            /\ \A k \in 1..Len(f) : (f \o <<own>>)[k] = f[k]
            /\ (f \o <<own>>)[Len(f) + 1] = own
        BY <2>1, <2>2, OneMore
      <4> QED  BY <2>2, <2>4, <4>1, <4>2
    <3> QED  BY <1>6, <2>2, <3>1
  <2> QED  BY <1>10, <2>3, <2>4
<1>12. \A k \in 1..n : place.list # copy.list => todo[k] = first[k]
  BY <1>11
<1>13. place.list # copy.list =>
         /\ n = Len(place.list)
         /\ \A k \in 1..n : todo[k] = Placing("put", place.list[k].id, copy.of, place.list[k].order)
  <2> SUFFICES ASSUME place.list # copy.list
               PROVE  /\ n = Len(place.list)
                      /\ \A k \in 1..n :
                            todo[k] = Placing("put", place.list[k].id, copy.of, place.list[k].order)
    OBVIOUS
  <2>1. n = Len(place.list)
    BY <1>7
  <2>2. ASSUME NEW k \in 1..n
        PROVE  todo[k] = Placing("put", place.list[k].id, copy.of, place.list[k].order)
    <3>1. first[k] = Placing("put", place.list[k].id, copy.of, place.list[k].order)
      BY <1>7
    <3> QED  BY <1>12, <3>1
  <2> QED  BY <2>1, <2>2
<1>14. todo[n + 1] = Placing(do, id, copy.of, place.order)
  BY <1>11 DEF last
<1>15. \A k \in DOMAIN todo : k > n + 1 => todo[k] = Owning(copy.of, copy.parent, type)
  BY <1>11 DEF own
<1>16. DOMAIN todo = 1..Len(todo) /\ Len(todo) \in Nat /\ n + 1 \in DOMAIN todo
  BY <1>11
<1>17. PlacesChild(todo, n, copy, place, do, id, type)
  BY <1>8, <1>13, <1>14, <1>15, <1>16 DEF PlacesChild
<1> QED  BY <1>6, <1>17 DEF place

\* Where a row stands when a child has been placed: the child itself, a child of the list
\* with the order it has afterwards, or a row that was not touched.
StandsPlaced(copy, place, id, i, row) ==
    \/ i = id /\ row.parent = copy.of /\ row.order = place.order
    \/ /\ i # id /\ row.parent = copy.of
       /\ \E m \in DOMAIN copy.list : copy.list[m].id = i /\ row.order = place.list[m].order
    \/ /\ i # id /\ i \in Stored(db) /\ row = db.rows[i]
       /\ \A m \in DOMAIN copy.list : copy.list[m].id # i

\* Every row stands so in the end.
LEMMA PlacedEnds ==
    ASSUME Kept(db), NEW copy, CopyGood(copy), copy \in Copies(db, copy.of),
           NEW id, NEW do \in {"create", "put"}, NEW type, NEW todo, NEW place, NEW n \in Nat,
           PlacesChild(todo, n, copy, place, do, id, type),
           DOMAIN place.list = DOMAIN copy.list, Len(place.list) = Len(copy.list),
           \A m \in DOMAIN copy.list : place.list[m].id = copy.list[m].id,
           NEW i \in Items, NEW k \in 0..Len(todo), Settles(db, todo, i, k)
    PROVE  StandsPlaced(copy, place, id, i, SettledRow(db, todo, i, k))
<1> DEFINE list == copy.list
           row  == SettledRow(db, todo, i, k)
           len  == Len(todo)
           own  == Owning(copy.of, copy.parent, type)
<1>1. /\ \A m \in DOMAIN list : list[m].id \in Listed(db, copy.of) /\ list[m].order = db.rows[list[m].id].order
      /\ DOMAIN list = 1..Len(list) /\ Len(list) \in Nat
  BY CopyIsCurrent, ChildrenAre DEF CopyGood
<1>2. DOMAIN todo = 1..len /\ len \in Nat /\ n + 1 \in 1..len
  BY DEF PlacesChild
<1>3. todo[n + 1] = Placing(do, id, copy.of, place.order)
  BY DEF PlacesChild
<1>4. \A j \in 1..len : j > n + 1 => todo[j] = own
  BY <1>2 DEF PlacesChild
<1>5. /\ place.list = list => n = 0
      /\ place.list # list => n = Len(list)
      /\ \A j \in 1..n : place.list # list /\ j \in DOMAIN list
                        /\ todo[j] = Placing("put", list[j].id, copy.of, place.list[j].order)
  BY <1>1 DEF PlacesChild
<1>6. \A j \in 1..len : ~(j > k /\ Places(todo[j], i))
  BY <1>2 DEF Settles
<1>7. k # 0 => k \in 1..len /\ Places(todo[k], i)
  BY <1>2 DEF Settles
<1>8. k \in 0..len
  OBVIOUS
<1>9. own.do = "own"
  BY DEF Owning
<1> HIDE DEF len, own
<1>10. k # 0 => ~(k > n + 1)
  <2> SUFFICES ASSUME k # 0, k > n + 1  PROVE FALSE
    OBVIOUS
  <2>1. todo[k] = own
    BY <1>4, <1>7
  <2> QED  BY <1>7, <1>9, <2>1 DEF Places
<1>11. CASE i = id
  <2>1. Places(todo[n + 1], i)
    BY <1>3, <1>11 DEF Places, Placing
  <2>2. ~(n + 1 > k)
    BY <1>2, <1>6, <2>1
  <2>3. k = n + 1
    BY <1>8, <1>2, <1>10, <2>2
  <2>4. k # 0
    BY <2>3
  <2>5. row = [parent |-> copy.of, order |-> place.order]
    BY <1>3, <2>3, <2>4 DEF SettledRow, Placing
  <2> QED  BY <1>11, <2>5 DEF StandsPlaced
<1>12. CASE i # id /\ k # 0
  <2>1. k # n + 1
    BY <1>3, <1>7, <1>12 DEF Placing, Places
  <2>2. k \in 1..n
    BY <1>2, <1>8, <1>10, <1>12, <2>1
  <2>3. k \in DOMAIN list /\ todo[k] = Placing("put", list[k].id, copy.of, place.list[k].order)
    BY <1>5, <2>2
  <2>4. list[k].id = i
    BY <1>7, <1>12, <2>3 DEF Placing, Places
  <2>5. row = [parent |-> copy.of, order |-> place.list[k].order]
    BY <1>12, <2>3 DEF SettledRow, Placing
  <2> QED  BY <1>12, <2>3, <2>4, <2>5 DEF StandsPlaced
<1>13. CASE i # id /\ k = 0
  <2>1. i \in Stored(db) /\ row = db.rows[i]
    BY <1>13 DEF Settles, SettledRow
  <2>2. CASE \A m \in DOMAIN list : list[m].id # i
    BY <1>13, <2>1, <2>2 DEF StandsPlaced
  <2>3. ASSUME NEW m \in DOMAIN list, list[m].id = i
        PROVE  row.parent = copy.of /\ row.order = place.list[m].order
    <3>1. place.list = list
      <4> SUFFICES ASSUME place.list # list  PROVE FALSE
        OBVIOUS
      <4>1. m \in 1..n
        BY <1>1, <1>5
      <4>2. todo[m] = Placing("put", i, copy.of, place.list[m].order)
        BY <1>5, <2>3, <4>1
      <4>3. Places(todo[m], i)
        BY <4>2 DEF Placing, Places
      <4>4. m \in 1..len /\ m > k
        BY <1>2, <1>13, <4>1
      <4> QED  BY <1>6, <4>3, <4>4
    <3>2. db.rows[i].parent = copy.of /\ list[m].order = db.rows[i].order
      BY <1>1, <2>3 DEF Listed, ChildrenOf
    <3> QED  BY <2>1, <3>1, <3>2
  <2> QED  BY <1>13, <2>2, <2>3 DEF StandsPlaced
<1> QED  BY <1>11, <1>12, <1>13

\* A current plan that places a child keeps the orders of siblings apart.
LEMMA PlacedApart ==
    ASSUME Kept(db), NEW copy, CopyGood(copy), copy \in Copies(db, copy.of), copy.of \in Parents,
           NEW id \in Items, NEW asked \in Int, NEW do \in {"create", "put"}, NEW type, NEW todo,
           SavesPlaced(todo, copy, asked, do, id, type),
           id \in Questions <=> copy.type = "QUESTION", OrdersDistinct(db)
    PROVE  EndsDistinct(db, todo)
<1> DEFINE list  == copy.list
           place == Placement(list, asked)
<1>0. \A m, n \in DOMAIN copy.list :
         m < n => copy.list[m].id # copy.list[n].id /\ copy.list[m].order <= copy.list[n].order
  BY CopyIsCurrent
<1>18. /\ copy.type = TypeIn(db, copy.of)
       /\ \A m \in DOMAIN copy.list : /\ copy.list[m].id \in Listed(db, copy.of)
                                     /\ copy.list[m].order = db.rows[copy.list[m].id].order
       /\ \A i \in Listed(db, copy.of) : \E m \in DOMAIN copy.list : copy.list[m].id = i
  BY CopyIsCurrent
<1>1. /\ copy.type = TypeIn(db, copy.of)
      /\ \A m \in DOMAIN list : list[m].id \in Listed(db, copy.of) /\ list[m].order = db.rows[list[m].id].order
      /\ \A i \in Listed(db, copy.of) : \E m \in DOMAIN list : list[m].id = i
      /\ \A m, n \in DOMAIN list : m < n => list[m].id # list[n].id /\ list[m].order <= list[n].order
  BY <1>0, <1>18
<1>2. /\ list \in Children /\ Len(list) \in Nat /\ DOMAIN list = 1..Len(list)
      /\ \A m \in DOMAIN list : list[m].id \in Items /\ list[m].order \in Int
  BY ChildrenAre DEF CopyGood
<1>3. \A i \in Stored(db) : db.rows[i].parent = copy.of =>
         (i \in Listed(db, copy.of) <=> (i \in Questions <=> copy.type = "QUESTION"))
  <2>1. \A i \in Stored(db) : i \in Items
    BY DEF Kept, WellKept, IsDatabase
  <2>2. copy.of = Exam => copy.type = "SECTION"
    BY <1>1 DEF TypeIn
  <2>3. copy.of # Exam => copy.type = db.type[copy.of]
    BY <1>1 DEF TypeIn, Parents
  <2> QED  BY <2>1, <2>2, <2>3 DEF Listed, ChildrenOf, Items
<1>4. Ascending(list)
  <2> SUFFICES ASSUME NEW m \in DOMAIN list, NEW n \in DOMAIN list, m < n
               PROVE  list[m].order < list[n].order
    BY DEF Ascending
  <2>1. list[m].id # list[n].id /\ list[m].order <= list[n].order
    BY <1>1
  <2>2. /\ list[m].id \in Stored(db) /\ list[n].id \in Stored(db)
        /\ db.rows[list[m].id].parent = copy.of /\ db.rows[list[n].id].parent = copy.of
        /\ (list[m].id \in Sections <=> list[n].id \in Sections)
    BY <1>1 DEF Listed, ChildrenOf
  <2>3. list[m].order # list[n].order
    BY <1>1, <2>1, <2>2 DEF OrdersDistinct
  <2> QED  BY <1>2, <2>1, <2>3
<1>5. /\ DOMAIN place.list = DOMAIN list
      /\ \A m \in DOMAIN list : place.list[m].id = list[m].id /\ place.list[m].order # place.order
      /\ Ascending(place.list)
  BY <1>2, <1>4, PlacementApart
<1>6. \A m \in DOMAIN list : place.list[m].order \in Int
  BY <1>2, <1>5, PlacementTypes, ChildrenAre
<1>15. Len(place.list) = Len(list)
  <2>1. DOMAIN place.list = 1..Len(place.list) /\ Len(place.list) \in Nat
    BY <1>2, PlacementTypes, ChildrenAre
  <2> HIDE DEF place
  <2> QED  BY <1>2, <1>5, <2>1
<1>16. PICK n \in Nat : PlacesChild(todo, n, copy, place, do, id, type)
  BY PlacingShape
<1> HIDE DEF place
<1>17. ASSUME NEW i \in Items, NEW k \in 0..Len(todo), Settles(db, todo, i, k)
      PROVE  StandsPlaced(copy, place, id, i, SettledRow(db, todo, i, k))
  BY <1>5, <1>15, <1>16, <1>17, PlacedEnds
<1>7. ASSUME NEW i \in Items, NEW k \in 0..Len(todo), Settles(db, todo, i, k)
      PROVE  \/ i = id /\ SettledRow(db, todo, i, k).parent = copy.of
                       /\ SettledRow(db, todo, i, k).order = place.order
             \/ /\ i # id /\ SettledRow(db, todo, i, k).parent = copy.of
                /\ \E m \in DOMAIN list : list[m].id = i
                                            /\ SettledRow(db, todo, i, k).order = place.list[m].order
             \/ /\ i # id /\ i \in Stored(db) /\ SettledRow(db, todo, i, k) = db.rows[i]
                /\ \A m \in DOMAIN list : list[m].id # i
  BY <1>7, <1>17 DEF StandsPlaced
<1> SUFFICES ASSUME NEW i \in Items, NEW j \in Items, NEW k \in 0..Len(todo), NEW l \in 0..Len(todo),
                    Settles(db, todo, i, k), Settles(db, todo, j, l),
                    i # j, i \in Sections <=> j \in Sections,
                    SettledRow(db, todo, i, k).parent = SettledRow(db, todo, j, l).parent
             PROVE  SettledRow(db, todo, i, k).order # SettledRow(db, todo, j, l).order
  BY DEF EndsDistinct
<1> DEFINE Of(x) == x = id \/ \E m \in DOMAIN list : list[m].id = x
<1>8. \A x \in Items : Of(x) => (x \in Questions <=> copy.type = "QUESTION")
  BY <1>1, <1>3 DEF Listed, ChildrenOf
<1>9. i \in Questions <=> j \in Questions
  BY DEF Items
<1>10. ASSUME NEW x \in Items, NEW e \in 0..Len(todo), Settles(db, todo, x, e), ~Of(x),
              SettledRow(db, todo, x, e).parent = copy.of
       PROVE  ~(x \in Questions <=> copy.type = "QUESTION")
  <2>1. x \in Stored(db) /\ SettledRow(db, todo, x, e) = db.rows[x]
    BY <1>7, <1>10
  <2> QED  BY <1>1, <1>3, <1>10, <2>1
<1>11. CASE ~Of(i) /\ ~Of(j)
  <2>1. /\ i \in Stored(db) /\ SettledRow(db, todo, i, k) = db.rows[i]
        /\ j \in Stored(db) /\ SettledRow(db, todo, j, l) = db.rows[j]
    BY <1>7, <1>11
  <2> QED  BY <2>1 DEF OrdersDistinct
<1>12. CASE Of(i) /\ ~Of(j)
  BY <1>7, <1>8, <1>9, <1>10, <1>12
<1>13. CASE ~Of(i) /\ Of(j)
  BY <1>7, <1>8, <1>9, <1>10, <1>13
<1>14. CASE Of(i) /\ Of(j)
  <2>1. CASE i = id
    <3>1. SettledRow(db, todo, i, k).order = place.order
      BY <1>7, <2>1
    <3>2. PICK m \in DOMAIN list : list[m].id = j /\ SettledRow(db, todo, j, l).order = place.list[m].order
      BY <1>7, <1>14, <2>1
    <3> QED  BY <1>5, <3>1, <3>2
  <2>2. CASE j = id
    <3>1. SettledRow(db, todo, j, l).order = place.order
      BY <1>7, <2>2
    <3>2. PICK m \in DOMAIN list : list[m].id = i /\ SettledRow(db, todo, i, k).order = place.list[m].order
      BY <1>7, <1>14, <2>2
    <3> QED  BY <1>5, <3>1, <3>2
  <2>3. CASE i # id /\ j # id
    <3>1. PICK m \in DOMAIN list : list[m].id = i /\ SettledRow(db, todo, i, k).order = place.list[m].order
      BY <1>7, <1>14, <2>3
    <3>2. PICK q \in DOMAIN list : list[q].id = j /\ SettledRow(db, todo, j, l).order = place.list[q].order
      BY <1>7, <1>14, <2>3
    <3>3. m < q \/ q < m
      BY <1>2, <3>1, <3>2
    <3>4. place.list[m].order < place.list[q].order \/ place.list[q].order < place.list[m].order
      BY <1>5, <3>3 DEF Ascending
    <3> QED  BY <1>6, <3>1, <3>2, <3>4
  <2> QED  BY <2>1, <2>2, <2>3
<1> QED  BY <1>11, <1>12, <1>13, <1>14

\* Rebalancing keeps the children and their places in the list.
LEMMA PlacementKeeps ==
    ASSUME NEW list \in Children, NEW asked \in Int
    PROVE  /\ DOMAIN Placement(list, asked).list = DOMAIN list
           /\ Len(Placement(list, asked).list) = Len(list)
           /\ \A n \in DOMAIN list : Placement(list, asked).list[n].id = list[n].id
<1> DEFINE kids == Placement(list, asked).list
<1>1. kids = Spread(list) \/ kids = list
  BY DEF Placement
<1>2. /\ kids \in Children /\ DOMAIN kids = 1..Len(kids) /\ Len(kids) \in Nat
      /\ DOMAIN list = 1..Len(list) /\ Len(list) \in Nat
  BY PlacementTypes, ChildrenAre
<1> HIDE DEF kids
<1>3. DOMAIN kids = DOMAIN list /\ \A n \in DOMAIN list : kids[n].id = list[n].id
  <2>1. CASE kids = list
    BY <2>1
  <2>2. CASE kids = Spread(list)
    <3>1. /\ DOMAIN Spread(list) = 1..Len(list)
          /\ \A n \in 1..Len(list) : Spread(list)[n].id = list[n].id
      BY SpreadAscends
    <3>2. DOMAIN list = 1..Len(list)
      BY <1>2
    <3>3. DOMAIN kids = 1..Len(list) /\ \A n \in 1..Len(list) : kids[n].id = list[n].id
      BY <2>2, <3>1
    <3> QED  BY <3>2, <3>3
  <2> QED  BY <1>1, <2>1, <2>2
<1>4. Len(kids) = Len(list)
  <2> DEFINE a == Len(kids)
             b == Len(list)
  <2>1. a \in Nat /\ b \in Nat /\ 1..a = 1..b
    <3>1. 1..a = 1..b
      <4>1. DOMAIN kids = 1..a /\ DOMAIN list = 1..b
        BY <1>2
      <4> HIDE DEF a, b
      <4> QED  BY <1>3, <4>1
    <3>2. a \in Nat /\ b \in Nat
      BY <1>2
    <3> HIDE DEF a, b
    <3> QED  BY <3>1, <3>2
  <2> HIDE DEF a, b
  <2>2. a = b
    <3>1. a # 0 => a \in 1..a
      BY <2>1
    <3>2. b # 0 => b \in 1..b
      BY <2>1
    <3> QED  BY <2>1, <3>1, <3>2
  <2> QED  BY <2>2 DEF a, b
<1> QED  BY <1>3, <1>4 DEF kids

\* A child that is created, added or moved is placed by a plan.
LEMMA PlacingIsPlan ==
    ASSUME Kept(db), NEW copy, CopyGood(copy), copy \in Copies(db, copy.of), copy.of \in Parents,
           NEW id \in Items, NEW asked \in Int, NEW do \in {"create", "put"}, NEW todo,
           SavesPlaced(todo, copy, asked, do, id, copy.type),
           copy.of # Exam => todo # <<>> /\ todo[Len(todo)] = Owning(copy.of, copy.parent, copy.type),
           id \in Questions <=> copy.type = "QUESTION",
           do = "create" => id \notin Stored(db)
    PROVE  Plan(copy, copy.type, todo)
<1> DEFINE place == Placement(copy.list, asked)
<1>1. /\ copy.type = TypeIn(db, copy.of)
      /\ \A m \in DOMAIN copy.list : copy.list[m].id \in Listed(db, copy.of)
  BY CopyIsCurrent
<1>2. copy.list \in Children /\ DOMAIN copy.list = 1..Len(copy.list) /\ Len(copy.list) \in Nat
  BY ChildrenAre DEF CopyGood
<1>3. /\ Len(place.list) = Len(copy.list)
      /\ \A m \in DOMAIN copy.list : place.list[m].id = copy.list[m].id
  BY <1>2, PlacementKeeps
<1>4. PICK n \in Nat : PlacesChild(todo, n, copy, place, do, id, copy.type)
  BY PlacingShape
<1> HIDE DEF place
<1>5. \A m \in DOMAIN copy.list : copy.list[m].id \in Questions <=> copy.type = "QUESTION"
  <2> SUFFICES ASSUME NEW m \in DOMAIN copy.list
               PROVE  copy.list[m].id \in Questions <=> copy.type = "QUESTION"
    OBVIOUS
  <2> DEFINE i == copy.list[m].id
  <2>1. i \in Listed(db, copy.of)
    BY <1>1
  <2>2. i \in Items
    BY <1>2, ChildrenAre
  <2> HIDE DEF i
  <2>3. i \in IF copy.of # Exam /\ db.type[copy.of] = "QUESTION" THEN Questions ELSE Sections
    BY <2>1 DEF Listed
  <2>4. copy.type = IF copy.of # Exam THEN db.type[copy.of] ELSE "SECTION"
    BY <1>1 DEF TypeIn, Parents
  <2>5. i \in Questions <=> copy.type = "QUESTION"
    BY <2>3, <2>4
  <2> QED  BY <2>5 DEF i
<1>6. ASSUME NEW k \in DOMAIN todo
      PROVE  /\ todo[k].do = "own" => todo[k].id = copy.of /\ todo[k].parent = copy.parent
             /\ todo[k].do \in {"create", "put"} =>
                   /\ todo[k].parent = copy.of
                   /\ todo[k].id \in Questions <=> copy.type = "QUESTION"
             /\ todo[k].do = "create" => todo[k].id \notin Stored(db)
  <2>1. k \in Nat /\ k > 0
    BY <1>4 DEF PlacesChild
  <2>2. CASE k = n + 1
    <3>1. todo[k] = Placing(do, id, copy.of, place.order)
      BY <1>4, <2>2 DEF PlacesChild
    <3>2. todo[k].do = do /\ todo[k].id = id /\ todo[k].parent = copy.of
      BY <3>1 DEF Placing
    <3> QED  BY <3>2
  <2>3. CASE k > n + 1
    <3>1. todo[k] = Owning(copy.of, copy.parent, copy.type)
      BY <1>4, <2>3 DEF PlacesChild
    <3>2. todo[k].do = "own" /\ todo[k].id = copy.of /\ todo[k].parent = copy.parent
      BY <3>1 DEF Owning
    <3> QED  BY <3>2
  <2>4. CASE k < n + 1
    <3>1. k \in 1..n
      BY <2>1, <2>4
    <3>2. place.list # copy.list
      BY <1>4, <3>1 DEF PlacesChild
    <3>3. todo[k] = Placing("put", place.list[k].id, copy.of, place.list[k].order)
      BY <1>4, <3>1, <3>2 DEF PlacesChild
    <3>4. n = Len(place.list)
      BY <1>4, <3>2 DEF PlacesChild
    <3>5. k \in DOMAIN copy.list
      BY <1>2, <1>3, <3>1, <3>4
    <3>6. todo[k].do = "put" /\ todo[k].id = copy.list[k].id /\ todo[k].parent = copy.of
      BY <1>3, <3>3, <3>5 DEF Placing
    <3> QED  BY <1>5, <3>5, <3>6
  <2> QED  BY <2>1, <2>2, <2>3, <2>4
<1> QED  BY <1>6 DEF Plan

\* What a save comes to does not depend on the status.
LEMMA StatusApart ==
    ASSUME NEW d, NEW e, e.rows = d.rows, e.type = d.type, NEW todo
    PROVE  /\ OwnerStays(d, todo) => OwnerStays(e, todo)
           /\ EndsDistinct(d, todo) => EndsDistinct(e, todo)
           /\ EndsInKind(d, todo) => EndsInKind(e, todo)
<1>1. \A i, k : /\ Settles(e, todo, i, k) <=> Settles(d, todo, i, k)
                /\ SettledRow(e, todo, i, k) = SettledRow(d, todo, i, k)
  BY DEF Settles, SettledRow, Stored
<1>2. \A p, k : /\ SettlesType(e, todo, p, k) <=> SettlesType(d, todo, p, k)
                /\ SettledType(e, todo, p, k) = SettledType(d, todo, p, k)
  BY DEF SettlesType, SettledType
<1>3. OwnerStays(d, todo) => OwnerStays(e, todo)
  BY <1>1 DEF OwnerStays
<1>4. EndsDistinct(d, todo) => EndsDistinct(e, todo)
  BY <1>1 DEF EndsDistinct
<1>5. EndsInKind(d, todo) => EndsInKind(e, todo)
  BY <1>1, <1>2 DEF EndsInKind
<1> QED  BY <1>3, <1>4, <1>5

\* A save that starts with a plan ends well, if what it was made from is still current.
LEMMA SendEnds ==
    ASSUME Inv, OutcomeInv, NEW s \in Sessions, NEW copy, CopyGood(copy), NEW status,
           NEW type \in SectionType, NEW todo \in Seq(Statements), Send(s, copy, status, todo),
           copy \in Copies(db, copy.of) =>
              Plan(copy, type, todo) /\ (OrdersDistinct(db) => EndsDistinct(db, todo))
    PROVE  OutcomeInv'
<1> DEFINE work == [db EXCEPT !.status = status]
           x    == Saving(copy, version, work, todo)
<1>1. Kept(db)
  BY DEF Inv
<1>2. work.rows = db.rows /\ work.type = db.type
  <2>1. db = [status |-> db.status, rows |-> db.rows, type |-> db.type, closure |-> db.closure]
    BY <1>1 DEF Kept, WellKept, IsDatabase
  <2> QED  BY <2>1
<1>3. session' = [session EXCEPT ![s] = x] /\ db' = db /\ version' = version
  BY DEF Send
<1>4. x.copy = copy /\ x.work = work /\ x.todo = todo
  BY DEF Saving
<1> HIDE DEF x, work
<1>5. ASSUME copy \in Copies(db, copy.of)  PROVE EndsWell(x)
  <2>1. /\ BelowItself(copy.of, todo) \/ OwnerStays(db, todo)
        /\ KindsAgree(db) => EndsInKind(db, todo)
        /\ OrdersDistinct(db) => EndsDistinct(db, todo)
    BY <1>1, <1>5, PlanEnds
  <2>2. /\ OwnerStays(db, todo) => OwnerStays(work, todo)
        /\ EndsDistinct(db, todo) => EndsDistinct(work, todo)
        /\ EndsInKind(db, todo) => EndsInKind(work, todo)
    BY <1>2, StatusApart
  <2> QED  BY <1>4, <2>1, <2>2 DEF EndsWell
<1>6. x.copy \in Copies(db, x.copy.of) => EndsWell(x)
  BY <1>4, <1>5
<1> QED  BY <1>3, <1>6, OneEnds

\* Every save that writes what it loaded is such a save.
LEMMA SaveEnds ==
    ASSUME Inv, OutcomeInv, NEW s \in Sessions, NEW copy, CopyGood(copy),
           NEW type \in SectionType, NEW changes \in Seq(Statements), Save(s, copy, type, changes),
           \A k \in DOMAIN changes : changes[k].do \notin {"create", "put", "own"},
           type = copy.type \/ copy.list = <<>>
    PROVE  OutcomeInv'
<1> DEFINE own  == Owning(copy.of, copy.parent, type)
           todo == IF copy.of = Exam THEN changes ELSE changes \o <<own>>
<1>1. copy.of # Exam => own \in Statements
  BY DEF CopyGood, Owning, Statements
<1>2. own.do = "own" /\ own.id = copy.of /\ own.parent = copy.parent
  BY DEF Owning
<1>3. Send(s, copy, db.status, todo)
  BY DEF Save
<1> HIDE DEF own
<1>4. /\ todo \in Seq(Statements) /\ Len(todo) \in Nat
      /\ copy.of # Exam => todo # <<>> /\ todo[Len(todo)] = own
      /\ \A k \in DOMAIN todo : todo[k].do \notin {"create", "put", "own"} \/ todo[k] = own
  <2>1. CASE copy.of = Exam
    BY <2>1
  <2>2. CASE copy.of # Exam
    <3> DEFINE more == changes \o <<own>>
               len  == Len(changes)
    <3>1. /\ more \in Seq(Statements) /\ Len(more) = len + 1
          /\ DOMAIN more = 1..(len + 1) /\ \A k \in 1..len : more[k] = changes[k]
          /\ more[len + 1] = own
      BY <1>1, <2>2, OneMore
    <3>2. len \in Nat /\ DOMAIN changes = 1..len
      OBVIOUS
    <3>3. todo = more
      BY <2>2
    <3> HIDE DEF more, len, todo
    <3>4. \A k \in 1..(len + 1) : k \in 1..len \/ k = len + 1
      BY <3>2
    <3>5. \A k \in DOMAIN more : more[k].do \notin {"create", "put", "own"} \/ more[k] = own
      BY <3>1, <3>2, <3>4
    <3>6. more # <<>> /\ Len(more) \in Nat
      BY <3>1, <3>2
    <3> QED  BY <2>2, <3>1, <3>3, <3>5, <3>6
  <2> QED  BY <2>1, <2>2
<1> HIDE DEF todo
<1>5. Plan(copy, type, todo)
  <2>1. \A k \in DOMAIN todo :
          /\ todo[k].do = "own" => todo[k].id = copy.of /\ todo[k].parent = copy.parent
          /\ todo[k].do \notin {"create", "put"}
    BY <1>2, <1>4
  <2>2. copy.of # Exam => todo # <<>> /\ todo[Len(todo)] = Owning(copy.of, copy.parent, type)
    BY <1>4 DEF own
  <2> QED  BY <2>1, <2>2 DEF Plan
<1>6. OrdersDistinct(db) => EndsDistinct(db, todo)
  <2>1. \A k \in DOMAIN todo : todo[k].do \notin {"create", "put"}
    BY <1>2, <1>4
  <2> QED  BY <1>4, <2>1, NothingPlaced
<1> QED  BY <1>3, <1>4, <1>5, <1>6, SendEnds

\* And so is the save of a command that places a child.
LEMMA PlaceEnds ==
    ASSUME Inv, OutcomeInv, NEW s \in Sessions, NEW copy, CopyGood(copy), copy.of \in Parents,
           NEW id \in Items, NEW index \in Int, NEW do \in {"create", "put"},
           Save(s, copy, copy.type, PlaceChanges(copy, index, do, id)),
           copy \in Copies(db, copy.of) => (id \in Questions <=> copy.type = "QUESTION"),
           do = "create" => id \notin Stored(db)
    PROVE  OutcomeInv'
<1> DEFINE changes == PlaceChanges(copy, index, do, id)
           own     == Owning(copy.of, copy.parent, copy.type)
           todo    == IF copy.of = Exam THEN changes ELSE changes \o <<own>>
<1>1. changes \in Seq(Statements)
  BY ChangesTyped
<1>2. copy.of # Exam => own \in Statements
  BY DEF CopyGood, Owning, Statements
<1>3. Send(s, copy, db.status, todo)
  BY DEF Save
<1>4. SavesPlaced(todo, copy, index, do, id, copy.type)
  BY DEF SavesPlaced
<1> HIDE DEF own, changes
<1>5. /\ todo \in Seq(Statements)
      /\ copy.of # Exam => todo # <<>> /\ todo[Len(todo)] = own
  <2>1. CASE copy.of = Exam
    BY <1>1, <2>1
  <2>2. CASE copy.of # Exam
    <3> DEFINE more == changes \o <<own>>
               len  == Len(changes)
    <3>1. /\ more \in Seq(Statements) /\ Len(more) = len + 1 /\ more[len + 1] = own
      BY <1>1, <1>2, <2>2, OneMore
    <3>2. len \in Nat
      BY <1>1
    <3>3. todo = more
      BY <2>2
    <3> HIDE DEF more, len, todo
    <3> QED  BY <3>1, <3>2, <3>3
  <2> QED  BY <2>1, <2>2
<1> HIDE DEF todo
<1>6. Kept(db) /\ copy.type \in SectionType
  BY DEF Inv, CopyGood
<1>7. ASSUME copy \in Copies(db, copy.of)
      PROVE  Plan(copy, copy.type, todo) /\ (OrdersDistinct(db) => EndsDistinct(db, todo))
  <2>1. copy.of # Exam => todo # <<>> /\ todo[Len(todo)] = Owning(copy.of, copy.parent, copy.type)
    BY <1>5 DEF own
  <2>2. Plan(copy, copy.type, todo)
    BY <1>4, <1>6, <1>7, <2>1, PlacingIsPlan
  <2>3. OrdersDistinct(db) => EndsDistinct(db, todo)
    BY <1>4, <1>6, <1>7, PlacedApart
  <2> QED  BY <2>2, <2>3
<1> QED  BY <1>3, <1>5, <1>6, <1>7, SendEnds

\* Every command leaves saves that end well.
LEMMA EditEnds ==
    ASSUME Inv, OutcomeInv, NEW s \in Sessions, NEW copy \in Held(s), Edit(s, copy)
    PROVE  OutcomeInv'
<1>1. CopyGood(copy)
  BY HeldGood
<1>2. copy.type \in SectionType /\ <<>> \in Seq(Statements)
  BY <1>1 DEF CopyGood
<1>3. ASSUME NEW id \in Items, id \in IdsOf(copy.list)
      PROVE  /\ copy.of \in Parents
             /\ copy \in Copies(db, copy.of) => (id \in Questions <=> copy.type = "QUESTION")
  <2>1. copy.list # <<>>
    BY <1>3 DEF IdsOf
  <2>2. copy.of \in Parents
    BY <1>1, <2>1 DEF CopyGood, Items, Parents
  <2>3. ASSUME copy \in Copies(db, copy.of)  PROVE id \in Questions <=> copy.type = "QUESTION"
    <3>1. /\ copy.type = TypeIn(db, copy.of)
          /\ \A n \in DOMAIN copy.list : copy.list[n].id \in Listed(db, copy.of)
      BY <1>1, <2>3, CopyIsCurrent DEF Inv
    <3>2. id \in Listed(db, copy.of)
      BY <1>3, <3>1 DEF IdsOf
    <3> QED  BY <2>2, <3>1, <3>2 DEF Listed, TypeIn, Parents, Items
  <2> QED  BY <2>2, <2>3
<1>4. ASSUME NEW id \in Items, NEW index \in -1..MaxIndex, CreateChild(s, copy, id, index)
      PROVE  OutcomeInv'
  <2>1. /\ copy.of \in Parents /\ (id \in Questions <=> copy.type = "QUESTION")
        /\ id \notin Stored(db) /\ index \in Int
        /\ Save(s, copy, copy.type, PlaceChanges(copy, index, "create", id))
    BY <1>4 DEF CreateChild, Accepts, Fresh
  <2> QED  BY <1>1, <2>1, PlaceEnds
<1>5. ASSUME NEW id \in Items, NEW index \in -1..MaxIndex, AddChild(s, copy, id, index)
      PROVE  OutcomeInv'
  <2>1. /\ copy.of \in Parents /\ (id \in Questions <=> copy.type = "QUESTION") /\ index \in Int
        /\ Save(s, copy, copy.type, PlaceChanges(copy, index, "put", id))
    BY <1>5 DEF AddChild, Accepts
  <2> QED  BY <1>1, <2>1, PlaceEnds
<1>6. ASSUME NEW id \in Items, NEW index \in -1..MaxIndex, MoveChild(s, copy, id, index)
      PROVE  OutcomeInv'
  <2>1. /\ id \in IdsOf(copy.list) /\ index \in Int
        /\ Save(s, copy, copy.type, PlaceChanges(copy, index, "put", id))
    BY <1>6 DEF MoveChild
  <2> QED  BY <1>1, <1>3, <2>1, PlaceEnds
<1>7. ASSUME NEW id \in Items, RemoveChild(s, copy, id)  PROVE OutcomeInv'
  <2> DEFINE changes == <<Deleting(id)>>
  <2>1. changes \in Seq(Statements)
    BY DEF Statements
  <2>2. \A k \in DOMAIN changes : changes[k].do \notin {"create", "put", "own"}
    BY DEF Deleting
  <2>3. Save(s, copy, copy.type, changes)
    BY <1>7 DEF RemoveChild
  <2> HIDE DEF changes
  <2> QED  BY <1>1, <1>2, <2>1, <2>2, <2>3, SaveEnds
<1>8. ASSUME NEW type \in SectionType, UpdateSection(s, copy, type)  PROVE OutcomeInv'
  <2>1. Save(s, copy, type, <<>>) /\ (type = copy.type \/ copy.list = <<>>)
    BY <1>8 DEF UpdateSection
  <2>2. \A k \in DOMAIN <<>> : <<>>[k].do \notin {"create", "put", "own"}
    OBVIOUS
  <2> QED  BY <1>1, <1>2, <2>1, <2>2, SaveEnds
<1>9. CASE UpdateQuestion(s, copy)
  <2>1. Save(s, copy, copy.type, <<>>)
    BY <1>9 DEF UpdateQuestion
  <2>2. \A k \in DOMAIN <<>> : <<>>[k].do \notin {"create", "put", "own"}
    OBVIOUS
  <2> QED  BY <1>1, <1>2, <2>1, <2>2, SaveEnds
<1>10. ASSUME NEW status, NEW todo \in Seq(Statements), copy.of = Exam,
              Send(s, copy, status, todo), \A k \in DOMAIN todo : todo[k].do = "drop"
       PROVE  OutcomeInv'
  <2>1. \A k \in DOMAIN todo : todo[k].do \notin {"create", "put"} /\ todo[k].do # "own"
    BY <1>10
  <2>2. Plan(copy, copy.type, todo)
    BY <1>10, <2>1 DEF Plan
  <2>3. OrdersDistinct(db) => EndsDistinct(db, todo)
    BY <2>1, NothingPlaced
  <2> QED  BY <1>1, <1>2, <1>10, <2>2, <2>3, SendEnds
<1>11. ASSUME NEW status \in ExamStatus, UpdateExam(s, copy, status)  PROVE OutcomeInv'
  <2>1. copy.of = Exam /\ Send(s, copy, status, <<>>)
    BY <1>11 DEF UpdateExam
  <2>2. \A k \in DOMAIN <<>> : <<>>[k].do = "drop"
    OBVIOUS
  <2> QED  BY <1>2, <1>10, <2>1, <2>2
<1>12. CASE DeleteExam(s, copy)
  <2> DEFINE changes == <<Dropping>>
  <2>1. copy.of = Exam /\ Send(s, copy, Deleted, changes)
    BY <1>12 DEF DeleteExam
  <2>2. changes \in Seq(Statements) /\ \A k \in DOMAIN changes : changes[k].do = "drop"
    BY DEF Statements, Dropping
  <2> HIDE DEF changes
  <2> QED  BY <1>10, <2>1, <2>2
<1> QED  BY <1>4, <1>5, <1>6, <1>7, <1>8, <1>9, <1>11, <1>12 DEF Edit

\* After a commit no save that is still open has the exam's version.
LEMMA CommitEnds ==
    ASSUME Inv, NEW s \in Sessions, Commit(s)
    PROVE  OutcomeInv'
<1>1. /\ version' = version + 1 /\ session' = [session EXCEPT ![s] = Idle] /\ version \in Nat
  BY DEF Commit, Inv
<1>2. ASSUME NEW t \in Sessions, session'[t].at = "saving"  PROVE session'[t].version # version'
  <2>1. CASE t = s
    BY <1>1, <1>2, <2>1 DEF Inv, Idle
  <2>2. CASE t # s
    <3>1. session'[t] = session[t]
      BY <1>1, <2>2 DEF Inv
    <3>2. session[t].version \in 1..version
      BY <1>2, <3>1 DEF Inv, SessionGood, SavingGood
    <3> QED  BY <1>1, <3>1, <3>2
  <2> QED  BY <2>1, <2>2
<1> QED  BY <1>2 DEF OutcomeInv

\* Every step leaves the open saves as they should be.
LEMMA NextEnds == Inv /\ OutcomeInv /\ [Next]_vars => OutcomeInv'
<1> SUFFICES ASSUME Inv, OutcomeInv, [Next]_vars  PROVE OutcomeInv'
  OBVIOUS
<1>1. ASSUME NEW s \in Sessions, NEW x \in Items, ReadRows(s, x)  PROVE OutcomeInv'
  <2>1. PICK copy \in Copies(db, x) :
           session' = [session EXCEPT ![s] = [at |-> "reading", copy |-> copy]]
    BY <1>1 DEF ReadRows
  <2> DEFINE y == [at |-> "reading", copy |-> copy]
  <2>2. y.at # "saving"
    OBVIOUS
  <2>3. session' = [session EXCEPT ![s] = y] /\ db' = db /\ version' = version
    BY <1>1, <2>1 DEF ReadRows
  <2> HIDE DEF y
  <2> QED  BY <2>2, <2>3, OneEnds
<1>2. ASSUME NEW s \in Sessions, NEW copy \in Held(s), Edit(s, copy)  PROVE OutcomeInv'
  BY <1>2, EditEnds
<1>3. ASSUME NEW s \in Sessions, Execute(s)  PROVE OutcomeInv'
  BY <1>3, ExecuteEnds
<1>4. ASSUME NEW s \in Sessions, Commit(s)  PROVE OutcomeInv'
  BY <1>4, CommitEnds
<1>5. ASSUME NEW s \in Sessions, Abandon(s)  PROVE OutcomeInv'
  <2>1. Idle.at # "saving"
    BY DEF Idle
  <2>2. session' = [session EXCEPT ![s] = Idle] /\ db' = db /\ version' = version
    BY <1>5 DEF Abandon
  <2> QED  BY <2>1, <2>2, OneEnds
<1>6. CASE UNCHANGED vars
  BY <1>6 DEF vars, OutcomeInv, Current, EndsWell, OrdersDistinct, KindsAgree
<1> QED  BY <1>1, <1>2, <1>3, <1>4, <1>5, <1>6 DEF Next

\* A save that could still commit, made from what the tables hold, ends well: what its
\* statements come to keeps siblings apart and children in their kind, or the trigger
\* refuses it.
THEOREM OutcomeInvariant == Spec => [](Inv /\ OutcomeInv)
<1>1. Init => OutcomeInv
  BY DEF Init, OutcomeInv, Idle
<1> QED  BY <1>1, InitGood, NextGood, NextEnds, PTL DEF Spec

\* Only a commit changes the exam's version; what it commits was made from a copy that
\* may still be current, and has no statement left.
LEMMA CommitsWell ==
    ASSUME Inv, OutcomeInv, Next, NEW s \in Sessions, Committing(s), Current(s)
    PROVE  /\ IsDatabase(db')
           /\ OrdersDistinct(db) => EndsDistinct(db', <<>>)
           /\ KindsAgree(db) => EndsInKind(db', <<>>)
<1>1. version' # version /\ session[s].at = "saving" /\ session'[s].at = "idle"
  BY DEF Committing
<1>2. ASSUME NEW t \in Sessions, NEW copy, Edit(t, copy)  PROVE version' = version
  <2>1. \A c, status, todo : Send(t, c, status, todo) => version' = version
    BY DEF Send
  <2>2. \A c, type, changes : Save(t, c, type, changes) => version' = version
    BY <2>1 DEF Save
  <2> QED
    BY <1>2, <2>1, <2>2 DEF Edit, CreateChild, AddChild, MoveChild, RemoveChild,
       UpdateSection, UpdateQuestion, UpdateExam, DeleteExam
<1>3. PICK t \in Sessions : Commit(t)
  BY <1>1, <1>2 DEF Next, ReadRows, Execute, Abandon
<1>4. t = s
  <2> SUFFICES ASSUME t # s  PROVE FALSE
    OBVIOUS
  <2>1. session'[s] = session[s]
    BY <1>3 DEF Commit, Inv
  <2> QED  BY <1>1, <2>1
<1>5. /\ session[s].todo = <<>> /\ session[s].version = version /\ db' = session[s].work
  BY <1>3, <1>4 DEF Commit
<1>6. EndsWell(session[s])
  BY <1>1, <1>5 DEF OutcomeInv
<1>7. ~BelowItself(session[s].copy.of, session[s].todo)
  BY <1>5 DEF BelowItself
<1>8. IsDatabase(session[s].work)
  BY <1>1 DEF Inv, SessionGood, SavingGood, Kept, WellKept
<1> QED  BY <1>5, <1>6, <1>7, <1>8 DEF EndsWell

\* With no statement left a save comes to what the transaction sees.
LEMMA NothingLeft ==
    ASSUME NEW d, IsDatabase(d)
    PROVE  /\ EndsDistinct(d, <<>>) => OrdersDistinct(d)
           /\ EndsInKind(d, <<>>) => KindsAgree(d)
<1>1. /\ \A i \in Stored(d) : i \in Items /\ d.rows[i].parent \in Parents
      /\ \A i \in Stored(d) : d.rows[i].parent # Exam => d.rows[i].parent \in DOMAIN d.type
  BY DEF IsDatabase, Parents
<1>2. 0 \in 0..Len(<<>>)
  OBVIOUS
<1>3. \A i \in Stored(d) : Settles(d, <<>>, i, 0) /\ SettledRow(d, <<>>, i, 0) = d.rows[i]
  BY DEF Settles, SettledRow
<1>4. \A p \in DOMAIN d.type : SettlesType(d, <<>>, p, 0) /\ SettledType(d, <<>>, p, 0) = d.type[p]
  BY DEF SettlesType, SettledType
<1>5. ASSUME EndsDistinct(d, <<>>)  PROVE OrdersDistinct(d)
  <2> SUFFICES ASSUME NEW i \in Stored(d), NEW j \in Stored(d), i # j,
                      d.rows[i].parent = d.rows[j].parent, i \in Sections <=> j \in Sections
               PROVE  d.rows[i].order # d.rows[j].order
    BY DEF OrdersDistinct
  <2> QED  BY <1>1, <1>2, <1>3, <1>5 DEF EndsDistinct
<1>6. ASSUME EndsInKind(d, <<>>)  PROVE KindsAgree(d)
  <2> SUFFICES ASSUME NEW i \in Stored(d), d.rows[i].parent # Exam
               PROVE  d.type[d.rows[i].parent] = "QUESTION" <=> i \in Questions
    BY DEF KindsAgree
  <2>1. i \in Items /\ d.rows[i].parent \in Sections /\ d.rows[i].parent \in DOMAIN d.type
    BY <1>1 DEF Parents
  <2> QED  BY <1>2, <1>3, <1>4, <1>6, <2>1 DEF EndsInKind
<1> QED  BY <1>5, <1>6

\* A save made from what the tables hold never gives two siblings the same order, also
\* when it rebalances them (insertSection, moveSection, insertChild, moveChild).
THEOREM CurrentOrdersKept == Spec => CurrentSavesKeepOrder
<1>1. Inv /\ OutcomeInv /\ [Next]_vars =>
        [\A s \in Sessions :
            Committing(s) /\ Current(s) /\ OrdersDistinct(db) => OrdersDistinct(db')]_vars
  <2> SUFFICES ASSUME Inv, OutcomeInv, Next, NEW s \in Sessions,
                      Committing(s), Current(s), OrdersDistinct(db)
               PROVE  OrdersDistinct(db')
    OBVIOUS
  <2>1. IsDatabase(db') /\ EndsDistinct(db', <<>>)
    BY CommitsWell
  <2> QED  BY <2>1, NothingLeft
<1> QED  BY <1>1, OutcomeInvariant, PTL DEF Spec, CurrentSavesKeepOrder

\* And it leaves questions in question sections and sections in the others
\* (createQuestion, addSection, updateDetails).
THEOREM CurrentKindsKept == Spec => CurrentSavesKeepKinds
<1>1. Inv /\ OutcomeInv /\ [Next]_vars =>
        [\A s \in Sessions :
            Committing(s) /\ Current(s) /\ KindsAgree(db) => KindsAgree(db')]_vars
  <2> SUFFICES ASSUME Inv, OutcomeInv, Next, NEW s \in Sessions,
                      Committing(s), Current(s), KindsAgree(db)
               PROVE  KindsAgree(db')
    OBVIOUS
  <2>1. IsDatabase(db') /\ EndsInKind(db', <<>>)
    BY CommitsWell
  <2> QED  BY <2>1, NothingLeft
<1> QED  BY <1>1, OutcomeInvariant, PTL DEF Spec, CurrentSavesKeepKinds
=============================================================================
