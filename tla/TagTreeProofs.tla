----------------------------- MODULE TagTreeProofs -----------------------------
(***************************************************************************)
(* Proofs about TagTree, for any tags and any number of sessions: the      *)
(* types, that every commit leaves a nested set without gaps, and that     *)
(* every commit is one command of TagOrder.                                *)
(*                                                                         *)
(* The argument has three parts.  The lock row: only its holder reads and  *)
(* writes, so the table is always the committed rows with the first        *)
(* statements of one command applied to them (IInv).  Arithmetic: what all *)
(* the statements of a command together do to the rows it has read keeps   *)
(* them nested and their positions a range from 1 (DenseInv).  Order: the  *)
(* place that a command has read is that of a last child (OrderInv), and   *)
(* what is not moved keeps the order of its positions.                     *)
(***************************************************************************)
EXTENDS TagTree, TLAPS, FiniteSetTheorems

\* The rows after the first n statements of w.
After1(w, rows) == Statement(w, 1, rows)
After2(w, rows) == Statement(w, 2, After1(w, rows))
After3(w, rows) == Statement(w, 3, After2(w, rows))
After4(w, rows) == Statement(w, 4, After3(w, rows))
After5(w, rows) == Statement(w, 5, After4(w, rows))

After(w, n, rows) ==
    CASE n = 0 -> rows
      [] n = 1 -> After1(w, rows)
      [] n = 2 -> After2(w, rows)
      [] n = 3 -> After3(w, rows)
      [] n = 4 -> After4(w, rows)
      [] n = 5 -> After5(w, rows)

\* What w has read is true of the rows: the position of its tag, and a place outside it.
Ready(w, rows) ==
    /\ w.cmd = "add" =>
          /\ w.tag \notin DOMAIN rows
          /\ w.node = [lft |-> w.at, rgt |-> w.at + 1]
          /\ w.at >= 1
          /\ \A t \in DOMAIN rows : rows[t].lft # w.at
    /\ w.cmd # "add" =>
          /\ w.tag \in DOMAIN rows
          /\ w.node = rows[w.tag]
    /\ w.cmd = "move" =>
          /\ w.at >= 1
          /\ w.at < w.node.lft \/ w.at > w.node.rgt

Holds(s) == tx[s].pc \in {"reading", "writing"}

HolderWorks == \A s \in Sessions : Holds(s) <=> holder = s

TableFollows ==
    /\ holder = Nobody => table = committed
    /\ \A s \in Sessions :
          /\ At(s, "reading") => table = committed
          /\ At(s, "writing") =>
                /\ table = After(tx[s], tx[s].done, committed)
                /\ tx[s].done <= Statements[tx[s].cmd]
                /\ Ready(tx[s], committed)

\* The inductive invariant.
IInv == TypeOK /\ HolderWorks /\ TableFollows /\ NestedSets

--------------------------------------------------------------------------------
(***************************************************************************)
(* What the statements of each command do together.                        *)
(***************************************************************************)
\* The intervals (l, r) and (m, n) lie inside each other or apart.
Related(l, r, m, n) == (m < l /\ r < n) \/ (l < m /\ n < r) \/ r < m \/ n < l

\* Opening two positions at at keeps intervals related.
LEMMA OpeningKeepsRelated ==
    ASSUME NEW at \in Int, NEW l \in Int, NEW r \in Int, NEW m \in Int, NEW n \in Int,
           l < r, m < n, l # at, m # at, Related(l, r, m, n)
    PROVE  Related(IF l >= at + 1 THEN l + 2 ELSE l, IF r >= at THEN r + 2 ELSE r,
                   IF m >= at + 1 THEN m + 2 ELSE m, IF n >= at THEN n + 2 ELSE n)
  BY SMT DEF Related

\* Closing the gap from L to R keeps the intervals related that do not lie in it.
LEMMA ClosingKeepsRelated ==
    ASSUME NEW L \in Int, NEW R \in Int, L < R,
           NEW l \in Int, NEW r \in Int, NEW m \in Int, NEW n \in Int, l < r, m < n,
           (l < L /\ R < r) \/ r < L \/ R < l, (m < L /\ R < n) \/ n < L \/ R < m,
           Related(l, r, m, n)
    PROVE  Related(IF l >= R + 1 THEN l - (R - L + 1) ELSE l,
                   IF r >= R + 1 THEN r - (R - L + 1) ELSE r,
                   IF m >= R + 1 THEN m - (R - L + 1) ELSE m,
                   IF n >= R + 1 THEN n - (R - L + 1) ELSE n)
  BY SMT DEF Related

\* The rows in terms of Related.
LEMMA NestedIsRelated ==
    ASSUME NEW rows
    PROVE  Nested(rows) <=>
             /\ \A t \in DOMAIN rows : rows[t].lft < rows[t].rgt
             /\ \A t, u \in DOMAIN rows :
                   t # u => Related(rows[t].lft, rows[t].rgt, rows[u].lft, rows[u].rgt)
  BY DEF Nested, Related, Inside, Apart

\* addTag opens two positions and puts the new tag there: positive and nested again.
LEMMA AddKeepsNested ==
    ASSUME NEW rows, IsTable(rows, CommittedRows), Nested(rows),
           NEW w \in Writers, w.cmd = "add", Ready(w, rows)
    PROVE  IsTable(After(w, 3, rows), CommittedRows) /\ Nested(After(w, 3, rows))
<1> DEFINE at == w.at
           Lft(t) == IF rows[t].lft >= at + 1 THEN rows[t].lft + 2 ELSE rows[t].lft
           Rgt(t) == IF rows[t].rgt >= at THEN rows[t].rgt + 2 ELSE rows[t].rgt
           new == After(w, 3, rows)
<1>1. /\ w.tag \in Tags /\ w.tag \notin DOMAIN rows
      /\ at \in Int /\ at >= 1
      /\ w.node = [lft |-> at, rgt |-> at + 1]
      /\ \A t \in DOMAIN rows : rows[t].lft # at
  BY DEF Ready, Writers
<1>2. \A t \in DOMAIN rows : rows[t] = [lft |-> rows[t].lft, rgt |-> rows[t].rgt]
                            /\ rows[t].lft \in Nat \ {0} /\ rows[t].rgt \in Nat \ {0}
  BY DEF IsTable, CommittedRows
<1>3. new = Created(ShiftLft(ShiftRgt(rows, at, 2), at + 1, 2), w.tag, w.node)
  BY DEF After, After1, After2, After3, Statement, AddTag
<1>4. DOMAIN new = DOMAIN rows \cup {w.tag}
  BY <1>3 DEF Created, ShiftLft, ShiftRgt
<1>5. \A t \in DOMAIN rows : new[t] = [lft |-> Lft(t), rgt |-> Rgt(t)]
  BY <1>1, <1>2, <1>3 DEF Created, ShiftLft, ShiftRgt
<1>6. new[w.tag] = [lft |-> at, rgt |-> at + 1]
  BY <1>1, <1>3 DEF Created
<1>7. new = [t \in DOMAIN new |-> new[t]]
  BY <1>3 DEF Created
<1> HIDE DEF new
<1>8. IsTable(new, CommittedRows)
  <2>1. \A t \in DOMAIN new : new[t] \in CommittedRows
    BY <1>1, <1>2, <1>4, <1>5, <1>6 DEF CommittedRows
  <2>2. DOMAIN new \in SUBSET Tags
    BY <1>1, <1>4 DEF IsTable
  <2> QED  BY <1>7, <2>1, <2>2 DEF IsTable
<1>9. ASSUME NEW t \in DOMAIN rows
      PROVE  /\ rows[t].lft \in Int /\ rows[t].rgt \in Int
             /\ rows[t].lft < rows[t].rgt /\ rows[t].lft # at
             /\ new[t].lft = Lft(t) /\ new[t].rgt = Rgt(t)
  <2>1. new[t] = [lft |-> Lft(t), rgt |-> Rgt(t)]
    BY <1>5
  <2>2. /\ rows[t].lft \in Int /\ rows[t].rgt \in Int
        /\ rows[t].lft < rows[t].rgt /\ rows[t].lft # at
    BY <1>1, <1>2, NestedIsRelated
  <2> HIDE DEF Lft, Rgt
  <2> QED  BY <2>1, <2>2
<1>10. ASSUME NEW t \in DOMAIN rows, NEW u \in DOMAIN rows, t # u
       PROVE  Related(new[t].lft, new[t].rgt, new[u].lft, new[u].rgt)
  <2>1. Related(rows[t].lft, rows[t].rgt, rows[u].lft, rows[u].rgt)
    BY <1>10, NestedIsRelated
  <2>2. Related(Lft(t), Rgt(t), Lft(u), Rgt(u))
    BY <1>1, <1>9, <2>1, OpeningKeepsRelated
  <2> QED  BY <1>9, <2>2
<1>11. ASSUME NEW t \in DOMAIN rows
       PROVE  /\ Related(at, at + 1, new[t].lft, new[t].rgt)
              /\ Related(new[t].lft, new[t].rgt, at, at + 1)
  <2>1. Related(at, at + 1, Lft(t), Rgt(t)) /\ Related(Lft(t), Rgt(t), at, at + 1)
    BY <1>1, <1>9 DEF Related
  <2> QED  BY <1>9, <2>1
<1>12. new[w.tag].lft = at /\ new[w.tag].rgt = at + 1
  BY <1>6
<1>13. \A t \in DOMAIN new : new[t].lft < new[t].rgt
  BY <1>1, <1>4, <1>9, <1>12
<1>14. ASSUME NEW t \in DOMAIN new, NEW u \in DOMAIN new, t # u
       PROVE  Related(new[t].lft, new[t].rgt, new[u].lft, new[u].rgt)
  BY <1>4, <1>10, <1>11, <1>12, <1>14
<1> QED  BY <1>8, <1>13, <1>14, NestedIsRelated DEF new

\* deleteTag removes the interval of a tag and closes the gap: positive and nested again.
LEMMA DeleteKeepsNested ==
    ASSUME NEW rows, IsTable(rows, CommittedRows), Nested(rows),
           NEW w \in Writers, w.cmd = "delete", Ready(w, rows)
    PROVE  IsTable(After(w, 3, rows), CommittedRows) /\ Nested(After(w, 3, rows))
<1> DEFINE L == w.node.lft
           R == w.node.rgt
           kept == {t \in DOMAIN rows : ~(rows[t].lft >= L /\ rows[t].rgt <= R)}
           Lft(t) == IF rows[t].lft >= R + 1 THEN rows[t].lft - (R - L + 1) ELSE rows[t].lft
           Rgt(t) == IF rows[t].rgt >= R + 1 THEN rows[t].rgt - (R - L + 1) ELSE rows[t].rgt
           new == After(w, 3, rows)
<1>1. w.tag \in DOMAIN rows /\ L = rows[w.tag].lft /\ R = rows[w.tag].rgt
  BY DEF Ready
<1>2. \A t \in DOMAIN rows : rows[t] = [lft |-> rows[t].lft, rgt |-> rows[t].rgt]
                            /\ rows[t].lft \in Nat \ {0} /\ rows[t].rgt \in Nat \ {0}
  BY DEF IsTable, CommittedRows
<1>3. L \in Nat \ {0} /\ R \in Nat \ {0} /\ L < R
  BY <1>1, <1>2 DEF Nested
<1>4. new = ShiftLft(ShiftRgt(Removed(rows, w.node), R + 1, -(R - L + 1)),
                     R + 1, -(R - L + 1))
  BY DEF After, After1, After2, After3, Statement, DeleteTag, Width
<1>5. DOMAIN new = kept
  BY <1>4 DEF Removed, ShiftLft, ShiftRgt
<1>6. \A t \in kept : new[t] = [lft |-> Lft(t), rgt |-> Rgt(t)]
  BY <1>2, <1>3, <1>4 DEF Removed, ShiftLft, ShiftRgt
<1>7. new = [t \in DOMAIN new |-> new[t]]
  BY <1>4 DEF ShiftLft
<1> HIDE DEF new
<1>8. ASSUME NEW t \in kept
      PROVE  /\ rows[t].lft \in Nat \ {0} /\ rows[t].rgt \in Nat \ {0}
             /\ rows[t].lft < rows[t].rgt
             /\ \/ rows[t].lft < L /\ R < rows[t].rgt
                \/ rows[t].rgt < L
                \/ R < rows[t].lft
             /\ new[t].lft = Lft(t) /\ new[t].rgt = Rgt(t)
  <2>1. /\ rows[t].lft \in Nat \ {0} /\ rows[t].rgt \in Nat \ {0}
        /\ rows[t].lft < rows[t].rgt
    BY <1>2 DEF Nested
  <2>2. t # w.tag
    BY <1>1, <1>3
  <2>3. Related(rows[t].lft, rows[t].rgt, L, R)
    BY <1>1, <2>2, NestedIsRelated
  <2>4. new[t].lft = Lft(t) /\ new[t].rgt = Rgt(t)
    <3>1. new[t] = [lft |-> Lft(t), rgt |-> Rgt(t)]
      BY <1>6
    <3> HIDE DEF Lft, Rgt
    <3> QED  BY <3>1
  <2> QED  BY <1>3, <2>1, <2>3, <2>4 DEF Related
<1>9. IsTable(new, CommittedRows)
  <2>1. ASSUME NEW t \in kept PROVE new[t] \in CommittedRows
    <3>1. Lft(t) \in Nat \ {0} /\ Rgt(t) \in Nat \ {0}
      BY <1>3, <1>8
    <3>2. new[t] = [lft |-> Lft(t), rgt |-> Rgt(t)]
      BY <1>6
    <3> HIDE DEF Lft, Rgt
    <3> QED  BY <3>1, <3>2 DEF CommittedRows
  <2>2. kept \in SUBSET Tags
    BY DEF IsTable
  <2> QED  BY <1>5, <1>7, <2>1, <2>2 DEF IsTable
<1>10. ASSUME NEW t \in kept
       PROVE  new[t].lft < new[t].rgt
  <2>1. Lft(t) < Rgt(t)
    BY <1>3, <1>8
  <2> QED  BY <1>8, <2>1
<1>11. ASSUME NEW t \in kept, NEW u \in kept, t # u
       PROVE  Related(new[t].lft, new[t].rgt, new[u].lft, new[u].rgt)
  <2>1. Related(rows[t].lft, rows[t].rgt, rows[u].lft, rows[u].rgt)
    BY <1>11, NestedIsRelated
  <2>2. Related(Lft(t), Rgt(t), Lft(u), Rgt(u))
    <3>1. /\ L \in Int /\ R \in Int /\ L < R
          /\ rows[t].lft \in Int /\ rows[t].rgt \in Int
          /\ rows[u].lft \in Int /\ rows[u].rgt \in Int
      BY <1>3, <1>8
    <3> HIDE DEF L, R
    <3> QED  BY <1>8, <2>1, <3>1, ClosingKeepsRelated DEF Lft, Rgt
  <2> QED  BY <1>8, <2>2
<1> QED  BY <1>5, <1>9, <1>10, <1>11, NestedIsRelated DEF new

\* Where moveTag takes a position x: those of the subtree from L to R go to the place
\* opened at at, those between the two places close the gap.
Moved(L, R, at, x) ==
    IF L <= x /\ x <= R
    THEN IF at < L THEN x + at - L ELSE x + at - L - (R - L + 1)
    ELSE IF at < L
         THEN IF at <= x /\ x < L THEN x + (R - L + 1) ELSE x
         ELSE IF R < x /\ x < at THEN x - (R - L + 1) ELSE x

\* The five statements of moveTag carry each row to Moved of its positions.
LEMMA MoveCarries ==
    ASSUME NEW rows, IsTable(rows, CommittedRows), Nested(rows),
           NEW w \in Writers, w.cmd = "move", Ready(w, rows)
    PROVE  After(w, 5, rows) =
               [t \in DOMAIN rows |->
                   [lft |-> Moved(w.node.lft, w.node.rgt, w.at, rows[t].lft),
                    rgt |-> Moved(w.node.lft, w.node.rgt, w.at, rows[t].rgt)]]
<1> DEFINE L == w.node.lft
           R == w.node.rgt
           W == R - L + 1
           at == w.at
           a1 == ShiftLft(rows, at, W)
           a2 == ShiftRgt(a1, at, W)
           a3 == Carry(a2, Source(w), W, Distance(w))
           a4 == ShiftLft(a3, R + 1, -W)
           a5 == ShiftRgt(a4, R + 1, -W)
<1>1. /\ w.tag \in DOMAIN rows /\ L = rows[w.tag].lft /\ R = rows[w.tag].rgt
      /\ at \in Int /\ (at < L \/ at > R)
  BY DEF Ready, Writers
<1>2. \A t \in DOMAIN rows : rows[t] = [lft |-> rows[t].lft, rgt |-> rows[t].rgt]
                            /\ rows[t].lft \in Int /\ rows[t].rgt \in Int
  BY DEF IsTable, CommittedRows
<1>3. L \in Int /\ R \in Int /\ L < R
  BY <1>1, <1>2 DEF Nested
<1>4. After(w, 5, rows) = a5
  <2>1. After1(w, rows) = a1
    BY DEF After1, Statement, MoveTag, Width
  <2>2. After2(w, rows) = a2
    BY <2>1 DEF After2, Statement, MoveTag, Width
  <2>3. After3(w, rows) = a3
    BY <2>2 DEF After3, Statement, MoveTag, Width
  <2>4. After4(w, rows) = a4
    BY <2>3 DEF After4, Statement, MoveTag, Width
  <2>5. After5(w, rows) = a5
    BY <2>4 DEF After5, Statement, MoveTag, Width
  <2> QED  BY <2>5 DEF After
<1>5. /\ Source(w) = IF at < L THEN L + W ELSE L
      /\ Distance(w) = IF at < L THEN at - L - W ELSE at - L
  BY DEF Source, Distance, Width
<1>6. ASSUME NEW t \in DOMAIN rows
      PROVE  a5[t] = [lft |-> Moved(L, R, at, rows[t].lft), rgt |-> Moved(L, R, at, rows[t].rgt)]
  <2> DEFINE l1 == IF rows[t].lft >= at THEN rows[t].lft + W ELSE rows[t].lft
             r1 == IF rows[t].rgt >= at THEN rows[t].rgt + W ELSE rows[t].rgt
             in == l1 >= Source(w) /\ r1 < Source(w) + W
             l2 == IF in THEN l1 + Distance(w) ELSE l1
             r2 == IF in THEN r1 + Distance(w) ELSE r1
  <2>1. a2[t] = [lft |-> l1, rgt |-> r1]
    BY <1>1, <1>2, <1>3 DEF ShiftLft, ShiftRgt
  <2>2. a3[t] = [lft |-> l2, rgt |-> r2]
    <3>1. a3[t] = IF a2[t].lft >= Source(w) /\ a2[t].rgt < Source(w) + W
                  THEN [lft |-> a2[t].lft + Distance(w), rgt |-> a2[t].rgt + Distance(w)]
                  ELSE a2[t]
      BY DEF ShiftLft, ShiftRgt, Carry
    <3> QED  BY <2>1, <3>1
  <2>3. a5[t] = [lft |-> IF l2 >= R + 1 THEN l2 + (-W) ELSE l2,
                 rgt |-> IF r2 >= R + 1 THEN r2 + (-W) ELSE r2]
    <3>1. a5[t] = [lft |-> IF a3[t].lft >= R + 1 THEN a3[t].lft + (-W) ELSE a3[t].lft,
                   rgt |-> IF a3[t].rgt >= R + 1 THEN a3[t].rgt + (-W) ELSE a3[t].rgt]
      BY DEF ShiftLft, ShiftRgt, Carry
    <3> QED  BY <2>2, <3>1
  <2>4. \/ L <= rows[t].lft /\ rows[t].rgt <= R
        \/ rows[t].lft < L /\ R < rows[t].rgt
        \/ rows[t].rgt < L
        \/ R < rows[t].lft
    BY <1>1, <1>2, <1>3 DEF Nested, Inside, Apart
  <2>5. rows[t].lft < rows[t].rgt
    BY DEF Nested
  <2> HIDE DEF a5
  <2> QED  BY <1>1, <1>2, <1>3, <1>5, <2>3, <2>4, <2>5 DEF Moved
<1>7. DOMAIN a5 = DOMAIN rows /\ a5 = [t \in DOMAIN a5 |-> a5[t]]
  <2>1. DOMAIN a2 = DOMAIN rows
    BY DEF ShiftLft, ShiftRgt
  <2>2. DOMAIN a4 = DOMAIN a2
    BY DEF ShiftLft, Carry
  <2> HIDE DEF a4
  <2> QED  BY <2>1, <2>2 DEF ShiftRgt
<1> HIDE DEF a5
<1> QED  BY <1>4, <1>6, <1>7

\* Moved keeps intervals related that are related to the subtree from L to R or lie in it.
LEMMA MovingKeepsRelated ==
    ASSUME NEW L \in Int, NEW R \in Int, L < R, NEW at \in Int, at < L \/ R < at,
           NEW l \in Int, NEW r \in Int, NEW m \in Int, NEW n \in Int, l < r, m < n,
           (L <= l /\ r <= R) \/ Related(l, r, L, R),
           (L <= m /\ n <= R) \/ Related(m, n, L, R),
           Related(l, r, m, n)
    PROVE  Related(Moved(L, R, at, l), Moved(L, R, at, r),
                   Moved(L, R, at, m), Moved(L, R, at, n))
  BY SMTT(60) DEF Related, Moved

\* moveTag carries a subtree to its new place: positive and nested again.
LEMMA MoveKeepsNested ==
    ASSUME NEW rows, IsTable(rows, CommittedRows), Nested(rows),
           NEW w \in Writers, w.cmd = "move", Ready(w, rows)
    PROVE  IsTable(After(w, 5, rows), CommittedRows) /\ Nested(After(w, 5, rows))
<1> DEFINE L == w.node.lft
           R == w.node.rgt
           at == w.at
           new == After(w, 5, rows)
<1>1. /\ w.tag \in DOMAIN rows /\ L = rows[w.tag].lft /\ R = rows[w.tag].rgt
      /\ at \in Int /\ at >= 1 /\ (at < L \/ R < at)
  BY DEF Ready, Writers
<1>2. ASSUME NEW t \in DOMAIN rows
      PROVE  /\ rows[t].lft \in Nat \ {0} /\ rows[t].rgt \in Nat \ {0}
             /\ rows[t].lft < rows[t].rgt
             /\ (L <= rows[t].lft /\ rows[t].rgt <= R) \/ Related(rows[t].lft, rows[t].rgt, L, R)
  <2>1. /\ rows[t].lft \in Nat \ {0} /\ rows[t].rgt \in Nat \ {0}
        /\ rows[t].lft < rows[t].rgt
    BY DEF Nested, IsTable, CommittedRows
  <2>2. CASE t = w.tag
    BY <1>1, <2>1, <2>2
  <2>3. CASE t # w.tag
    BY <1>1, <2>1, <2>3, NestedIsRelated
  <2> QED  BY <2>2, <2>3
<1>3. L \in Nat \ {0} /\ R \in Nat \ {0} /\ L < R
  BY <1>1, <1>2
<1>4. new = [t \in DOMAIN rows |-> [lft |-> Moved(L, R, at, rows[t].lft),
                                   rgt |-> Moved(L, R, at, rows[t].rgt)]]
  BY MoveCarries
<1> HIDE DEF new, L, R, at
<1>5. \A x \in Nat \ {0} : Moved(L, R, at, x) \in Nat \ {0}
  BY <1>1, <1>3 DEF Moved
<1>6. IsTable(new, CommittedRows)
  BY <1>2, <1>4, <1>5 DEF IsTable, CommittedRows
<1>7. ASSUME NEW t \in DOMAIN rows
      PROVE  new[t].lft < new[t].rgt
  <2>1. Moved(L, R, at, rows[t].lft) < Moved(L, R, at, rows[t].rgt)
    BY <1>1, <1>2, <1>3 DEF Moved, Related
  <2> QED  BY <1>4, <2>1
<1>8. ASSUME NEW t \in DOMAIN rows, NEW u \in DOMAIN rows, t # u
      PROVE  Related(new[t].lft, new[t].rgt, new[u].lft, new[u].rgt)
  <2>1. Related(rows[t].lft, rows[t].rgt, rows[u].lft, rows[u].rgt)
    BY <1>8, NestedIsRelated
  <2>2. Related(Moved(L, R, at, rows[t].lft), Moved(L, R, at, rows[t].rgt),
                Moved(L, R, at, rows[u].lft), Moved(L, R, at, rows[u].rgt))
    <3>1. /\ L \in Int /\ R \in Int
          /\ rows[t].lft \in Int /\ rows[t].rgt \in Int
          /\ rows[u].lft \in Int /\ rows[u].rgt \in Int
      BY <1>2, <1>3
    <3> QED  BY <1>1, <1>2, <1>3, <2>1, <3>1, MovingKeepsRelated
  <2> QED  BY <1>4, <2>2
<1>9. DOMAIN new = DOMAIN rows
  BY <1>4
<1> QED  BY <1>6, <1>7, <1>8, <1>9, NestedIsRelated DEF new

--------------------------------------------------------------------------------
(***************************************************************************)
(* The invariant.                                                          *)
(***************************************************************************)
\* No statement leaves the rows without their types.
LEMMA StatementTyped ==
    ASSUME NEW rows, IsTable(rows, Rows), NEW w \in Writers, NEW n \in 1..Statements[w.cmd]
    PROVE  IsTable(Statement(w, n, rows), Rows)
<1>1. /\ w.tag \in Tags /\ w.node \in Rows /\ w.at \in Int
      /\ w.node.lft \in Int /\ w.node.rgt \in Int
      /\ w.cmd \in {"add", "delete", "move"}
  BY DEF Writers, Rows
<1>2. ASSUME NEW t, NEW from \in Int, NEW by \in Int, NEW rs, IsTable(rs, Rows)
      PROVE  IsTable(ShiftLft(rs, from, by), Rows) /\ IsTable(ShiftRgt(rs, from, by), Rows)
  BY <1>2 DEF IsTable, Rows, ShiftLft, ShiftRgt
<1>3. Width(w.node) \in Int /\ -Width(w.node) \in Int /\ w.node.rgt + 1 \in Int
      /\ w.at + 1 \in Int /\ Distance(w) \in Int /\ Source(w) \in Int
  BY <1>1 DEF Width, Distance, Source
<1>4. IsTable(Removed(rows, w.node), Rows) /\ IsTable(Created(rows, w.tag, w.node), Rows)
  BY <1>1 DEF IsTable, Removed, Created
<1>5. IsTable(Carry(rows, Source(w), Width(w.node), Distance(w)), Rows)
  BY <1>1, <1>3 DEF IsTable, Rows, Carry
<1>6. CASE w.cmd = "add"
  <2>1. n = 1 \/ n = 2 \/ n = 3
    BY <1>6 DEF Statements
  <2>2. Statement(w, n, rows) = AddTag(w, n, rows)
    BY <1>6 DEF Statement
  <2>3. IsTable(ShiftRgt(rows, w.at, 2), Rows) /\ IsTable(ShiftLft(rows, w.at + 1, 2), Rows)
    BY <1>1, <1>2, <1>3
  <2> QED  BY <1>4, <2>1, <2>2, <2>3 DEF AddTag
<1>7. CASE w.cmd = "delete"
  <2>1. n = 1 \/ n = 2 \/ n = 3
    BY <1>7 DEF Statements
  <2> QED  BY <1>1, <1>2, <1>3, <1>4, <1>7, <2>1 DEF Statement, DeleteTag
<1>8. CASE w.cmd = "move"
  <2>1. n = 1 \/ n = 2 \/ n = 3 \/ n = 4 \/ n = 5
    BY <1>8 DEF Statements
  <2> QED  BY <1>1, <1>2, <1>3, <1>5, <1>8, <2>1 DEF Statement, MoveTag
<1> QED  BY <1>1, <1>6, <1>7, <1>8

\* The next statement makes of the rows after n statements those after n + 1.
LEMMA AfterStep ==
    ASSUME NEW rows, NEW w, NEW n \in 0..4
    PROVE  After(w, n + 1, rows) = Statement(w, n + 1, After(w, n, rows))
<1>1. n = 0 \/ n = 1 \/ n = 2 \/ n = 3 \/ n = 4
  OBVIOUS
<1> QED  BY <1>1 DEF After, After1, After2, After3, After4, After5

\* After looks at the fields of a command that its statements do not change.
LEMMA AfterOfFields ==
    ASSUME NEW rows, NEW n, NEW w, NEW v,
           w.cmd = v.cmd, w.tag = v.tag, w.node = v.node, w.at = v.at
    PROVE  After(w, n, rows) = After(v, n, rows)
<1>1. \A k, rs : Statement(w, k, rs) = Statement(v, k, rs)
  BY DEF Statement, AddTag, DeleteTag, MoveTag, Source, Distance
<1> QED  BY <1>1 DEF After, After1, After2, After3, After4, After5

\* A command that has run all its statements leaves positive and nested rows.
LEMMA CommandKeepsNested ==
    ASSUME NEW rows, IsTable(rows, CommittedRows), Nested(rows),
           NEW w \in Writers, Ready(w, rows)
    PROVE  /\ IsTable(After(w, Statements[w.cmd], rows), CommittedRows)
           /\ Nested(After(w, Statements[w.cmd], rows))
<1>1. w.cmd = "add" \/ w.cmd = "delete" \/ w.cmd = "move"
  BY DEF Writers
<1> QED  BY <1>1, AddKeepsNested, DeleteKeepsNested, MoveKeepsNested DEF Statements

\* An empty table with nobody working satisfies the invariant.
LEMMA InitEstablishesIInv == Init => IInv
<1> SUFFICES ASSUME Init PROVE IInv
  OBVIOUS
<1>1. DOMAIN committed = {} /\ committed = [t \in {} |-> committed[t]]
  BY DEF Init
<1>2. IsTable(committed, CommittedRows) /\ IsTable(table, Rows)
  BY <1>1 DEF Init, IsTable
<1>3. TypeOK
  BY <1>2 DEF Init, TypeOK, Transactions
<1>4. HolderWorks
  BY TagAssumption DEF Init, HolderWorks, Holds, Idle
<1>5. TableFollows
  BY DEF Init, TableFollows, At, Idle
<1>6. NestedSets
  BY <1>1 DEF NestedSets, Nested
<1> QED  BY <1>3, <1>4, <1>5, <1>6 DEF IInv

\* A step of s that leaves the rows alone and that neither takes nor gives up the lock.
LEMMA WaitingKeepsIInv ==
    ASSUME IInv, NEW s \in Sessions, tx[s].pc \notin {"reading", "writing"},
           NEW pc \in {"idle", "finding", "creating", "locking"},
           tx' = [tx EXCEPT ![s] = [pc |-> pc]], UNCHANGED <<committed, table, lockRow, holder>>
    PROVE  IInv'
<1>1. tx'[s] = [pc |-> pc] /\ \A u \in Sessions \ {s} : tx'[u] = tx[u]
  BY DEF IInv, TypeOK
<1>2. TypeOK'
  <2>1. [pc |-> pc] \in Transactions
    BY DEF Transactions, Idle
  <2> QED  BY <2>1 DEF IInv, TypeOK
<1>3. HolderWorks'
  <2>1. ASSUME NEW u \in Sessions PROVE Holds(u)' <=> holder' = u
    BY <1>1 DEF IInv, HolderWorks, Holds
  <2> QED  BY <2>1 DEF HolderWorks
<1>4. TableFollows'
  <2>1. ASSUME NEW u \in Sessions
        PROVE  /\ At(u, "reading")' => table' = committed'
               /\ At(u, "writing")' =>
                     /\ table' = After(tx'[u], tx'[u].done, committed')
                     /\ tx'[u].done <= Statements[tx'[u].cmd]
                     /\ Ready(tx'[u], committed')
    <3>1. CASE u = s
      BY <1>1, <3>1 DEF At
    <3>2. CASE u # s
      BY <1>1, <3>2 DEF At, IInv, TableFollows
    <3> QED  BY <3>1, <3>2
  <2>2. holder' = Nobody => table' = committed'
    BY DEF IInv, TableFollows
  <2> QED  BY <2>1, <2>2 DEF TableFollows
<1>5. NestedSets'
  BY DEF IInv, NestedSets
<1> QED  BY <1>2, <1>3, <1>4, <1>5 DEF IInv

\* A step of s that takes the free lock and begins to read.
LEMMA LockingKeepsIInv ==
    ASSUME IInv, NEW s \in Sessions, holder = Nobody, holder' = s,
           tx' = [tx EXCEPT ![s] = [pc |-> "reading"]], UNCHANGED <<committed, table, lockRow>>
    PROVE  IInv'
<1>1. tx'[s] = [pc |-> "reading"] /\ \A u \in Sessions \ {s} : tx'[u] = tx[u]
  BY DEF IInv, TypeOK
<1>2. \A u \in Sessions : ~Holds(u)
  BY TagAssumption DEF IInv, HolderWorks
<1>3. table = committed
  BY DEF IInv, TableFollows
<1>4. TypeOK'
  <2>1. [pc |-> "reading"] \in Transactions
    BY DEF Transactions
  <2> QED  BY <2>1 DEF IInv, TypeOK
<1>5. HolderWorks'
  <2>1. ASSUME NEW u \in Sessions PROVE Holds(u)' <=> holder' = u
    BY <1>1, <1>2 DEF Holds
  <2> QED  BY <2>1 DEF HolderWorks
<1>6. TableFollows'
  <2>1. ASSUME NEW u \in Sessions PROVE ~At(u, "writing")'
    BY <1>1, <1>2 DEF At, Holds
  <2>2. table' = committed'
    BY <1>3
  <2> QED  BY <2>1, <2>2 DEF TableFollows
<1>7. NestedSets'
  BY DEF IInv, NestedSets
<1> QED  BY <1>4, <1>5, <1>6, <1>7 DEF IInv

\* A holder that has read its positions begins to write.
LEMMA StartKeepsIInv ==
    ASSUME IInv, NEW s \in Sessions, NEW cmd \in {"add", "delete", "move"}, NEW t \in Tags,
           NEW node \in Rows, NEW at \in Int, Start(s, cmd, t, node, at),
           Ready([pc |-> "writing", cmd |-> cmd, tag |-> t, node |-> node, at |-> at,
                  done |-> 0], committed)
    PROVE  IInv'
<1> DEFINE w == [pc |-> "writing", cmd |-> cmd, tag |-> t, node |-> node, at |-> at, done |-> 0]
<1>1. tx'[s] = w /\ \A u \in Sessions \ {s} : tx'[u] = tx[u]
  BY DEF IInv, TypeOK, Start
<1>2. holder = s /\ \A u \in Sessions \ {s} : ~Holds(u)
  BY DEF IInv, HolderWorks, Holds, Start, At
<1>3. table = committed
  BY DEF IInv, TableFollows, Start
<1>4. w \in Writers
  BY DEF Writers
<1>5. TypeOK'
  BY <1>4 DEF IInv, TypeOK, Start, Transactions
<1>6. HolderWorks'
  <2>1. ASSUME NEW u \in Sessions PROVE Holds(u)' <=> holder' = u
    BY <1>1, <1>2 DEF Holds, Start
  <2> QED  BY <2>1 DEF HolderWorks
<1>7. TableFollows'
  <2>1. ASSUME NEW u \in Sessions, u # s PROVE ~At(u, "writing")' /\ ~At(u, "reading")'
    BY <1>1, <1>2, <2>1 DEF At, Holds
  <2>2. ~At(s, "reading")' /\ holder' # Nobody
    BY <1>1, <1>2, TagAssumption DEF At, Start
  <2>3. /\ table' = After(tx'[s], tx'[s].done, committed')
        /\ tx'[s].done <= Statements[tx'[s].cmd]
        /\ Ready(tx'[s], committed')
    BY <1>1, <1>3 DEF After, Statements, Start
  <2> QED  BY <2>1, <2>2, <2>3 DEF TableFollows
<1>8. NestedSets'
  BY DEF IInv, NestedSets, Start
<1> QED  BY <1>5, <1>6, <1>7, <1>8 DEF IInv

\* Committed positions are positive, those of a tag in order, and no lft is another's rgt.
LEMMA CommittedPositions ==
    ASSUME IInv
    PROVE  /\ \A t \in DOMAIN committed :
                 /\ t \in Tags /\ committed[t] \in Rows
                 /\ committed[t].lft \in Nat \ {0} /\ committed[t].rgt \in Nat \ {0}
                 /\ committed[t].lft < committed[t].rgt
           /\ \A t, u \in DOMAIN committed :
                 t # u => Related(committed[t].lft, committed[t].rgt,
                                  committed[u].lft, committed[u].rgt)
<1>1. /\ \A t \in DOMAIN committed : committed[t].lft < committed[t].rgt
      /\ \A t, u \in DOMAIN committed :
            t # u => Related(committed[t].lft, committed[t].rgt,
                             committed[u].lft, committed[u].rgt)
  BY NestedIsRelated DEF IInv, NestedSets
<1>2. ASSUME NEW t \in DOMAIN committed
      PROVE  /\ t \in Tags /\ committed[t] \in Rows
             /\ committed[t].lft \in Nat \ {0} /\ committed[t].rgt \in Nat \ {0}
  BY DEF IInv, TypeOK, IsTable, CommittedRows, Rows
<1> QED  BY <1>1, <1>2

\* The position below p: positive, and nobody's lft.
LEMMA PlaceIsFree ==
    ASSUME IInv, NEW p \in DOMAIN committed \cup {Root}, NEW at \in Places(p)
    PROVE  at \in Nat \ {0} /\ \A t \in DOMAIN committed : committed[t].lft # at
<1>1. CASE p = Root
  <2>1. at \in Nat \ {0} /\ \A t \in DOMAIN committed : committed[t].rgt < at
    BY <1>1, CommittedPositions DEF Places
  <2>2. ASSUME NEW t \in DOMAIN committed PROVE committed[t].lft # at
    BY <2>1, CommittedPositions
  <2> QED  BY <2>1, <2>2
<1>2. CASE p # Root
  <2>1. p \in DOMAIN committed /\ at = committed[p].rgt
    BY <1>2 DEF Places
  <2>2. at \in Nat \ {0} /\ committed[p].lft < at /\ committed[p].lft \in Nat
    BY <2>1, CommittedPositions
  <2>3. ASSUME NEW t \in DOMAIN committed PROVE committed[t].lft # at
    <3>1. committed[t].lft \in Nat /\ committed[t].rgt \in Nat
          /\ committed[t].lft < committed[t].rgt
      BY CommittedPositions
    <3>2. CASE t = p
      BY <2>1, <2>2, <3>2
    <3>3. CASE t # p
      <4>1. Related(committed[t].lft, committed[t].rgt, committed[p].lft, committed[p].rgt)
        BY <2>1, <3>3, CommittedPositions
      <4> QED  BY <2>1, <2>2, <3>1, <4>1 DEF Related
    <3> QED  BY <3>2, <3>3
  <2> QED  BY <2>2, <2>3
<1> QED  BY <1>1, <1>2

\* A handler's first read (of the parent, or of the tag) writes no row, so it keeps the invariant.
LEMMA ReadKeepsIInv ==
    ASSUME IInv, NEW s \in Sessions, Read(s)
    PROVE  IInv'
<1>1. ASSUME NEW t \in Tags, NEW p \in Tags \cup {Root}, ReadAdd(s, t, p)
      PROVE  IInv'
  <2>1. PICK at \in Places(p) : Start(s, "add", t, [lft |-> at, rgt |-> at + 1], at)
    BY <1>1 DEF ReadAdd
  <2>2. t \notin DOMAIN committed /\ p \in DOMAIN committed \cup {Root}
    BY <1>1 DEF ReadAdd
  <2>3. at \in Nat \ {0} /\ \A u \in DOMAIN committed : committed[u].lft # at
    BY <2>2, PlaceIsFree
  <2>4. [lft |-> at, rgt |-> at + 1] \in Rows
    BY <2>3 DEF Rows
  <2>5. Ready([pc |-> "writing", cmd |-> "add", tag |-> t,
               node |-> [lft |-> at, rgt |-> at + 1], at |-> at, done |-> 0], committed)
    BY <2>2, <2>3 DEF Ready
  <2> QED  BY <2>1, <2>3, <2>4, <2>5, StartKeepsIInv
<1>2. ASSUME NEW t \in Tags, ReadDelete(s, t)
      PROVE  IInv'
  <2>1. t \in DOMAIN committed /\ Start(s, "delete", t, committed[t], 0)
    BY <1>2 DEF ReadDelete
  <2>2. committed[t] \in Rows
    BY <2>1, CommittedPositions
  <2>3. Ready([pc |-> "writing", cmd |-> "delete", tag |-> t, node |-> committed[t],
               at |-> 0, done |-> 0], committed)
    BY <2>1 DEF Ready
  <2> QED  BY <2>1, <2>2, <2>3, StartKeepsIInv
<1>3. ASSUME NEW t \in Tags, NEW p \in Tags \cup {Root}, ReadMove(s, t, p)
      PROVE  IInv'
  <2>1. PICK at \in Places(p) : Start(s, "move", t, committed[t], at)
    BY <1>3 DEF ReadMove
  <2>2. t \in DOMAIN committed /\ p \in DOMAIN committed \cup {Root} /\ Movable(t, p)
    BY <1>3 DEF ReadMove
  <2>3. at \in Nat \ {0}
    BY <2>2, PlaceIsFree
  <2>4. /\ committed[t] \in Rows
        /\ committed[t].lft \in Nat /\ committed[t].rgt \in Nat
        /\ committed[t].lft < committed[t].rgt
    BY <2>2, CommittedPositions
  <2>5. at < committed[t].lft \/ at > committed[t].rgt
    <3>1. CASE p = Root
      BY <2>2, <3>1 DEF Places
    <3>2. CASE p # Root
      <4>1. p \in DOMAIN committed /\ at = committed[p].rgt
        BY <2>2, <3>2 DEF Places
      <4>2. ~(committed[p].lft >= committed[t].lft /\ committed[p].rgt <= committed[t].rgt)
        BY <2>2, <3>2 DEF Movable
      <4>3. /\ committed[p].lft \in Nat /\ committed[p].rgt \in Nat
            /\ committed[p].lft < committed[p].rgt
        BY <4>1, CommittedPositions
      <4>4. p # t
        BY <2>4, <4>2
      <4>5. Related(committed[p].lft, committed[p].rgt, committed[t].lft, committed[t].rgt)
        BY <2>2, <4>1, <4>4, CommittedPositions
      <4> QED  BY <2>4, <4>1, <4>2, <4>3, <4>5 DEF Related
    <3> QED  BY <3>1, <3>2
  <2>6. Ready([pc |-> "writing", cmd |-> "move", tag |-> t, node |-> committed[t],
               at |-> at, done |-> 0], committed)
    BY <2>2, <2>3, <2>5 DEF Ready
  <2> QED  BY <2>1, <2>3, <2>4, <2>6, StartKeepsIInv
<1> QED  BY <1>1, <1>2, <1>3 DEF Read

\* A writing session is the holder, and the only one.
LEMMA WriterFacts ==
    ASSUME IInv, NEW s \in Sessions, At(s, "writing")
    PROVE  /\ tx[s] \in Writers
           /\ holder = s /\ holder # Nobody
           /\ \A u \in Sessions \ {s} : ~Holds(u)
           /\ table = After(tx[s], tx[s].done, committed)
           /\ tx[s].done <= Statements[tx[s].cmd]
           /\ Ready(tx[s], committed)
<1>1. tx[s] \in Writers
  <2>1. tx[s] \in Transactions
    BY DEF IInv, TypeOK
  <2> QED  BY <2>1 DEF At, Transactions, Idle
<1>2. holder = s /\ holder # Nobody /\ \A u \in Sessions \ {s} : ~Holds(u)
  BY TagAssumption DEF IInv, HolderWorks, Holds, At
<1> QED  BY <1>1, <1>2 DEF IInv, TableFollows

\* A command runs its next statement.
LEMMA WriteKeepsIInv ==
    ASSUME IInv, NEW s \in Sessions, Write(s)
    PROVE  IInv'
<1> DEFINE w == tx[s]
           v == tx'[s]
<1>1. /\ w \in Writers /\ holder = s /\ holder # Nobody
      /\ \A u \in Sessions \ {s} : ~Holds(u)
      /\ table = After(w, w.done, committed) /\ Ready(w, committed)
  BY WriterFacts DEF Write
<1>2. /\ v = [w EXCEPT !.done = w.done + 1]
      /\ \A u \in Sessions \ {s} : tx'[u] = tx[u]
  BY DEF IInv, TypeOK, Write
<1>3. /\ w.done \in 0..4 /\ w.done < Statements[w.cmd]
      /\ w.done + 1 \in 1..Statements[w.cmd]
      /\ w.cmd \in {"add", "delete", "move"}
  BY <1>1 DEF Writers, Statements, Write
<1>4. /\ v \in Writers /\ v.pc = "writing" /\ v.done = w.done + 1
      /\ v.cmd = w.cmd /\ v.tag = w.tag /\ v.node = w.node /\ v.at = w.at
  BY <1>1, <1>2, <1>3 DEF Writers
<1>5. table' = Statement(w, w.done + 1, table)
  BY DEF Write
<1>6. table' = After(v, v.done, committed)
  <2>1. table' = After(w, w.done + 1, committed)
    BY <1>1, <1>3, <1>5, AfterStep
  <2> QED  BY <1>4, <2>1, AfterOfFields
<1>7. TypeOK'
  <2>1. IsTable(table', Rows)
    BY <1>1, <1>3, <1>5, StatementTyped DEF IInv, TypeOK
  <2>2. tx' \in [Sessions -> Transactions]
    BY <1>1, <1>2, <1>4 DEF IInv, TypeOK, Transactions, Write
  <2> QED  BY <2>1, <2>2 DEF IInv, TypeOK, Write
<1>8. HolderWorks'
  <2>1. ASSUME NEW u \in Sessions PROVE Holds(u)' <=> holder' = u
    BY <1>1, <1>2, <1>4 DEF Holds, Write
  <2> QED  BY <2>1 DEF HolderWorks
<1>9. TableFollows'
  <2>1. ASSUME NEW u \in Sessions, u # s PROVE ~At(u, "writing")' /\ ~At(u, "reading")'
    BY <1>1, <1>2, <2>1 DEF At, Holds
  <2>2. ~At(s, "reading")' /\ holder' # Nobody
    BY <1>1, <1>4 DEF At, Write
  <2>3. Ready(v, committed)
    BY <1>1, <1>4 DEF Ready
  <2>4. v.done <= Statements[v.cmd]
    BY <1>3, <1>4 DEF Statements
  <2>5. committed' = committed
    BY DEF Write
  <2> QED  BY <1>6, <2>1, <2>2, <2>3, <2>4, <2>5 DEF TableFollows
<1>10. NestedSets'
  BY DEF IInv, NestedSets, Write
<1> QED  BY <1>7, <1>8, <1>9, <1>10 DEF IInv

\* The end of a transaction of s, with the table as its outcome.
LEMMA EndKeepsIInv ==
    ASSUME IInv, NEW s \in Sessions, holder = s, tx' = [tx EXCEPT ![s] = [pc |-> "idle"]],
           holder' = Nobody, lockRow' \in BOOLEAN, table' = committed',
           IsTable(committed', CommittedRows), Nested(committed')
    PROVE  IInv'
<1>1. tx'[s] = [pc |-> "idle"] /\ \A u \in Sessions \ {s} : tx'[u] = tx[u]
  BY DEF IInv, TypeOK
<1>2. ASSUME NEW u \in Sessions PROVE ~Holds(u)'
  BY <1>1 DEF IInv, HolderWorks, Holds
<1>3. TypeOK'
  <2>1. [pc |-> "idle"] \in Transactions
    BY DEF Transactions, Idle
  <2>2. IsTable(table', Rows)
    <3>1. CommittedRows \subseteq Rows
      BY DEF CommittedRows, Rows
    <3> QED  BY <3>1 DEF IsTable
  <2> QED  BY <2>1, <2>2 DEF IInv, TypeOK
<1>4. HolderWorks'
  <2>1. holder' \notin Sessions
    BY TagAssumption
  <2> QED  BY <1>2, <2>1 DEF HolderWorks
<1>5. TableFollows'
  <2>1. ASSUME NEW u \in Sessions PROVE ~At(u, "reading")' /\ ~At(u, "writing")'
    BY <1>2 DEF Holds, At
  <2> QED  BY <2>1 DEF TableFollows
<1>6. NestedSets'
  BY DEF NestedSets
<1> QED  BY <1>3, <1>4, <1>5, <1>6 DEF IInv

\* Every step of every handler keeps the invariant: one case per action.
LEMMA NextKeepsIInv ==
    ASSUME IInv, [Next]_vars
    PROVE  IInv'
<1>1. ASSUME NEW s \in Sessions, Lock(s) PROVE IInv'
  <2>1. CASE Begin(s)
    BY <2>1, WaitingKeepsIInv DEF Begin, At, Goto
  <2>2. CASE FindLock(s)
    BY <2>2, WaitingKeepsIInv DEF FindLock, At, Goto
  <2>3. CASE CreateLock(s)
    BY <2>3, LockingKeepsIInv DEF CreateLock, Goto
  <2>4. CASE CreateRefused(s)
    BY <2>4, WaitingKeepsIInv DEF CreateRefused, At, Goto
  <2>5. CASE TakeLock(s)
    BY <2>5, LockingKeepsIInv DEF TakeLock, Goto
  <2> QED  BY <1>1, <2>1, <2>2, <2>3, <2>4, <2>5 DEF Lock
<1>2. ASSUME NEW s \in Sessions, Commit(s) PROVE IInv'
  <2>1. /\ tx[s] \in Writers /\ holder = s /\ Ready(tx[s], committed)
        /\ table = After(tx[s], Statements[tx[s].cmd], committed)
    BY <1>2, WriterFacts DEF Commit
  <2>2. IsTable(committed, CommittedRows) /\ Nested(committed)
    BY DEF IInv, TypeOK, NestedSets
  <2>3. IsTable(table, CommittedRows) /\ Nested(table)
    BY <2>1, <2>2, CommandKeepsNested
  <2>4. committed' = table /\ table' = table
    BY <1>2 DEF Commit
  <2>5. IsTable(committed', CommittedRows) /\ Nested(committed') /\ table' = committed'
    BY <2>3, <2>4
  <2> QED  BY <1>2, <2>1, <2>5, EndKeepsIInv DEF Commit, Goto
<1>3. ASSUME NEW s \in Sessions, Rollback(s) PROVE IInv'
  <2>1. holder = s
    BY <1>3 DEF IInv, HolderWorks, Holds, Rollback
  <2>2. /\ IsTable(committed, CommittedRows) /\ Nested(committed) /\ lockRow \in BOOLEAN
    BY DEF IInv, TypeOK, NestedSets
  <2> QED  BY <1>3, <2>1, <2>2, EndKeepsIInv DEF Rollback, Goto
<1>4. CASE UNCHANGED vars
  BY <1>4 DEF vars, IInv, TypeOK, HolderWorks, Holds, TableFollows, At, NestedSets
<1> QED  BY <1>1, <1>2, <1>3, <1>4, ReadKeepsIInv, WriteKeepsIInv DEF Next

--------------------------------------------------------------------------------
(***************************************************************************)
(* No position is lost or used twice.                                      *)
(***************************************************************************)
Used(rows, x) == \E t \in DOMAIN rows : x = rows[t].lft \/ x = rows[t].rgt

\* The positions used are those from 1 on, as far as they go.
Dense(rows) == \E M \in Nat : \A x \in Int : Used(rows, x) <=> 1 <= x /\ x <= M

\* The place w has read is not beyond the first position that is free.
Fits(w, rows) ==
    w.cmd # "delete" => w.at = 1 \/ Used(rows, w.at - 1) \/ Used(rows, w.at)

\* What holds beside IInv.
DenseInv ==
    /\ IInv
    /\ Dense(committed)
    /\ \A s \in Sessions : At(s, "writing") => Fits(tx[s], committed)

\* Where addTag takes a position, and where deleteTag takes one that it keeps.
Opened(at, x) == IF x >= at THEN x + 2 ELSE x
Closed(L, R, x) == IF x > R THEN x - (R - L + 1) ELSE x

LEMMA AddCarries ==
    ASSUME NEW rows, IsTable(rows, CommittedRows),
           NEW w \in Writers, w.cmd = "add", Ready(w, rows)
    PROVE  /\ DOMAIN After(w, 3, rows) = DOMAIN rows \cup {w.tag}
           /\ w.at \in Nat \ {0}
           /\ After(w, 3, rows)[w.tag].lft = w.at /\ After(w, 3, rows)[w.tag].rgt = w.at + 1
           /\ \A t \in DOMAIN rows :
                 /\ After(w, 3, rows)[t].lft = Opened(w.at, rows[t].lft)
                 /\ After(w, 3, rows)[t].rgt = Opened(w.at, rows[t].rgt)
<1> DEFINE at == w.at
           new == After(w, 3, rows)
<1>1. /\ w.tag \in Tags /\ w.tag \notin DOMAIN rows
      /\ at \in Int /\ at >= 1
      /\ w.node = [lft |-> at, rgt |-> at + 1]
      /\ \A t \in DOMAIN rows : rows[t].lft # at
  BY DEF Ready, Writers
<1>2. \A t \in DOMAIN rows : rows[t].lft \in Int /\ rows[t].rgt \in Int
  BY DEF IsTable, CommittedRows
<1>3. new = Created(ShiftLft(ShiftRgt(rows, at, 2), at + 1, 2), w.tag, w.node)
  BY DEF After, After1, After2, After3, Statement, AddTag
<1>4. DOMAIN new = DOMAIN rows \cup {w.tag}
  BY <1>3 DEF Created, ShiftLft, ShiftRgt
<1>5. ASSUME NEW t \in DOMAIN rows
      PROVE  new[t].lft = Opened(at, rows[t].lft) /\ new[t].rgt = Opened(at, rows[t].rgt)
  <2> DEFINE l == rows[t].lft
             r == rows[t].rgt
  <2>1. new[t] = [lft |-> IF l >= at + 1 THEN l + 2 ELSE l, rgt |-> IF r >= at THEN r + 2 ELSE r]
    BY <1>1, <1>3 DEF Created, ShiftLft, ShiftRgt
  <2>2. l \in Int /\ r \in Int /\ l # at
    BY <1>1, <1>2
  <2> HIDE DEF l, r, new
  <2>3. (IF l >= at + 1 THEN l + 2 ELSE l) = Opened(at, l)
        /\ (IF r >= at THEN r + 2 ELSE r) = Opened(at, r)
    BY <1>1, <2>2 DEF Opened
  <2>4. new[t] = [lft |-> Opened(at, l), rgt |-> Opened(at, r)]
    BY <2>1, <2>3
  <2>5. new[t].lft = Opened(at, l) /\ new[t].rgt = Opened(at, r)
    BY <2>4
  <2> QED  BY <2>5 DEF l, r
<1>6. new[w.tag] = [lft |-> at, rgt |-> at + 1]
  BY <1>1, <1>3 DEF Created
<1> HIDE DEF new
<1>8. new[w.tag].lft = at /\ new[w.tag].rgt = at + 1
  BY <1>6
<1> QED  BY <1>1, <1>4, <1>5, <1>8 DEF new

LEMMA DeleteCarries ==
    ASSUME NEW rows, IsTable(rows, CommittedRows), Nested(rows),
           NEW w \in Writers, w.cmd = "delete", Ready(w, rows)
    PROVE  /\ DOMAIN After(w, 3, rows) =
                {t \in DOMAIN rows : ~(rows[t].lft >= w.node.lft /\ rows[t].rgt <= w.node.rgt)}
           /\ \A t \in DOMAIN After(w, 3, rows) :
                 /\ After(w, 3, rows)[t].lft = Closed(w.node.lft, w.node.rgt, rows[t].lft)
                 /\ After(w, 3, rows)[t].rgt = Closed(w.node.lft, w.node.rgt, rows[t].rgt)
<1> DEFINE L == w.node.lft
           R == w.node.rgt
           kept == {t \in DOMAIN rows : ~(rows[t].lft >= L /\ rows[t].rgt <= R)}
           new == After(w, 3, rows)
<1>1. \A t \in DOMAIN rows : rows[t].lft \in Int /\ rows[t].rgt \in Int
  BY DEF IsTable, CommittedRows
<1>2. L \in Int /\ R \in Int
  BY <1>1 DEF Ready
<1>3. new = ShiftLft(ShiftRgt(Removed(rows, w.node), R + 1, -(R - L + 1)),
                     R + 1, -(R - L + 1))
  BY DEF After, After1, After2, After3, Statement, DeleteTag, Width
<1>4. DOMAIN new = kept
  BY <1>3 DEF Removed, ShiftLft, ShiftRgt
<1>5. ASSUME NEW t \in kept
      PROVE  new[t].lft = Closed(L, R, rows[t].lft) /\ new[t].rgt = Closed(L, R, rows[t].rgt)
  <2> DEFINE l == rows[t].lft
             r == rows[t].rgt
             by == -(R - L + 1)
  <2>1. new[t] = [lft |-> IF l >= R + 1 THEN l + by ELSE l, rgt |-> IF r >= R + 1 THEN r + by ELSE r]
    BY <1>3 DEF Removed, ShiftLft, ShiftRgt
  <2>2. l \in Int /\ r \in Int
    BY <1>1
  <2>3. (IF l >= R + 1 THEN l + by ELSE l) = Closed(L, R, l)
        /\ (IF r >= R + 1 THEN r + by ELSE r) = Closed(L, R, r)
    <3> HIDE DEF l, r, L, R
    <3> QED  BY <1>2, <2>2 DEF Closed
  <2> HIDE DEF l, r, new, by, L, R
  <2>4. new[t] = [lft |-> Closed(L, R, l), rgt |-> Closed(L, R, r)]
    BY <2>1, <2>3
  <2>5. new[t].lft = Closed(L, R, l) /\ new[t].rgt = Closed(L, R, r)
    BY <2>4
  <2> QED  BY <2>5 DEF l, r
<1> HIDE DEF new
<1> QED  BY <1>4, <1>5 DEF new

\* addTag opens two positions within the range or at its end.
LEMMA AddKeepsDense ==
    ASSUME NEW rows, IsTable(rows, CommittedRows), Dense(rows),
           NEW w \in Writers, w.cmd = "add", Ready(w, rows), Fits(w, rows)
    PROVE  Dense(After(w, 3, rows))
<1> DEFINE at == w.at
           new == After(w, 3, rows)
<1>1. PICK M \in Nat : \A x \in Int : Used(rows, x) <=> 1 <= x /\ x <= M
  BY DEF Dense
<1>2. /\ DOMAIN new = DOMAIN rows \cup {w.tag}
      /\ at \in Nat \ {0}
      /\ new[w.tag].lft = at /\ new[w.tag].rgt = at + 1
      /\ \A t \in DOMAIN rows :
            new[t].lft = Opened(at, rows[t].lft) /\ new[t].rgt = Opened(at, rows[t].rgt)
  BY AddCarries
<1>3. \A t \in DOMAIN rows : rows[t].lft \in Int /\ rows[t].rgt \in Int
  BY DEF IsTable, CommittedRows
<1>4. at <= M + 1
  BY <1>1, <1>2 DEF Fits
<1> HIDE DEF new, at
<1>5. \A x \in Int : Used(new, x) <=>
          x = at \/ x = at + 1 \/ \E y \in Int : Used(rows, y) /\ x = Opened(at, y)
  BY <1>2, <1>3 DEF Used
<1>6. ASSUME NEW x \in Int
      PROVE  (x = at \/ x = at + 1 \/ \E y \in Int : Used(rows, y) /\ x = Opened(at, y))
                <=> 1 <= x /\ x <= M + 2
  <2>1. \A y \in Int : Used(rows, y) /\ x = Opened(at, y) => 1 <= x /\ x <= M + 2
    BY <1>1, <1>2 DEF Opened
  <2>2. CASE x < at /\ 1 <= x
    BY <1>1, <1>2, <1>4, <1>6, <2>2 DEF Opened
  <2>3. CASE x > at + 1 /\ x <= M + 2
    <3>1. x - 2 \in Int /\ Used(rows, x - 2) /\ x = Opened(at, x - 2)
      BY <1>1, <1>2, <1>6, <2>3 DEF Opened
    <3> QED  BY <2>1, <2>3, <1>2, <1>6, <3>1
  <2> QED  BY <1>2, <1>4, <1>6, <2>1, <2>2, <2>3
<1>7. M + 2 \in Nat /\ \A x \in Int : Used(new, x) <=> 1 <= x /\ x <= M + 2
  BY <1>1, <1>5, <1>6
<1> QED  BY <1>7 DEF Dense, new

\* deleteTag takes the positions of the subtree out of the range and closes the gap.
LEMMA DeleteKeepsDense ==
    ASSUME NEW rows, IsTable(rows, CommittedRows), Nested(rows), Dense(rows),
           NEW w \in Writers, w.cmd = "delete", Ready(w, rows)
    PROVE  Dense(After(w, 3, rows))
<1> DEFINE L == w.node.lft
           R == w.node.rgt
           kept == {t \in DOMAIN rows : ~(rows[t].lft >= L /\ rows[t].rgt <= R)}
           new == After(w, 3, rows)
<1>1. PICK M \in Nat : \A x \in Int : Used(rows, x) <=> 1 <= x /\ x <= M
  BY DEF Dense
<1>2. /\ DOMAIN new = kept
      /\ \A t \in kept :
            new[t].lft = Closed(L, R, rows[t].lft) /\ new[t].rgt = Closed(L, R, rows[t].rgt)
  BY DeleteCarries
<1>3. \A t \in DOMAIN rows :
         rows[t].lft \in Int /\ rows[t].rgt \in Int /\ rows[t].lft < rows[t].rgt
  BY DEF IsTable, CommittedRows, Nested
<1>4. w.tag \in DOMAIN rows /\ L = rows[w.tag].lft /\ R = rows[w.tag].rgt
  BY DEF Ready
<1>5. L \in Int /\ R \in Int /\ L < R /\ 1 <= L /\ R <= M
  <2>1. L \in Int /\ R \in Int /\ L < R
    BY <1>3, <1>4
  <2>2. Used(rows, L) /\ Used(rows, R)
    BY <1>4 DEF Used
  <2> QED  BY <1>1, <2>1, <2>2
\* A row that is kept has its two positions outside the gap, one that goes within it.
<1>6. ASSUME NEW t \in DOMAIN rows
      PROVE  IF t \in kept THEN /\ ~(L <= rows[t].lft /\ rows[t].lft <= R)
                                /\ ~(L <= rows[t].rgt /\ rows[t].rgt <= R)
             ELSE /\ L <= rows[t].lft /\ rows[t].lft <= R
                  /\ L <= rows[t].rgt /\ rows[t].rgt <= R
  <2>1. t = w.tag \/ Related(rows[t].lft, rows[t].rgt, L, R)
    BY <1>4, NestedIsRelated
  <2>2. /\ rows[t].lft \in Int /\ rows[t].rgt \in Int /\ rows[t].lft < rows[t].rgt
        /\ t = w.tag => rows[t].lft = L /\ rows[t].rgt = R
        /\ t \in kept <=> ~(rows[t].lft >= L /\ rows[t].rgt <= R)
    BY <1>3, <1>4
  <2> HIDE DEF L, R, kept
  <2> QED  BY <1>5, <2>1, <2>2 DEF Related
<1> HIDE DEF new, L, R, kept
<1>7. \A y \in Int : (\E t \in kept : y = rows[t].lft \/ y = rows[t].rgt)
                        <=> Used(rows, y) /\ ~(L <= y /\ y <= R)
  <2>1. kept \subseteq DOMAIN rows
    BY DEF kept
  <2> QED  BY <1>6, <2>1 DEF Used
<1>8. \A x \in Int : Used(new, x) <=>
          \E y \in Int : Used(rows, y) /\ ~(L <= y /\ y <= R) /\ x = Closed(L, R, y)
  <2>1. \A x \in Int : Used(new, x) <=>
            \E y \in Int : (\E t \in kept : y = rows[t].lft \/ y = rows[t].rgt)
                              /\ x = Closed(L, R, y)
    <3>1. kept \subseteq DOMAIN rows
      BY DEF kept
    <3> QED  BY <1>2, <1>3, <3>1 DEF Used
  <2> QED  BY <1>7, <2>1
<1>9. ASSUME NEW x \in Int
      PROVE  (\E y \in Int : Used(rows, y) /\ ~(L <= y /\ y <= R) /\ x = Closed(L, R, y))
                <=> 1 <= x /\ x <= M - (R - L + 1)
  <2>1. \A y \in Int : Used(rows, y) /\ ~(L <= y /\ y <= R) /\ x = Closed(L, R, y)
                          => 1 <= x /\ x <= M - (R - L + 1)
    BY <1>1, <1>5 DEF Closed
  <2>2. ASSUME 1 <= x, x < L
        PROVE  Used(rows, x) /\ ~(L <= x /\ x <= R) /\ x = Closed(L, R, x)
    BY <1>1, <1>5, <2>2 DEF Closed
  <2>3. ASSUME L <= x, x <= M - (R - L + 1)
        PROVE  \E y \in Int : Used(rows, y) /\ ~(L <= y /\ y <= R) /\ x = Closed(L, R, y)
    <3> DEFINE y == x + (R - L + 1)
    <3>1. y \in Int /\ 1 <= y /\ y <= M /\ ~(L <= y /\ y <= R) /\ x = Closed(L, R, y)
      BY <1>1, <1>5, <2>3 DEF Closed
    <3> HIDE DEF y
    <3> QED  BY <1>1, <3>1
  <2> QED  BY <1>1, <1>5, <2>1, <2>2, <2>3
<1>10. /\ M - (R - L + 1) \in Nat
       /\ \A x \in Int : Used(new, x) <=> 1 <= x /\ x <= M - (R - L + 1)
  <2>1. M - (R - L + 1) \in Nat
    BY <1>1, <1>5
  <2> QED  BY <1>8, <1>9, <2>1
<1> QED  BY <1>10 DEF Dense, new

\* moveTag permutes the positions of the range: what comes to y, and that nothing leaves it.
LEMMA MovedIsOnto ==
    ASSUME NEW L \in Int, NEW R \in Int, L < R, NEW at \in Int, at < L \/ R < at,
           NEW M \in Int, 1 <= L, R <= M, 1 <= at, at <= M + 1
    PROVE  /\ \A x \in Int : 1 <= x /\ x <= M => 1 <= Moved(L, R, at, x)
                                                  /\ Moved(L, R, at, x) <= M
           /\ \A y \in Int : 1 <= y /\ y <= M =>
                 \E x \in Int : 1 <= x /\ x <= M /\ y = Moved(L, R, at, x)
<1>1. ASSUME NEW x \in Int, 1 <= x, x <= M
      PROVE  1 <= Moved(L, R, at, x) /\ Moved(L, R, at, x) <= M
  BY <1>1 DEF Moved
<1>2. ASSUME NEW y \in Int, 1 <= y, y <= M
      PROVE  \E x \in Int : 1 <= x /\ x <= M /\ y = Moved(L, R, at, x)
  <2> DEFINE W == R - L + 1
             x == IF at < L
                  THEN IF at <= y /\ y < at + W THEN y - at + L
                       ELSE IF at + W <= y /\ y <= R THEN y - W ELSE y
                  ELSE IF at - W <= y /\ y < at THEN y - at + L + W
                       ELSE IF L <= y /\ y < at - W THEN y + W ELSE y
  <2>1. x \in Int /\ 1 <= x /\ x <= M
    BY <1>2
  <2>2. y = Moved(L, R, at, x)
    BY <1>2 DEF Moved
  <2> HIDE DEF x
  <2> QED  BY <2>1, <2>2
<1> QED  BY <1>1, <1>2

LEMMA MoveKeepsDense ==
    ASSUME NEW rows, IsTable(rows, CommittedRows), Nested(rows), Dense(rows),
           NEW w \in Writers, w.cmd = "move", Ready(w, rows), Fits(w, rows)
    PROVE  Dense(After(w, 5, rows))
<1> DEFINE L == w.node.lft
           R == w.node.rgt
           at == w.at
           new == After(w, 5, rows)
<1>1. PICK M \in Nat : \A x \in Int : Used(rows, x) <=> 1 <= x /\ x <= M
  BY DEF Dense
<1>2. new = [t \in DOMAIN rows |-> [lft |-> Moved(L, R, at, rows[t].lft),
                                   rgt |-> Moved(L, R, at, rows[t].rgt)]]
  BY MoveCarries
<1>3. \A t \in DOMAIN rows :
         rows[t].lft \in Int /\ rows[t].rgt \in Int /\ rows[t].lft < rows[t].rgt
  BY DEF IsTable, CommittedRows, Nested
<1>4. w.tag \in DOMAIN rows /\ L = rows[w.tag].lft /\ R = rows[w.tag].rgt
      /\ at \in Int /\ at >= 1 /\ (at < L \/ R < at)
  BY DEF Ready, Writers
<1>5. L \in Int /\ R \in Int /\ L < R /\ 1 <= L /\ R <= M
  <2>1. L \in Int /\ R \in Int /\ L < R
    BY <1>3, <1>4
  <2>2. Used(rows, L) /\ Used(rows, R)
    BY <1>4 DEF Used
  <2> QED  BY <1>1, <2>1, <2>2
<1>6. at <= M + 1
  BY <1>1, <1>4 DEF Fits
<1> HIDE DEF new, L, R, at
<1>7. \A x \in Int : Used(new, x) <=> \E y \in Int : Used(rows, y) /\ x = Moved(L, R, at, y)
  <2>1. \A t \in DOMAIN rows : new[t].lft = Moved(L, R, at, rows[t].lft)
                                /\ new[t].rgt = Moved(L, R, at, rows[t].rgt)
    BY <1>2
  <2>2. DOMAIN new = DOMAIN rows
    BY <1>2
  <2> QED  BY <1>3, <2>1, <2>2 DEF Used
<1>8. \A x \in Int : Used(new, x) <=> 1 <= x /\ x <= M
  <2>1. /\ \A x \in Int : 1 <= x /\ x <= M => 1 <= Moved(L, R, at, x)
                                               /\ Moved(L, R, at, x) <= M
        /\ \A y \in Int : 1 <= y /\ y <= M =>
              \E x \in Int : 1 <= x /\ x <= M /\ y = Moved(L, R, at, x)
    <3>1. /\ M \in Int /\ at \in Int /\ 1 <= at
          /\ at < L \/ R < at
      BY <1>1, <1>4
    <3> QED  BY <1>5, <1>6, <3>1, MovedIsOnto
  <2> QED  BY <1>1, <1>7, <2>1
<1> QED  BY <1>8 DEF Dense, new

\* A command that has run all its statements leaves no gap and uses no position twice.
LEMMA CommandKeepsDense ==
    ASSUME NEW rows, IsTable(rows, CommittedRows), Nested(rows), Dense(rows),
           NEW w \in Writers, Ready(w, rows), Fits(w, rows)
    PROVE  Dense(After(w, Statements[w.cmd], rows))
<1>1. w.cmd = "add" \/ w.cmd = "delete" \/ w.cmd = "move"
  BY DEF Writers
<1> QED  BY <1>1, AddKeepsDense, DeleteKeepsDense, MoveKeepsDense DEF Statements

\* Every tag has a lft and a rgt that nobody else has: twice as many positions as tags.
LEMMA DenseIsCounted ==
    ASSUME NEW rows, IsTable(rows, CommittedRows), Nested(rows), Dense(rows)
    PROVE  {rows[t].lft : t \in DOMAIN rows} \cup {rows[t].rgt : t \in DOMAIN rows}
              = 1..(2 * Cardinality(DOMAIN rows))
<1> DEFINE lfts == {rows[t].lft : t \in DOMAIN rows}
           rgts == {rows[t].rgt : t \in DOMAIN rows}
           Lft == [t \in DOMAIN rows |-> rows[t].lft]
           Rgt == [t \in DOMAIN rows |-> rows[t].rgt]
<1>1. PICK M \in Nat : \A x \in Int : Used(rows, x) <=> 1 <= x /\ x <= M
  BY DEF Dense
<1>2. \A t \in DOMAIN rows :
         rows[t].lft \in Int /\ rows[t].rgt \in Int /\ rows[t].lft < rows[t].rgt
  BY DEF IsTable, CommittedRows, Nested
<1>3. \A t, u \in DOMAIN rows :
         t # u => Related(rows[t].lft, rows[t].rgt, rows[u].lft, rows[u].rgt)
  BY NestedIsRelated
<1>4. \A t, u \in DOMAIN rows :
         /\ rows[t].lft # rows[u].rgt
         /\ t # u => rows[t].lft # rows[u].lft /\ rows[t].rgt # rows[u].rgt
  BY <1>2, <1>3 DEF Related
<1>5. lfts \cup rgts = 1..M
  <2>1. \A x \in lfts \cup rgts : x \in Int /\ Used(rows, x)
    BY <1>2 DEF Used
  <2>2. \A x \in Int : Used(rows, x) => x \in lfts \cup rgts
    BY DEF Used
  <2> HIDE DEF lfts, rgts
  <2> QED  BY <1>1, <2>1, <2>2
<1>6. lfts \cap rgts = {}
  BY <1>4
<1>7. Lft \in Bijection(DOMAIN rows, lfts) /\ Rgt \in Bijection(DOMAIN rows, rgts)
  BY <1>4 DEF Bijection, Injection, Surjection, IsInjective
<1> HIDE DEF lfts, rgts, Lft, Rgt
<1>8. /\ IsFiniteSet(1..M) /\ Cardinality(1..M) = M
      /\ IsFiniteSet(lfts) /\ IsFiniteSet(rgts)
  <2>1. IsFiniteSet(1..M) /\ Cardinality(1..M) = M
    BY <1>1, FS_Interval
  <2>2. lfts \in SUBSET (1..M) /\ rgts \in SUBSET (1..M)
    BY <1>5
  <2> QED  BY <2>1, <2>2, FS_Subset
<1>9. IsFiniteSet(DOMAIN rows)
  <2>1. Lft \in Injection(DOMAIN rows, lfts)
    BY <1>7 DEF Bijection
  <2> QED  BY <1>8, <2>1, FS_Injection
<1>10. Cardinality(lfts) = Cardinality(DOMAIN rows) /\ Cardinality(rgts) = Cardinality(DOMAIN rows)
  <2>1. ExistsBijection(DOMAIN rows, lfts) /\ ExistsBijection(DOMAIN rows, rgts)
    BY <1>7 DEF ExistsBijection
  <2> QED  BY <1>9, <2>1, FS_Bijection
<1>11. Cardinality(lfts \cup rgts) = Cardinality(lfts) + Cardinality(rgts)
  <2>1. Cardinality(lfts \cup rgts) =
          Cardinality(lfts) + Cardinality(rgts) - Cardinality(lfts \cap rgts)
    BY <1>8, FS_Union
  <2>2. Cardinality(lfts \cap rgts) = 0
    BY <1>6, FS_EmptySet
  <2>3. Cardinality(lfts) \in Nat /\ Cardinality(rgts) \in Nat
    BY <1>8, FS_CardinalityType
  <2> QED  BY <2>1, <2>2, <2>3
<1>12. Cardinality(DOMAIN rows) \in Nat
  BY <1>9, FS_CardinalityType
<1>13. M = 2 * Cardinality(DOMAIN rows)
  <2>1. Cardinality(lfts \cup rgts) = M
    BY <1>5, <1>8
  <2>2. Cardinality(lfts \cup rgts) = Cardinality(DOMAIN rows) + Cardinality(DOMAIN rows)
    BY <1>10, <1>11
  <2> QED  BY <1>1, <1>12, <2>1, <2>2
<1> QED  BY <1>5, <1>13 DEF lfts, rgts

\* A step of s that reads a place keeps the committed rows.
LEMMA ReadFits ==
    ASSUME DenseInv, NEW s \in Sessions, Read(s)
    PROVE  /\ committed' = committed
           /\ \A u \in Sessions \ {s} : tx'[u] = tx[u]
           /\ Fits(tx'[s], committed)
<1>1. ASSUME NEW cmd, NEW t, NEW node, NEW at, Start(s, cmd, t, node, at),
             cmd # "delete" => at = 1 \/ Used(committed, at - 1) \/ Used(committed, at)
      PROVE  /\ committed' = committed
             /\ \A u \in Sessions \ {s} : tx'[u] = tx[u]
             /\ Fits(tx'[s], committed)
  <2>1. /\ committed' = committed
        /\ tx'[s] = [pc |-> "writing", cmd |-> cmd, tag |-> t, node |-> node,
                     at |-> at, done |-> 0]
        /\ \A u \in Sessions \ {s} : tx'[u] = tx[u]
    BY <1>1 DEF DenseInv, IInv, TypeOK, Start
  <2> QED  BY <1>1, <2>1 DEF Fits
<1>2. ASSUME NEW p \in DOMAIN committed \cup {Root}, NEW at \in Places(p)
      PROVE  at = 1 \/ Used(committed, at - 1) \/ Used(committed, at)
  <2>1. \A t \in DOMAIN committed : committed[t].rgt \in Int
    BY CommittedPositions DEF DenseInv
  <2>2. CASE p = Root
    <3>1. at = 1 \/ \E t \in DOMAIN committed : at = committed[t].rgt + 1
      BY <2>2 DEF Places
    <3> QED  BY <2>1, <3>1 DEF Used
  <2>3. CASE p # Root
    BY <2>3 DEF Places, Used
  <2> QED  BY <2>2, <2>3
<1>3. ASSUME NEW t \in Tags, NEW p \in Tags \cup {Root}, ReadAdd(s, t, p) \/ ReadMove(s, t, p)
      PROVE  /\ committed' = committed
             /\ \A u \in Sessions \ {s} : tx'[u] = tx[u]
             /\ Fits(tx'[s], committed)
  BY <1>1, <1>2, <1>3 DEF ReadAdd, ReadMove
<1>4. ASSUME NEW t \in Tags, ReadDelete(s, t)
      PROVE  /\ committed' = committed
             /\ \A u \in Sessions \ {s} : tx'[u] = tx[u]
             /\ Fits(tx'[s], committed)
  BY <1>1, <1>4 DEF ReadDelete
<1> QED  BY <1>3, <1>4 DEF Read

LEMMA NextKeepsDense ==
    ASSUME DenseInv, [Next]_vars
    PROVE  DenseInv'
<1>1. IInv /\ IInv'
  BY NextKeepsIInv DEF DenseInv
<1>2. ASSUME committed' = committed,
             \A u \in Sessions : At(u, "writing")' => Fits(tx'[u], committed)
      PROVE  DenseInv'
  BY <1>1, <1>2 DEF DenseInv
<1>3. ASSUME NEW s \in Sessions, Lock(s) PROVE DenseInv'
  <2>1. /\ committed' = committed
        /\ ~At(s, "writing")' /\ \A u \in Sessions \ {s} : tx'[u] = tx[u]
    BY <1>1, <1>3 DEF IInv, TypeOK, Lock, Begin, FindLock, CreateLock, CreateRefused, TakeLock,
                      Goto, At
  <2> QED  BY <1>2, <2>1 DEF DenseInv, At
<1>4. ASSUME NEW s \in Sessions, Read(s) PROVE DenseInv'
  <2>1. /\ committed' = committed
        /\ \A u \in Sessions \ {s} : tx'[u] = tx[u]
        /\ Fits(tx'[s], committed)
    BY <1>4, ReadFits
  <2> QED  BY <1>2, <2>1 DEF DenseInv, At
<1>5. ASSUME NEW s \in Sessions, Write(s) PROVE DenseInv'
  <2>1. /\ committed' = committed /\ At(s, "writing") /\ tx[s] \in Writers
        /\ tx'[s] = [tx[s] EXCEPT !.done = @ + 1]
        /\ \A u \in Sessions \ {s} : tx'[u] = tx[u]
    BY <1>1, <1>5, WriterFacts DEF IInv, TypeOK, Write
  <2>2. tx'[s].cmd = tx[s].cmd /\ tx'[s].at = tx[s].at
    BY <2>1 DEF Writers
  <2>3. Fits(tx'[s], committed)
    BY <2>1, <2>2 DEF DenseInv, Fits
  <2> QED  BY <1>2, <2>1, <2>3 DEF DenseInv, At
<1>6. ASSUME NEW s \in Sessions, Commit(s) PROVE DenseInv'
  <2>1. /\ tx[s] \in Writers /\ Ready(tx[s], committed)
        /\ committed' = After(tx[s], Statements[tx[s].cmd], committed)
        /\ Fits(tx[s], committed)
    BY <1>1, <1>6, WriterFacts DEF Commit, DenseInv
  <2>2. IsTable(committed, CommittedRows) /\ Nested(committed) /\ Dense(committed)
    BY DEF DenseInv, IInv, TypeOK, NestedSets
  <2>3. Dense(committed')
    BY <2>1, <2>2, CommandKeepsDense
  <2>4. holder' = Nobody
    BY <1>6 DEF Commit
  <2>5. \A u \in Sessions : ~At(u, "writing")'
    BY <1>1, <2>4, TagAssumption DEF IInv, HolderWorks, Holds, At
  <2> QED  BY <1>1, <2>3, <2>5 DEF DenseInv
<1>7. ASSUME NEW s \in Sessions, Rollback(s) PROVE DenseInv'
  <2>1. committed' = committed /\ holder' = Nobody
    BY <1>7 DEF Rollback
  <2>2. \A u \in Sessions : ~At(u, "writing")'
    BY <1>1, <2>1, TagAssumption DEF IInv, HolderWorks, Holds, At
  <2> QED  BY <1>2, <2>1, <2>2
<1>8. CASE UNCHANGED vars
  BY <1>2, <1>8 DEF DenseInv, vars, At
<1> QED  BY <1>3, <1>4, <1>5, <1>6, <1>7, <1>8 DEF Next

LEMMA InitEstablishesDense == Init => DenseInv
<1> SUFFICES ASSUME Init PROVE DenseInv
  OBVIOUS
<1>1. DOMAIN committed = {}
  BY DEF Init
<1>2. 0 \in Nat /\ \A x \in Int : Used(committed, x) <=> 1 <= x /\ x <= 0
  BY <1>1 DEF Used
<1>3. Dense(committed)
  BY <1>2 DEF Dense
<1>4. \A s \in Sessions : ~At(s, "writing")
  BY DEF Init, At, Idle
<1> QED  BY <1>3, <1>4, InitEstablishesIInv DEF DenseInv

--------------------------------------------------------------------------------
(***************************************************************************)
(* The theorems.                                                           *)
(***************************************************************************)
\* The inductive invariant: the table is always the committed rows with the first
\* statements of the holder's command applied to them, and what it has read stays true.
THEOREM TagInvariant == Spec => []IInv
  BY InitEstablishesIInv, NextKeepsIInv, PTL DEF Spec

\* Positions are integers, the committed ones positive, whatever commands overlap.
THEOREM TypeCorrect == Spec => []TypeOK
<1>1. IInv => TypeOK
  BY DEF IInv
<1> QED  BY <1>1, TagInvariant, PTL

\* The commands of tag.prisma.repository.impl.ts leave a nested set at every commit, for
\* any tags and any number of overlapping commands.
THEOREM TagsAreNested == Spec => []NestedSets
<1>1. IInv => NestedSets
  BY DEF IInv
<1> QED  BY <1>1, TagInvariant, PTL

\* No position is lost, and no place that a command has read lies beyond the last one.
THEOREM DenseInvariant == Spec => []DenseInv
  BY InitEstablishesDense, NextKeepsDense, PTL DEF Spec

\* The positions are 1 to twice the number of tags at every commit: no command leaves a
\* gap behind or uses a position twice.
THEOREM PositionsAreDense == Spec => []PositionsDense
<1>1. DenseInv => PositionsDense
  BY DenseIsCounted DEF DenseInv, IInv, TypeOK, NestedSets, PositionsDense
<1> QED  BY <1>1, DenseInvariant, PTL
--------------------------------------------------------------------------------
(***************************************************************************)
(* The commands implement those of TagOrder.                               *)
(***************************************************************************)
\* The place that a handler has read is that of a last child of some parent, which is not
\* in the subtree that it moves.
Chosen(w) ==
    \E p \in DOMAIN committed \cup {Root} :
        w.at \in Places(p) /\ (w.cmd = "move" => Movable(w.tag, p))

OrderInv ==
    /\ IInv
    /\ \A s \in Sessions : At(s, "writing") /\ tx[s].cmd # "delete" => Chosen(tx[s])

\* The place below p lies inside the tags that hold a child of p, behind p's earlier
\* tags and in front of those that p stands before.
LEMMA PlaceSplits ==
    ASSUME IInv, NEW p \in DOMAIN committed \cup {Root}, NEW at \in Places(p),
           NEW x \in DOMAIN committed
    PROVE  /\ at \in Int /\ committed[x].lft # at
           /\ x \in Order!Holding(p) <=> committed[x].lft < at /\ at <= committed[x].rgt
           /\ p \in Earlier(x) <=> at < committed[x].lft
<1>1. at \in Int /\ committed[x].lft # at
  BY PlaceIsFree
<1>2. \A t \in DOMAIN committed :
         t \in Tags /\ committed[t].lft \in Int /\ committed[t].rgt \in Int
         /\ committed[t].lft < committed[t].rgt
  BY CommittedPositions
<1>3. CASE p = Root
  <2>1. \A t \in DOMAIN committed : committed[t].rgt < at
    BY <1>3 DEF Places
  <2>2. x \notin Order!Holding(p) /\ p \notin Earlier(x)
    BY <1>2, <1>3, TagAssumption DEF Order!Holding, Earlier
  <2> QED  BY <1>1, <1>2, <2>1, <2>2
<1>4. CASE p # Root
  <2>1. p \in DOMAIN committed /\ at = committed[p].rgt
    BY <1>4 DEF Places
  <2>2. x \in Order!Holding(p) <=> x = p \/ Inside(committed, p, x)
    BY <1>4, <2>1 DEF Order!Holding, Over
  <2>3. p \in Earlier(x) <=> committed[p].rgt < committed[x].lft
    BY <2>1 DEF Earlier
  <2>4. x = p \/ Related(committed[x].lft, committed[x].rgt, committed[p].lft, committed[p].rgt)
    BY <2>1, CommittedPositions
  <2> QED  BY <1>1, <1>2, <2>1, <2>2, <2>3, <2>4 DEF Related, Inside
<1> QED  BY <1>3, <1>4

\* So a tag stands before a last child of p when it ends before that place.
LEMMA PlaceBefore ==
    ASSUME IInv, NEW p \in DOMAIN committed \cup {Root}, NEW at \in Places(p),
           NEW rest \in SUBSET DOMAIN committed, NEW x
    PROVE  x \in Order!Before(rest, p) <=> x \in rest /\ committed[x].rgt < at
<1>1. CASE x \in rest
  <2>1. /\ at \in Int /\ committed[x].lft # at
        /\ x \in Order!Holding(p) <=> committed[x].lft < at /\ at <= committed[x].rgt
        /\ p \in Earlier(x) <=> at < committed[x].lft
    BY <1>1, PlaceSplits
  <2>2. /\ committed[x].lft \in Int /\ committed[x].rgt \in Int
        /\ committed[x].lft < committed[x].rgt
    BY <1>1, CommittedPositions
  <2>3. x \in Order!Before(rest, p) <=> x \notin Order!Holding(p) /\ p \notin Earlier(x)
    BY <1>1 DEF Order!Before
  <2> QED  BY <1>1, <2>1, <2>2, <2>3
<1>2. CASE x \notin rest
  BY <1>2 DEF Order!Before
<1> QED  BY <1>1, <1>2

\* Opened keeps the order of positions, and nothing goes to the two that it opens.
LEMMA OpenedOrders ==
    ASSUME NEW at \in Int, NEW l \in Int, NEW m \in Int
    PROVE  /\ Opened(at, l) \in Int
           /\ Opened(at, l) < Opened(at, m) <=> l < m
           /\ Opened(at, l) < at <=> l < at
           /\ at + 1 < Opened(at, l) <=> at <= l
  BY DEF Opened

\* addTag makes a last child of the parent that was asked for.
LEMMA AddImplements ==
    ASSUME IInv, NEW w \in Writers, w.cmd = "add", Ready(w, committed),
           NEW p \in DOMAIN committed \cup {Root}, w.at \in Places(p),
           committed' = After(w, 3, committed)
    PROVE  w.tag \in Tags \ DOMAIN committed /\ Order!Add(w.tag, p)
<1> DEFINE t  == w.tag
           at == w.at
<1>1. /\ DOMAIN committed' = DOMAIN committed \cup {t}
      /\ at \in Int
      /\ committed'[t].lft = at /\ committed'[t].rgt = at + 1
      /\ \A x \in DOMAIN committed :
            /\ committed'[x].lft = Opened(at, committed[x].lft)
            /\ committed'[x].rgt = Opened(at, committed[x].rgt)
  <2>1. IsTable(committed, CommittedRows)
    BY DEF IInv, TypeOK
  <2>2. /\ DOMAIN After(w, 3, committed) = DOMAIN committed \cup {t} /\ at \in Nat \ {0}
        /\ After(w, 3, committed)[t].lft = at /\ After(w, 3, committed)[t].rgt = at + 1
        /\ \A x \in DOMAIN committed :
              /\ After(w, 3, committed)[x].lft = Opened(at, committed[x].lft)
              /\ After(w, 3, committed)[x].rgt = Opened(at, committed[x].rgt)
    BY <2>1, AddCarries
  <2> QED  BY <2>2
<1>2. t \in Tags \ DOMAIN committed
  BY DEF Ready, Writers
<1>3. \A x \in DOMAIN committed : /\ committed[x].lft \in Int /\ committed[x].rgt \in Int
                                  /\ committed[x].lft < committed[x].rgt
  BY CommittedPositions
<1> HIDE DEF t, at
<1>4. ASSUME NEW x \in DOMAIN committed, NEW y \in DOMAIN committed
      PROVE  /\ Inside(committed', x, y) <=> Inside(committed, x, y)
             /\ committed'[x].rgt < committed'[y].lft <=> committed[x].rgt < committed[y].lft
  <2>1. \A l, m \in Int : Opened(at, l) < Opened(at, m) <=> l < m
    BY <1>1, OpenedOrders
  <2> QED  BY <1>1, <1>3, <2>1 DEF Inside
<1>5. ASSUME NEW y \in DOMAIN committed
      PROVE  /\ Inside(committed', t, y) <=> y \in Order!Holding(p)
             /\ ~Inside(committed', y, t)
             /\ committed'[y].rgt < committed'[t].lft <=> y \in Order!Before(DOMAIN committed, p)
             /\ committed'[t].rgt < committed'[y].lft <=> p \in Earlier(y)
  <2>1. /\ committed[y].lft # at
        /\ y \in Order!Holding(p) <=> committed[y].lft < at /\ at <= committed[y].rgt
        /\ p \in Earlier(y) <=> at < committed[y].lft
    BY PlaceSplits DEF at
  <2>2. y \in Order!Before(DOMAIN committed, p) <=> committed[y].rgt < at
    BY PlaceBefore DEF at
  <2> DEFINE l == committed[y].lft
             r == committed[y].rgt
  <2>3. committed'[y].lft = Opened(at, l) /\ committed'[y].rgt = Opened(at, r)
    BY <1>1
  <2>4. l \in Int /\ r \in Int /\ l < r
    BY <1>3
  <2> HIDE DEF l, r
  <2>5. /\ Inside(committed', t, y) <=> l < at /\ at <= r
        /\ ~Inside(committed', y, t)
        /\ committed'[y].rgt < committed'[t].lft <=> r < at
        /\ committed'[t].rgt < committed'[y].lft <=> at <= l
    BY <1>1, <2>3, <2>4, OpenedOrders DEF Inside, Opened
  <2> QED  BY <1>1, <2>1, <2>2, <2>4, <2>5 DEF l, r
<1>6. ~Inside(committed', t, t) /\ ~(committed'[t].rgt < committed'[t].lft)
  BY <1>1 DEF Inside
<1>7. Order!Holding(p) \subseteq DOMAIN committed
  BY DEF Order!Holding, Over
<1>8. ASSUME NEW x \in DOMAIN committed'
      PROVE  Over(x)' = IF x = t THEN Order!Holding(p) ELSE Over(x)
  <2>1. CASE x = t
    BY <1>1, <1>5, <1>6, <1>7, <2>1 DEF Over
  <2>2. CASE x # t
    BY <1>1, <1>4, <1>5, <2>2 DEF Over
  <2> QED  BY <2>1, <2>2
<1>9. ASSUME NEW x \in DOMAIN committed'
      PROVE  Earlier(x)' = IF x = t THEN Order!Before(DOMAIN committed, p)
                           ELSE Earlier(x) \cup (IF p \in Earlier(x) THEN {t} ELSE {})
  <2>1. CASE x = t
    <3>1. Order!Before(DOMAIN committed, p) \subseteq DOMAIN committed
      BY DEF Order!Before
    <3> QED  BY <1>1, <1>5, <1>6, <2>1, <3>1 DEF Earlier
  <2>2. CASE x # t
    <3>1. x \in DOMAIN committed
      BY <1>1, <2>2
    <3>2. \A u : u \in Earlier(x)' <=> u \in Earlier(x) \/ (u = t /\ p \in Earlier(x))
      BY <1>1, <1>2, <1>4, <1>5, <3>1 DEF Earlier
    <3> QED  BY <2>2, <3>2
  <2> QED  BY <2>1, <2>2
<1>10. Order!Add(t, p)
  BY <1>1, <1>2, <1>8, <1>9 DEF Order!Add
<1> QED  BY <1>2, <1>10 DEF t

\* A tag's own interval and those inside it are what a command takes to be its subtree.
LEMMA SubtreeIsInterval ==
    ASSUME IInv, NEW t \in DOMAIN committed, NEW x \in DOMAIN committed
    PROVE  /\ x \in Order!Below(t) <=>
                 committed[t].lft <= committed[x].lft /\ committed[x].rgt <= committed[t].rgt
           /\ x \notin Order!Below(t) =>
                 /\ committed[x].lft < committed[t].lft \/ committed[t].rgt < committed[x].lft
                 /\ committed[x].rgt < committed[t].lft \/ committed[t].rgt < committed[x].rgt
<1>1. x \in Order!Below(t) <=> x = t \/ Inside(committed, x, t)
  BY DEF Order!Below, Over
<1>2. /\ committed[t].lft \in Int /\ committed[t].rgt \in Int /\ committed[t].lft < committed[t].rgt
      /\ committed[x].lft \in Int /\ committed[x].rgt \in Int /\ committed[x].lft < committed[x].rgt
      /\ x = t \/ Related(committed[x].lft, committed[x].rgt, committed[t].lft, committed[t].rgt)
  BY CommittedPositions
<1> QED  BY <1>1, <1>2 DEF Inside, Related

\* Closed keeps the order of the positions outside the gap.
LEMMA ClosedOrders ==
    ASSUME NEW L \in Int, NEW R \in Int, L < R, NEW l \in Int, NEW m \in Int,
           l < L \/ R < l, m < L \/ R < m
    PROVE  Closed(L, R, l) < Closed(L, R, m) <=> l < m
  BY DEF Closed

\* deleteTag takes the subtree away and changes nothing else.
LEMMA DeleteImplements ==
    ASSUME IInv, NEW w \in Writers, w.cmd = "delete", Ready(w, committed),
           committed' = After(w, 3, committed)
    PROVE  w.tag \in DOMAIN committed /\ Order!Delete(w.tag)
<1> DEFINE t == w.tag
           L == committed[t].lft
           R == committed[t].rgt
           rest == DOMAIN committed \ Order!Below(t)
<1>1. t \in DOMAIN committed /\ w.node.lft = L /\ w.node.rgt = R
  BY DEF Ready
<1>2. /\ DOMAIN committed' = {x \in DOMAIN committed : ~(committed[x].lft >= L /\ committed[x].rgt <= R)}
      /\ \A x \in DOMAIN committed' : /\ committed'[x].lft = Closed(L, R, committed[x].lft)
                                      /\ committed'[x].rgt = Closed(L, R, committed[x].rgt)
  <2>1. IsTable(committed, CommittedRows) /\ Nested(committed)
    BY DEF IInv, TypeOK, NestedSets
  <2>2. /\ DOMAIN After(w, 3, committed) =
              {x \in DOMAIN committed : ~(committed[x].lft >= w.node.lft /\ committed[x].rgt <= w.node.rgt)}
        /\ \A x \in DOMAIN After(w, 3, committed) :
              /\ After(w, 3, committed)[x].lft = Closed(w.node.lft, w.node.rgt, committed[x].lft)
              /\ After(w, 3, committed)[x].rgt = Closed(w.node.lft, w.node.rgt, committed[x].rgt)
    BY <2>1, DeleteCarries
  <2> QED  BY <1>1, <2>2
<1>3. \A x \in DOMAIN committed : /\ committed[x].lft \in Int /\ committed[x].rgt \in Int
                                  /\ committed[x].lft < committed[x].rgt
  BY CommittedPositions
<1>4. L \in Int /\ R \in Int /\ L < R
  BY <1>1, <1>3
<1> HIDE DEF L, R
<1>5. DOMAIN committed' = rest
  <2>1. \A x \in DOMAIN committed :
           x \in Order!Below(t) <=> L <= committed[x].lft /\ committed[x].rgt <= R
    BY <1>1, SubtreeIsInterval DEF L, R
  <2> QED  BY <1>2, <1>3, <1>4, <2>1
<1>6. \A x \in rest : /\ committed[x].lft < L \/ R < committed[x].lft
                      /\ committed[x].rgt < L \/ R < committed[x].rgt
  BY <1>1, SubtreeIsInterval DEF L, R
<1> HIDE DEF rest
<1>7. ASSUME NEW x \in rest, NEW y \in rest
      PROVE  /\ Inside(committed', x, y) <=> Inside(committed, x, y)
             /\ committed'[x].rgt < committed'[y].lft <=> committed[x].rgt < committed[y].lft
  <2>1. x \in DOMAIN committed /\ y \in DOMAIN committed
    BY DEF rest
  <2>2. /\ Closed(L, R, committed[x].lft) < Closed(L, R, committed[y].lft)
              <=> committed[x].lft < committed[y].lft
        /\ Closed(L, R, committed[y].lft) < Closed(L, R, committed[x].lft)
              <=> committed[y].lft < committed[x].lft
        /\ Closed(L, R, committed[x].rgt) < Closed(L, R, committed[y].rgt)
              <=> committed[x].rgt < committed[y].rgt
        /\ Closed(L, R, committed[x].rgt) < Closed(L, R, committed[y].lft)
              <=> committed[x].rgt < committed[y].lft
    BY <1>3, <1>4, <1>6, <2>1, ClosedOrders
  <2> QED  BY <1>2, <1>5, <2>2 DEF Inside
<1>8. ASSUME NEW x \in rest  PROVE Over(x) \subseteq rest
  <2> SUFFICES ASSUME NEW u \in Over(x), u \in Order!Below(t)  PROVE FALSE
    BY DEF rest, Over
  <2>1. u \in DOMAIN committed /\ Inside(committed, x, u) /\ x \in DOMAIN committed
    BY DEF Over, rest
  <2>2. L <= committed[u].lft /\ committed[u].rgt <= R
    BY <1>1, <2>1, SubtreeIsInterval DEF L, R
  <2>3. L <= committed[x].lft /\ committed[x].rgt <= R
    BY <1>3, <1>4, <2>1, <2>2 DEF Inside
  <2> QED  BY <1>1, <2>1, <2>3, SubtreeIsInterval DEF L, R, rest
<1>9. ASSUME NEW x \in rest  PROVE Over(x)' = Over(x)
  <2>1. \A u : u \in Over(x)' <=> u \in rest /\ Inside(committed', x, u)
    BY <1>5 DEF Over
  <2>2. \A u : u \in Over(x) <=> u \in rest /\ Inside(committed, x, u)
    BY <1>8 DEF Over, rest
  <2>3. \A u : u \in Over(x)' <=> u \in Over(x)
    BY <1>7, <2>1, <2>2
  <2> QED  BY <2>3
<1>10. ASSUME NEW x \in rest  PROVE Earlier(x)' = Earlier(x) \ Order!Below(t)
  <2>1. \A u : u \in Earlier(x)' <=> u \in rest /\ committed'[u].rgt < committed'[x].lft
    BY <1>5 DEF Earlier
  <2>2. \A u : u \in Earlier(x) \ Order!Below(t) <=> u \in rest /\ committed[u].rgt < committed[x].lft
    BY DEF Earlier, rest
  <2>3. \A u : u \in Earlier(x)' <=> u \in Earlier(x) \ Order!Below(t)
    BY <1>7, <2>1, <2>2
  <2> QED  BY <2>3
<1>11. Order!Delete(t)
  <2>1. \A x \in rest : x \in DOMAIN committed
    BY DEF rest
  <2> QED  BY <1>5, <1>9, <1>10, <2>1 DEF Order!Delete, rest
<1> QED  BY <1>1, <1>11 DEF t

\* A position that is not of the subtree.
Outside(L, R, l) == l < L \/ R < l

\* Moved keeps the order of the positions of the subtree.
LEMMA MovedKeepsInner ==
    ASSUME NEW L \in Int, NEW R \in Int, L < R, NEW at \in Int, Outside(L, R, at),
           NEW l \in Int, L <= l, l <= R, NEW m \in Int, L <= m, m <= R
    PROVE  Moved(L, R, at, l) < Moved(L, R, at, m) <=> l < m
  BY SMTT(60) DEF Moved, Outside

\* Moved keeps the order of the positions that are not of the subtree.
LEMMA MovedKeepsOuter ==
    ASSUME NEW L \in Int, NEW R \in Int, L < R, NEW at \in Int, Outside(L, R, at),
           NEW l \in Int, Outside(L, R, l), NEW m \in Int, Outside(L, R, m)
    PROVE  Moved(L, R, at, l) < Moved(L, R, at, m) <=> l < m
  BY SMTT(60) DEF Moved, Outside

\* A position of the subtree goes behind the others before the place and in front of the
\* others behind it.
LEMMA MovedSplits ==
    ASSUME NEW L \in Int, NEW R \in Int, L < R, NEW at \in Int, Outside(L, R, at),
           NEW l \in Int, L <= l, l <= R, NEW m \in Int, Outside(L, R, m)
    PROVE  /\ Moved(L, R, at, l) < Moved(L, R, at, m) <=> at <= m
           /\ Moved(L, R, at, m) < Moved(L, R, at, l) <=> m < at
  BY SMTT(60) DEF Moved, Outside

\* moveTag makes the subtree a last child of the parent that was asked for, and changes
\* nothing else.
LEMMA MoveImplements ==
    ASSUME IInv, NEW w \in Writers, w.cmd = "move", Ready(w, committed),
           NEW p \in DOMAIN committed \cup {Root}, w.at \in Places(p), Movable(w.tag, p),
           committed' = After(w, 5, committed)
    PROVE  /\ w.tag \in DOMAIN committed
           /\ p \in (DOMAIN committed \ Order!Below(w.tag)) \cup {Root}
           /\ Order!Move(w.tag, p)
<1> DEFINE t  == w.tag
           at == w.at
           L  == committed[t].lft
           R  == committed[t].rgt
           subtree == Order!Below(t)
           rest    == DOMAIN committed \ subtree
<1>1. /\ t \in DOMAIN committed /\ w.node.lft = L /\ w.node.rgt = R
      /\ at \in Int /\ (at < L \/ R < at)
  BY DEF Ready, Writers
<1>2. /\ DOMAIN committed' = DOMAIN committed
      /\ \A x \in DOMAIN committed : /\ committed'[x].lft = Moved(L, R, at, committed[x].lft)
                                     /\ committed'[x].rgt = Moved(L, R, at, committed[x].rgt)
  <2>1. IsTable(committed, CommittedRows) /\ Nested(committed)
    BY DEF IInv, TypeOK, NestedSets
  <2>2. After(w, 5, committed) =
           [x \in DOMAIN committed |->
               [lft |-> Moved(w.node.lft, w.node.rgt, w.at, committed[x].lft),
                rgt |-> Moved(w.node.lft, w.node.rgt, w.at, committed[x].rgt)]]
    BY <2>1, MoveCarries
  <2> QED  BY <1>1, <2>2
<1>3. \A x \in DOMAIN committed : /\ committed[x].lft \in Int /\ committed[x].rgt \in Int
                                  /\ committed[x].lft < committed[x].rgt
  BY CommittedPositions
<1>4. L \in Int /\ R \in Int /\ L < R
  BY <1>1, <1>3
<1>5. p \in rest \cup {Root}
  <2>1. CASE p # Root
    <3>1. p \in DOMAIN committed /\ ~(committed[p].lft >= L /\ committed[p].rgt <= R)
      BY <2>1 DEF Movable
    <3>2. ~(L <= committed[p].lft /\ committed[p].rgt <= R)
      BY <1>3, <1>4, <3>1
    <3> QED  BY <1>1, <3>1, <3>2, SubtreeIsInterval
  <2> QED  BY <2>1
<1> HIDE DEF L, R, at
<1>6. subtree \subseteq DOMAIN committed
  BY DEF Order!Below
<1>7. \A x \in subtree : /\ L <= committed[x].lft /\ committed[x].lft <= R
                         /\ L <= committed[x].rgt /\ committed[x].rgt <= R
  <2> SUFFICES ASSUME NEW x \in subtree
               PROVE  /\ L <= committed[x].lft /\ committed[x].lft <= R
                      /\ L <= committed[x].rgt /\ committed[x].rgt <= R
    OBVIOUS
  <2>1. L <= committed[x].lft /\ committed[x].rgt <= R
    BY <1>1, <1>6, SubtreeIsInterval DEF L, R
  <2> QED  BY <1>3, <1>4, <1>6, <2>1
<1>8. \A x \in rest : /\ committed[x].lft < L \/ R < committed[x].lft
                      /\ committed[x].rgt < L \/ R < committed[x].rgt
  BY <1>1, SubtreeIsInterval DEF L, R
<1>9. rest \subseteq DOMAIN committed /\ \A x \in DOMAIN committed : x \in subtree \/ x \in rest
  OBVIOUS
<1>10. \A x \in rest : x \notin subtree
  OBVIOUS
<1> HIDE DEF subtree, rest
<1>11. ASSUME NEW x \in DOMAIN committed, NEW y \in DOMAIN committed,
              (x \in subtree /\ y \in subtree) \/ (x \in rest /\ y \in rest)
       PROVE  /\ Inside(committed', x, y) <=> Inside(committed, x, y)
              /\ committed'[x].rgt < committed'[y].lft <=> committed[x].rgt < committed[y].lft
  <2> DEFINE l == committed[x].lft
             r == committed[x].rgt
             m == committed[y].lft
             n == committed[y].rgt
  <2>1. l \in Int /\ r \in Int /\ m \in Int /\ n \in Int
    BY <1>3
  <2>2. \/ L <= l /\ l <= R /\ L <= r /\ r <= R /\ L <= m /\ m <= R /\ L <= n /\ n <= R
        \/ (l < L \/ R < l) /\ (r < L \/ R < r) /\ (m < L \/ R < m) /\ (n < L \/ R < n)
    BY <1>7, <1>8, <1>11
  <2> HIDE DEF l, r, m, n
  <2>3. /\ Moved(L, R, at, l) < Moved(L, R, at, m) <=> l < m
        /\ Moved(L, R, at, m) < Moved(L, R, at, l) <=> m < l
        /\ Moved(L, R, at, r) < Moved(L, R, at, n) <=> r < n
        /\ Moved(L, R, at, r) < Moved(L, R, at, m) <=> r < m
    <3>1. ASSUME NEW a \in Int, NEW b \in Int,
                 \/ L <= a /\ a <= R /\ L <= b /\ b <= R
                 \/ (a < L \/ R < a) /\ (b < L \/ R < b)
          PROVE  Moved(L, R, at, a) < Moved(L, R, at, b) <=> a < b
      <4>1. at \in Int /\ Outside(L, R, at)
        BY <1>1 DEF Outside
      <4>2. CASE L <= a /\ a <= R /\ L <= b /\ b <= R
        BY <1>4, <4>1, <4>2, MovedKeepsInner
      <4>3. CASE (a < L \/ R < a) /\ (b < L \/ R < b)
        <5>1. Outside(L, R, a) /\ Outside(L, R, b)
          BY <4>3 DEF Outside
        <5> QED  BY <1>4, <4>1, <5>1, MovedKeepsOuter
      <4> QED  BY <3>1, <4>2, <4>3
    <3> QED  BY <2>1, <2>2, <3>1
  <2> QED  BY <1>2, <2>3 DEF Inside, l, r, m, n
<1>12. ASSUME NEW x \in subtree, NEW y \in rest
       PROVE  /\ Inside(committed', x, y) <=> y \in Order!Holding(p)
              /\ ~Inside(committed', y, x)
              /\ committed'[y].rgt < committed'[x].lft <=> y \in Order!Before(rest, p)
              /\ committed'[x].rgt < committed'[y].lft <=> p \in Earlier(y)
  <2>1. /\ committed[y].lft # at
        /\ y \in Order!Holding(p) <=> committed[y].lft < at /\ at <= committed[y].rgt
        /\ p \in Earlier(y) <=> at < committed[y].lft
    BY <1>9, PlaceSplits DEF at
  <2>2. y \in Order!Before(rest, p) <=> committed[y].rgt < at
    BY <1>9, PlaceBefore DEF at
  <2> DEFINE l == committed[x].lft
             r == committed[x].rgt
             m == committed[y].lft
             n == committed[y].rgt
  <2>3. l \in Int /\ r \in Int /\ m \in Int /\ n \in Int /\ m < n
    BY <1>3, <1>6, <1>9
  <2>4. /\ L <= l /\ l <= R /\ L <= r /\ r <= R
        /\ (m < L \/ R < m) /\ (n < L \/ R < n)
    BY <1>7, <1>8
  <2>5. /\ committed'[x].lft = Moved(L, R, at, l) /\ committed'[x].rgt = Moved(L, R, at, r)
        /\ committed'[y].lft = Moved(L, R, at, m) /\ committed'[y].rgt = Moved(L, R, at, n)
    BY <1>2, <1>6, <1>9
  <2>6. at \in Int /\ L \in Int /\ R \in Int /\ L < R /\ (at < L \/ R < at)
    BY <1>1, <1>4 DEF at, L, R
  <2> HIDE DEF l, r, m, n
  <2>7. /\ Moved(L, R, at, m) < Moved(L, R, at, l) <=> m < at
        /\ Moved(L, R, at, l) < Moved(L, R, at, m) <=> at <= m
        /\ Moved(L, R, at, r) < Moved(L, R, at, n) <=> at <= n
        /\ Moved(L, R, at, n) < Moved(L, R, at, r) <=> n < at
        /\ Moved(L, R, at, n) < Moved(L, R, at, l) <=> n < at
        /\ Moved(L, R, at, r) < Moved(L, R, at, m) <=> at <= m
    <3>1. ASSUME NEW a \in Int, NEW b \in Int, L <= a /\ a <= R, b < L \/ R < b
          PROVE  /\ Moved(L, R, at, a) < Moved(L, R, at, b) <=> at <= b
                 /\ Moved(L, R, at, b) < Moved(L, R, at, a) <=> b < at
      <4>1. Outside(L, R, at) /\ Outside(L, R, b)
        BY <2>6, <3>1 DEF Outside
      <4> QED  BY <2>6, <3>1, <4>1, MovedSplits
    <3> QED  BY <2>3, <2>4, <3>1
  <2>8. /\ Inside(committed', x, y) <=> m < at /\ at <= n
        /\ Inside(committed', y, x) <=> at <= m /\ n < at
        /\ committed'[y].rgt < committed'[x].lft <=> n < at
        /\ committed'[x].rgt < committed'[y].lft <=> at <= m
    BY <2>5, <2>7 DEF Inside
  <2>9. ~(at <= m /\ n < at) /\ (at <= m <=> at < m \/ at = m)
    BY <2>3, <2>6
  <2> QED  BY <2>1, <2>2, <2>8, <2>9 DEF m, n
<1>13. Order!Holding(p) \subseteq rest
  <2> SUFFICES ASSUME NEW u \in Order!Holding(p), p # Root  PROVE u \in rest
    BY DEF Order!Holding
  <2>1. p \in rest /\ p \in DOMAIN committed
    BY <1>5, <1>9
  <2>2. u = p \/ (u \in DOMAIN committed /\ Inside(committed, p, u))
    BY <2>1 DEF Order!Holding, Over
  <2>3. CASE u \in subtree /\ u \in DOMAIN committed /\ Inside(committed, p, u)
    <3>1. L <= committed[p].lft /\ committed[p].rgt <= R
      BY <1>3, <1>4, <1>7, <2>1, <2>3 DEF Inside
    <3> QED  BY <1>1, <1>10, <2>1, <3>1, SubtreeIsInterval DEF L, R, subtree
  <2> QED  BY <1>9, <2>1, <2>2, <2>3
<1>14. \A x \in rest : Over(x) \cap subtree = {}
  <2> SUFFICES ASSUME NEW x \in rest, NEW u \in subtree, Inside(committed, x, u)  PROVE FALSE
    BY DEF Over
  <2>1. L <= committed[x].lft /\ committed[x].rgt <= R
    BY <1>3, <1>4, <1>6, <1>7, <1>9 DEF Inside
  <2> QED  BY <1>1, <1>9, <1>10, <2>1, SubtreeIsInterval DEF L, R, subtree
<1>15. ASSUME NEW x \in DOMAIN committed
       PROVE  Over(x)' = IF x \in subtree THEN (Over(x) \cap subtree) \cup Order!Holding(p)
                         ELSE Over(x)
  <2>1. \A u : u \in Over(x)' <=> u \in DOMAIN committed /\ Inside(committed', x, u)
    BY <1>2 DEF Over
  <2>2. \A u : u \in Over(x) <=> u \in DOMAIN committed /\ Inside(committed, x, u)
    BY DEF Over
  <2>3. CASE x \in subtree
    <3>1. \A u : u \in Over(x)' <=> u \in (Over(x) \cap subtree) \cup Order!Holding(p)
      BY <1>6, <1>9, <1>10, <1>11, <1>12, <1>13, <2>1, <2>2, <2>3
    <3> QED  BY <2>3, <3>1
  <2>4. CASE x \notin subtree
    <3>1. \A u : u \in Over(x)' <=> u \in Over(x)
      BY <1>6, <1>9, <1>10, <1>11, <1>12, <1>14, <2>1, <2>2, <2>4
    <3> QED  BY <2>4, <3>1
  <2> QED  BY <2>3, <2>4
<1>16. ASSUME NEW x \in DOMAIN committed
       PROVE  Earlier(x)' = IF x \in subtree THEN (Earlier(x) \cap subtree) \cup Order!Before(rest, p)
                            ELSE (Earlier(x) \ subtree) \cup (IF p \in Earlier(x) THEN subtree ELSE {})
  <2>1. \A u : u \in Earlier(x)' <=> u \in DOMAIN committed /\ committed'[u].rgt < committed'[x].lft
    BY <1>2 DEF Earlier
  <2>2. \A u : u \in Earlier(x) <=> u \in DOMAIN committed /\ committed[u].rgt < committed[x].lft
    BY DEF Earlier
  <2>3. Order!Before(rest, p) \subseteq rest
    BY DEF Order!Before
  <2>4. CASE x \in subtree
    <3>1. \A u : u \in Earlier(x)' <=> u \in (Earlier(x) \cap subtree) \cup Order!Before(rest, p)
      BY <1>6, <1>9, <1>10, <1>11, <1>12, <2>1, <2>2, <2>3, <2>4
    <3> QED  BY <2>4, <3>1
  <2>5. CASE x \notin subtree
    <3>1. x \in rest
      BY <1>9, <2>5
    <3>2. \A u : u \in Earlier(x)' <=>
                    (u \in Earlier(x) /\ u \notin subtree) \/ (u \in subtree /\ p \in Earlier(x))
      BY <1>6, <1>9, <1>10, <1>11, <1>12, <2>1, <2>2, <3>1
    <3> QED  BY <2>5, <3>2
  <2> QED  BY <2>4, <2>5
<1>17. Order!Move(t, p)
  BY <1>2, <1>15, <1>16 DEF Order!Move, subtree, rest
<1> QED  BY <1>1, <1>5, <1>17 DEF t, rest, subtree

\* A handler that reads a place leaves the committed rows, and knows a parent for it.
LEMMA ReadChooses ==
    ASSUME IInv, NEW s \in Sessions, Read(s)
    PROVE  /\ committed' = committed
           /\ \A u \in Sessions \ {s} : tx'[u] = tx[u]
           /\ tx'[s].cmd # "delete" => Chosen(tx'[s])
<1>1. ASSUME NEW cmd, NEW t, NEW node, NEW at, Start(s, cmd, t, node, at)
      PROVE  /\ committed' = committed
             /\ \A u \in Sessions \ {s} : tx'[u] = tx[u]
             /\ tx'[s].cmd = cmd /\ tx'[s].tag = t /\ tx'[s].at = at
  BY <1>1 DEF IInv, TypeOK, Start
<1>2. ASSUME NEW t \in Tags, NEW p \in Tags \cup {Root}, ReadAdd(s, t, p) \/ ReadMove(s, t, p)
      PROVE  /\ committed' = committed
             /\ \A u \in Sessions \ {s} : tx'[u] = tx[u]
             /\ Chosen(tx'[s])
  <2>1. CASE ReadAdd(s, t, p)
    <3>1. PICK at \in Places(p) : Start(s, "add", t, [lft |-> at, rgt |-> at + 1], at)
      BY <2>1 DEF ReadAdd
    <3>2. p \in DOMAIN committed \cup {Root}
      BY <2>1 DEF ReadAdd
    <3> QED  BY <1>1, <3>1, <3>2 DEF Chosen
  <2>2. CASE ReadMove(s, t, p)
    <3>1. PICK at \in Places(p) : Start(s, "move", t, committed[t], at)
      BY <2>2 DEF ReadMove
    <3>2. p \in DOMAIN committed \cup {Root} /\ Movable(t, p)
      BY <2>2 DEF ReadMove
    <3> QED  BY <1>1, <3>1, <3>2 DEF Chosen
  <2> QED  BY <1>2, <2>1, <2>2
<1>3. ASSUME NEW t \in Tags, ReadDelete(s, t)
      PROVE  /\ committed' = committed
             /\ \A u \in Sessions \ {s} : tx'[u] = tx[u]
             /\ tx'[s].cmd = "delete"
  BY <1>1, <1>3 DEF ReadDelete
<1> QED  BY <1>2, <1>3 DEF Read

\* The place stays chosen while its command runs: nobody else commits.
LEMMA NextKeepsOrder ==
    ASSUME OrderInv, [Next]_vars
    PROVE  OrderInv'
<1>1. IInv /\ IInv'
  BY NextKeepsIInv DEF OrderInv
<1>2. ASSUME committed' = committed,
             \A u \in Sessions : At(u, "writing")' /\ tx'[u].cmd # "delete" => Chosen(tx'[u])
      PROVE  OrderInv'
  <2>1. ASSUME NEW u \in Sessions, Chosen(tx'[u])  PROVE Chosen(tx[u])'
    BY <1>2, <2>1 DEF Chosen, Places, Movable
  <2> QED  BY <1>1, <1>2, <2>1 DEF OrderInv
<1>3. ASSUME NEW s \in Sessions, Lock(s) PROVE OrderInv'
  <2>1. /\ committed' = committed
        /\ ~At(s, "writing")' /\ \A u \in Sessions \ {s} : tx'[u] = tx[u]
    BY <1>1, <1>3 DEF IInv, TypeOK, Lock, Begin, FindLock, CreateLock, CreateRefused, TakeLock,
                      Goto, At
  <2> QED  BY <1>2, <2>1 DEF OrderInv, At
<1>4. ASSUME NEW s \in Sessions, Read(s) PROVE OrderInv'
  <2>1. /\ committed' = committed
        /\ \A u \in Sessions \ {s} : tx'[u] = tx[u]
        /\ tx'[s].cmd # "delete" => Chosen(tx'[s])
    BY <1>1, <1>4, ReadChooses
  <2> QED  BY <1>2, <2>1 DEF OrderInv, At
<1>5. ASSUME NEW s \in Sessions, Write(s) PROVE OrderInv'
  <2>1. /\ committed' = committed /\ At(s, "writing") /\ tx[s] \in Writers
        /\ tx'[s] = [tx[s] EXCEPT !.done = @ + 1]
        /\ \A u \in Sessions \ {s} : tx'[u] = tx[u]
    BY <1>1, <1>5, WriterFacts DEF IInv, TypeOK, Write
  <2>2. tx'[s].cmd = tx[s].cmd /\ tx'[s].at = tx[s].at /\ tx'[s].tag = tx[s].tag
    BY <2>1 DEF Writers
  <2>3. Chosen(tx[s]) => Chosen(tx'[s])
    BY <2>2 DEF Chosen
  <2> QED  BY <1>2, <2>1, <2>2, <2>3 DEF OrderInv, At
<1>6. ASSUME NEW s \in Sessions, Commit(s) \/ Rollback(s) PROVE OrderInv'
  <2>1. holder' = Nobody
    BY <1>6 DEF Commit, Rollback
  <2>2. \A u \in Sessions : ~At(u, "writing")'
    BY <1>1, <2>1, TagAssumption DEF IInv, HolderWorks, Holds, At
  <2> QED  BY <1>1, <2>2 DEF OrderInv
<1>7. CASE UNCHANGED vars
  BY <1>2, <1>7 DEF OrderInv, vars, At
<1> QED  BY <1>3, <1>4, <1>5, <1>6, <1>7 DEF Next

\* Every commit is a command of TagOrder; no other step changes what readers see.
LEMMA StepImplementsOrder ==
    ASSUME OrderInv, [Next]_vars
    PROVE  [Order!Next]_(Order!vars)
<1>1. IInv
  BY DEF OrderInv
<1>2. ASSUME committed' = committed  PROVE UNCHANGED Order!vars
  BY <1>2 DEF Order!vars, Over, Earlier, Inside
<1>3. ASSUME NEW s \in Sessions, Commit(s)  PROVE Order!Next
  <2> DEFINE w == tx[s]
  <2>1. /\ w \in Writers /\ Ready(w, committed)
        /\ committed' = After(w, Statements[w.cmd], committed)
    BY <1>1, <1>3, WriterFacts DEF Commit
  <2>2. w.cmd # "delete" => Chosen(w)
    BY <1>3 DEF OrderInv, Commit
  <2>3. w.cmd \in {"add", "delete", "move"}
    BY <2>1 DEF Writers
  <2> HIDE DEF w
  <2>4. CASE w.cmd = "add"
    <3>1. PICK p \in DOMAIN committed \cup {Root} : w.at \in Places(p)
      BY <2>2, <2>4 DEF Chosen
    <3>2. committed' = After(w, 3, committed)
      BY <2>1, <2>4 DEF Statements
    <3>3. w.tag \in Tags \ DOMAIN committed /\ Order!Add(w.tag, p)
      BY <1>1, <2>1, <2>4, <3>1, <3>2, AddImplements
    <3> QED  BY <3>3 DEF Order!Next
  <2>5. CASE w.cmd = "delete"
    <3>1. committed' = After(w, 3, committed)
      BY <2>1, <2>5 DEF Statements
    <3>2. w.tag \in DOMAIN committed /\ Order!Delete(w.tag)
      BY <1>1, <2>1, <2>5, <3>1, DeleteImplements
    <3> QED  BY <3>2 DEF Order!Next
  <2>6. CASE w.cmd = "move"
    <3>1. PICK p \in DOMAIN committed \cup {Root} : w.at \in Places(p) /\ Movable(w.tag, p)
      BY <2>2, <2>6 DEF Chosen
    <3>2. committed' = After(w, 5, committed)
      BY <2>1, <2>6 DEF Statements
    <3>3. /\ w.tag \in DOMAIN committed
          /\ p \in (DOMAIN committed \ Order!Below(w.tag)) \cup {Root}
          /\ Order!Move(w.tag, p)
      BY <1>1, <2>1, <2>6, <3>1, <3>2, MoveImplements
    <3> QED  BY <3>3 DEF Order!Next
  <2> QED  BY <2>3, <2>4, <2>5, <2>6
<1>4. ASSUME NEW s \in Sessions, Lock(s) \/ Write(s) \/ Rollback(s)  PROVE committed' = committed
  BY <1>4 DEF Lock, Begin, FindLock, CreateLock, CreateRefused, TakeLock, Write, Rollback
<1>5. ASSUME NEW s \in Sessions, Read(s)  PROVE committed' = committed
  BY <1>1, <1>5, ReadChooses
<1>6. CASE UNCHANGED vars
  BY <1>2, <1>6 DEF vars
<1> QED  BY <1>2, <1>3, <1>4, <1>5, <1>6 DEF Next

\* No tags hold or precede any.
LEMMA InitImplementsOrder == Init => Order!Init
<1> SUFFICES ASSUME Init  PROVE Order!Init
  OBVIOUS
<1>1. committed = << >> /\ DOMAIN committed = {}
  BY DEF Init
<1>2. << >> = [t \in {} |-> Over(t)] /\ << >> = [t \in {} |-> Earlier(t)]
  OBVIOUS
<1> QED  BY <1>1, <1>2 DEF Order!Init

\* A place that a command has read is that of a last child of the parent it was asked for.
THEOREM OrderInvariant == Spec => []OrderInv
<1>1. Init => OrderInv
  BY InitEstablishesIInv DEF Init, OrderInv, At, Idle
<1> QED  BY <1>1, NextKeepsOrder, PTL DEF Spec

\* The tag commands implement those of the ordered forest, whatever commands overlap, fail
\* or roll back: a commit adds, deletes or moves one subtree, as a last child.
THEOREM CommandsImplementOrder == Spec => ImplementsOrder
<1>1. Init => Order!Init
  BY InitImplementsOrder
<1>2. OrderInv /\ [Next]_vars => [Order!Next]_(Order!vars)
  BY StepImplementsOrder
<1>3. Spec => Order!Init /\ [][Order!Next]_(Order!vars)
  BY <1>1, <1>2, OrderInvariant, PTL DEF Spec
<1> QED  BY <1>3 DEF ImplementsOrder, Order!Spec
================================================================================
