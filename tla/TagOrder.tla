------------------------------- MODULE TagOrder -------------------------------
(***************************************************************************)
(* What the tag commands promise, said of every two tags: above[t] are the *)
(* tags that hold t (its parent, the parent's parent, ...), left[t] those  *)
(* that stand before t and do not hold it.  Together they give the ordered *)
(* forest of TagForest without its sequences and its recursion.            *)
(***************************************************************************)
CONSTANTS
    Tags,
    Root    \* the parent of the tags without one

VARIABLES
    tags,   \* the existing tags
    above,
    left

vars == <<tags, above, left>>

Below(t)   == {x \in tags : x = t \/ t \in above[x]}
Holding(p) == IF p = Root THEN {} ELSE above[p] \cup {p}

\* The tags of rest that stand before a new last child of p.
Before(rest, p) == {x \in rest : x \notin Holding(p) /\ p \notin left[x]}

Init ==
    /\ tags = {}
    /\ above = << >>
    /\ left = << >>

\* A new tag is the last child of p: it stands before what p stands before.
Add(t, p) ==
    /\ tags' = tags \cup {t}
    /\ above' = [x \in tags \cup {t} |-> IF x = t THEN Holding(p) ELSE above[x]]
    /\ left' = [x \in tags \cup {t} |->
                  IF x = t THEN Before(tags, p)
                  ELSE left[x] \cup (IF p \in left[x] THEN {t} ELSE {})]

\* The tags below t go with it; nothing else changes.
Delete(t) ==
    LET rest == tags \ Below(t)
    IN  /\ tags' = rest
        /\ above' = [x \in rest |-> above[x]]
        /\ left' = [x \in rest |-> left[x] \ Below(t)]

\* The subtree of t stays as it is, and so does the rest; the subtree becomes the last
\* child of p.
Move(t, p) ==
    LET subtree == Below(t)
        rest    == tags \ subtree
    IN  /\ tags' = tags
        /\ above' = [x \in tags |->
                       IF x \in subtree THEN (above[x] \cap subtree) \cup Holding(p)
                       ELSE above[x]]
        /\ left' = [x \in tags |->
                      IF x \in subtree THEN (left[x] \cap subtree) \cup Before(rest, p)
                      ELSE (left[x] \ subtree) \cup (IF p \in left[x] THEN subtree ELSE {})]

Next ==
    \/ \E t \in Tags \ tags, p \in tags \cup {Root} : Add(t, p)
    \/ \E t \in tags : Delete(t)
    \/ \E t \in tags : \E p \in (tags \ Below(t)) \cup {Root} : Move(t, p)

Spec == Init /\ [][Next]_vars
================================================================================
