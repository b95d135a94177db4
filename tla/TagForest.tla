------------------------------- MODULE TagForest -------------------------------
(***************************************************************************)
(* What the tag commands promise: an ordered forest of tags.  A new tag    *)
(* and a moved one become the last child of their parent, a deletion takes *)
(* the tags below with it, and a tag is never moved below itself.          *)
(***************************************************************************)
EXTENDS SequencesExt

CONSTANTS
    Tags,
    Root    \* the parent of the tags without one

VARIABLE children   \* children[p]: the tags right below p, in order

Parents == Tags \cup {Root}
Known(kids) == UNION {ToSet(kids[p]) : p \in Parents}

RECURSIVE Subtree(_, _)
Subtree(kids, t) == {t} \cup UNION {Subtree(kids, x) : x \in ToSet(kids[t])}

Without(kids, t) == [p \in Parents |-> SelectSeq(kids[p], LAMBDA x : x # t)]

\* The forests that one command makes of a forest.
Additions(kids) ==
    {[kids EXCEPT ![p] = Append(@, t)] :
        t \in Tags \ Known(kids), p \in Known(kids) \cup {Root}}

Deletions(kids) ==
    {[p \in Parents |-> IF p \in Subtree(kids, t) THEN << >> ELSE Without(kids, t)[p]] :
        t \in Known(kids)}

Moves(kids) ==
    UNION {{[Without(kids, t) EXCEPT ![p] = Append(@, t)] :
               p \in (Known(kids) \ Subtree(kids, t)) \cup {Root}} : t \in Known(kids)}

Init == children = [p \in Parents |-> << >>]

\* To move the last child of a parent below it again changes nothing.
Next ==
    /\ children' # children
    /\ LET kids == children IN
       children' \in Additions(kids) \cup Deletions(kids) \cup Moves(kids)

Spec == Init /\ [][Next]_children
================================================================================
