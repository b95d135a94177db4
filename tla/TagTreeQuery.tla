----------------------------- MODULE TagTreeQuery -----------------------------
(***************************************************************************)
(* The query getTagTree over the committed rows of TagTree, and the forest *)
(* it shows to its readers.                                                *)
(***************************************************************************)
EXTENDS TagTree, SequencesExt

\* The rows are read in the order of lft.  When the stack has been popped, its top is
\* the closest earlier tag whose rgt is not smaller.
Enclosing(t) ==
    {u \in DOMAIN committed : /\ committed[u].lft < committed[t].lft
                              /\ committed[u].rgt >= committed[t].rgt}

ParentOf(t) ==
    IF Enclosing(t) = {} THEN Root
    ELSE CHOOSE u \in Enclosing(t) :
            \A v \in Enclosing(t) : committed[v].lft <= committed[u].lft

InOrder(S) == SetToSortSeq(S, LAMBDA t, u : committed[t].lft < committed[u].lft)

getTagTree ==
    [p \in Tags \cup {Root} |-> InOrder({t \in DOMAIN committed : ParentOf(t) = p})]

Forest == INSTANCE TagForest WITH children <- getTagTree

\* The commands implement those of the ordered forest, as its readers see it: a commit
\* adds, deletes or moves exactly one subtree, and the other tags stay in order.
ImplementsForest == Forest!Spec
================================================================================
