---------------------------- MODULE SectionTable ----------------------------
(***************************************************************************)
(* The rows of one exam's sections and questions, and the table            *)
(* section_closures that the database's triggers keep beside them.  A row  *)
(* holds its parent (the exam or a section) and its order; a closure row   *)
(* says that one section is an ancestor of another, and how far.           *)
(***************************************************************************)
EXTENDS Integers, FiniteSets

CONSTANTS Sections,     \* ids of sections
          Questions,    \* ids of questions
          Exam          \* the parent of the top-level sections (parent_id NULL)

ASSUME IdsApart ==
    /\ Sections \cap Questions = {}
    /\ Exam \notin Sections \cup Questions

SectionType == {"SECTION", "QUESTION"}
ExamStatus  == {"PENDING", "REJECTED", "APPROVED"}
Deleted     == "DELETED"    \* the exam has no row any more
Items       == Sections \cup Questions
Parents     == Sections \cup {Exam}

Path(a, d, n) == [ancestor |-> a, descendant |-> d, depth |-> n]

\* A database: the exam's status (or that it is deleted), the rows, the content
\* type of each section and the closure.
EmptyOutline ==
    [status |-> "PENDING", rows |-> <<>>, type |-> <<>>, closure |-> {}]

Stored(db)     == DOMAIN db.rows
ChildrenOf(db, p) == {i \in Stored(db) : db.rows[i].parent = p}
PathsTo(closure, d)   == {c \in closure : c.descendant = d}
PathsFrom(closure, a) == {c \in closure : c.ancestor = a}

\* ON CONFLICT DO NOTHING on the key (ancestor, descendant).
Added(closure, new) ==
    closure \cup {n \in new : \A c \in closure : c.ancestor # n.ancestor
                                                  \/ c.descendant # n.descendant}

(***************************************************************************)
(* trg_section_closure_insert, trg_section_closure_update.                 *)
(***************************************************************************)
InsertTrigger(closure, id, parent) ==
    LET self == Added(closure, {Path(id, id, 0)})
    IN  IF parent = Exam THEN self
        ELSE Added(self, {Path(a.ancestor, id, a.depth + 1) : a \in PathsTo(self, parent)})

\* The trigger raises when the new parent is below the section.
Raises(closure, id, parent) ==
    parent # Exam /\ \E c \in PathsFrom(closure, id) : c.descendant = parent

\* Variant: only the moved section loses its old ancestors.
UpdateTriggerOwnPaths(closure, id, parent) ==
    LET above == {c.ancestor : c \in PathsTo(closure, id)} \ {id}
        kept  == {c \in closure : c.ancestor \notin above \/ c.descendant # id}
    IN  IF parent = Exam THEN kept
        ELSE Added(kept, {Path(a.ancestor, d.descendant, a.depth + d.depth + 1) :
                            a \in PathsTo(kept, parent), d \in PathsFrom(kept, id)})

UpdateTrigger(closure, id, parent) ==
    LET above == {c.ancestor : c \in PathsTo(closure, id)} \ {id}
        below == {c.descendant : c \in PathsFrom(closure, id)}
        kept  == {c \in closure : c.ancestor \notin above \/ c.descendant \notin below}
    IN  IF parent = Exam THEN kept
        ELSE Added(kept, {Path(a.ancestor, d.descendant, a.depth + d.depth + 1) :
                            a \in PathsTo(kept, parent), d \in PathsFrom(kept, id)})

(***************************************************************************)
(* The statements a save sends.  Each is refused (and the transaction with *)
(* it) when a row it names is missing, or the trigger raises.              *)
(***************************************************************************)
MayCreate(db, id, parent) ==
    id \notin Stored(db) /\ parent \in Stored(db) \cup {Exam}

Create(db, id, parent, order) ==
    LET rows == [i \in Stored(db) \cup {id} |->
                   IF i = id THEN [parent |-> parent, order |-> order] ELSE db.rows[i]]
    IN  IF id \in Questions THEN [db EXCEPT !.rows = rows]
        ELSE [db EXCEPT !.rows = rows,
                        !.type = [i \in DOMAIN db.type \cup {id} |->
                                    IF i = id THEN "SECTION" ELSE db.type[i]],
                        !.closure = InsertTrigger(@, id, parent)]

MayPut(db, id, parent) ==
    /\ id \in Stored(db) /\ parent \in Stored(db) \cup {Exam}
    /\ id \in Sections /\ db.rows[id].parent # parent => ~Raises(db.closure, id, parent)

Put(db, id, parent, order) ==
    [db EXCEPT !.rows    = [@ EXCEPT ![id] = [parent |-> parent, order |-> order]],
               !.closure = IF id \in Questions \/ db.rows[id].parent = parent THEN @
                           ELSE UpdateTrigger(@, id, parent)]

\* Variant: the cascade stops at the children.
SubtreeOneDeep(db, id) == {id} \cup ChildrenOf(db, id)

\* The foreign keys cascade: a deleted section takes what is below it, and the
\* closure rows that name any of them.
Subtree(db, id) ==
    {i \in Stored(db) : \A down \in SUBSET Stored(db) :
        (id \in down /\ \A c \in Stored(db) : db.rows[c].parent \in down => c \in down)
            => i \in down}

Delete(db, id) ==
    LET gone == Subtree(db, id)
    IN  [db EXCEPT !.rows = [i \in Stored(db) \ gone |-> db.rows[i]],
                   !.type = [i \in DOMAIN db.type \ gone |-> db.type[i]],
                   !.closure = {c \in @ : c.ancestor \notin gone /\ c.descendant \notin gone}]

(***************************************************************************)
(* What the tables must satisfy.                                           *)
(***************************************************************************)
\* Every row names a parent that exists, and closure rows name existing sections.
IsDatabase(d) ==
    /\ d = [status |-> d.status, rows |-> d.rows, type |-> d.type, closure |-> d.closure]
    /\ d.status \in ExamStatus \cup {Deleted}
    /\ \A i \in Stored(d) : /\ i \in Items
                            /\ d.rows[i] \in [parent : Parents, order : Int]
                            /\ d.rows[i].parent \in Stored(d) \cup {Exam}
    /\ DOMAIN d.type = Stored(d) \cap Sections
    /\ \A p \in DOMAIN d.type : d.type[p] \in SectionType
    /\ d.closure \subseteq
         [ancestor : DOMAIN d.type, descendant : DOMAIN d.type, depth : Nat]

\* The ancestors of a section, as the triggers must keep them: itself, and those of
\* its parent one step further.
AncestorPaths(d, i) ==
    {Path(i, i, 0)} \cup
        {Path(c.ancestor, i, c.depth + 1) : c \in PathsTo(d.closure, d.rows[i].parent)}

ClosureFollows(d) ==
    \A i \in Stored(d) \cap Sections : PathsTo(d.closure, i) = AncestorPaths(d, i)
=============================================================================
