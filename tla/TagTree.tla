-------------------------------- MODULE TagTree --------------------------------
(***************************************************************************)
(* The tags of the exam service, kept as a nested set: a tag is the        *)
(* interval from lft to rgt and holds the tags whose intervals lie inside  *)
(* (apps/exam tag.prisma.repository.impl.ts).                              *)
(*                                                                         *)
(* A command is one database transaction: it takes the lock row of the     *)
(* table, reads the positions it needs, and shifts the others with a       *)
(* sequence of updateMany statements.  Statements of different             *)
(* transactions may interleave; only the lock row keeps them apart.        *)
(* Readers see what was committed.                                         *)
(***************************************************************************)
EXTENDS Integers, Sequences, FiniteSets

CONSTANTS
    Tags,
    Root,       \* no parent
    Sessions,   \* the commands the service works on at the same time
    Nobody

ASSUME TagAssumption == Root \notin Tags /\ Nobody \notin Sessions

VARIABLES
    committed,  \* the committed rows: a function from the existing tags
    table,      \* the rows with the changes of the transactions in progress
    lockRow,    \* the lock row has been committed
    holder,     \* the transaction that has written the lock row, or Nobody
    tx          \* tx[s]: where the transaction of s stands

vars == <<committed, table, lockRow, holder, tx>>

Idle == [pc |-> "idle"]
Rows == [lft : Int, rgt : Int]
CommittedRows == [lft : Nat \ {0}, rgt : Nat \ {0}]
IsTable(rows, R) == DOMAIN rows \in SUBSET Tags /\ rows \in [DOMAIN rows -> R]

\* A transaction that has read its positions: those of its tag (of the row to create,
\* for an addition), the position it opens, and how many statements it has run.
Writers ==
    [pc : {"writing"}, cmd : {"add", "delete", "move"}, tag : Tags, node : Rows,
     at : Int, done : 0..5]

Transactions == {Idle} \cup [pc : {"finding", "creating", "locking", "reading"}] \cup Writers

\* No commit leaves a position below 1, whatever the statements do on their way.
TypeOK ==
    /\ IsTable(committed, CommittedRows)
    /\ IsTable(table, Rows)
    /\ lockRow \in BOOLEAN
    /\ holder \in Sessions \cup {Nobody}
    /\ tx \in [Sessions -> Transactions]

Init ==
    /\ committed = << >>
    /\ table = << >>
    /\ lockRow = FALSE
    /\ holder = Nobody
    /\ tx = [s \in Sessions |-> Idle]

--------------------------------------------------------------------------------
(***************************************************************************)
(* getTableLock: find the row or create it, then update it.                *)
(***************************************************************************)
At(s, pc) == tx[s].pc = pc
Goto(s, pc) == tx' = [tx EXCEPT ![s] = [pc |-> pc]]

Begin(s) ==
    /\ At(s, "idle")
    /\ Goto(s, "finding")
    /\ UNCHANGED <<committed, table, lockRow, holder>>

FindLock(s) ==
    /\ At(s, "finding")
    /\ Goto(s, IF lockRow THEN "locking" ELSE "creating")
    /\ UNCHANGED <<committed, table, lockRow, holder>>

\* The insertion waits for another uncommitted one: version is the primary key.
CreateLock(s) ==
    /\ At(s, "creating")
    /\ holder = Nobody /\ ~lockRow
    /\ holder' = s
    /\ Goto(s, "reading")
    /\ UNCHANGED <<committed, table, lockRow>>

CreateRefused(s) ==
    /\ At(s, "creating")
    /\ holder = Nobody /\ lockRow
    /\ Goto(s, "idle")
    /\ UNCHANGED <<committed, table, lockRow, holder>>

\* Variant: the lock row is read and not written.
TakeLockUnwritten(s) ==
    /\ At(s, "locking")
    /\ holder' = s
    /\ Goto(s, "reading")
    /\ UNCHANGED <<committed, table, lockRow>>

\* The update waits until the transaction that wrote the row last has ended.
TakeLock(s) ==
    /\ At(s, "locking")
    /\ holder = Nobody
    /\ holder' = s
    /\ Goto(s, "reading")
    /\ UNCHANGED <<committed, table, lockRow>>

--------------------------------------------------------------------------------
(***************************************************************************)
(* Reading.  What a request asks for matters here first, so it is chosen   *)
(* here.  A tag that is not found, or a target inside the moved subtree,   *)
(* ends in Rollback.                                                       *)
(***************************************************************************)
\* The position that becomes the lft of a new last child of p.
Places(p) ==
    IF p = Root
    THEN {n \in {1} \cup {committed[t].rgt + 1 : t \in DOMAIN committed} :
            \A t \in DOMAIN committed : committed[t].rgt < n}
    ELSE {committed[p].rgt}

\* Variant: any tag but the moved one will do as the target.
MovableAside(t, p) == p # t

Movable(t, p) ==
    p # Root =>
        ~(committed[p].lft >= committed[t].lft /\ committed[p].rgt <= committed[t].rgt)

Start(s, cmd, t, node, at) ==
    /\ At(s, "reading")
    /\ tx' = [tx EXCEPT ![s] = [pc |-> "writing", cmd |-> cmd, tag |-> t, node |-> node,
                                at |-> at, done |-> 0]]
    /\ UNCHANGED <<committed, table, lockRow, holder>>

ReadAdd(s, t, p) ==
    /\ t \notin DOMAIN committed
    /\ p \in DOMAIN committed \cup {Root}
    /\ \E at \in Places(p) : Start(s, "add", t, [lft |-> at, rgt |-> at + 1], at)

ReadDelete(s, t) ==
    /\ t \in DOMAIN committed
    /\ Start(s, "delete", t, committed[t], 0)

ReadMove(s, t, p) ==
    /\ t \in DOMAIN committed
    /\ p \in DOMAIN committed \cup {Root}
    /\ Movable(t, p)
    /\ \E at \in Places(p) : Start(s, "move", t, committed[t], at)

--------------------------------------------------------------------------------
(***************************************************************************)
(* Writing: one statement after the other.                                 *)
(***************************************************************************)
ShiftLft(rows, from, by) ==
    [t \in DOMAIN rows |->
        [lft |-> IF rows[t].lft >= from THEN rows[t].lft + by ELSE rows[t].lft,
         rgt |-> rows[t].rgt]]

ShiftRgt(rows, from, by) ==
    [t \in DOMAIN rows |->
        [lft |-> rows[t].lft,
         rgt |-> IF rows[t].rgt >= from THEN rows[t].rgt + by ELSE rows[t].rgt]]

Carry(rows, from, width, by) ==
    [t \in DOMAIN rows |->
        IF rows[t].lft >= from /\ rows[t].rgt < from + width
        THEN [lft |-> rows[t].lft + by, rgt |-> rows[t].rgt + by]
        ELSE rows[t]]

Removed(rows, node) ==
    [t \in {x \in DOMAIN rows : ~(rows[x].lft >= node.lft /\ rows[x].rgt <= node.rgt)} |->
        rows[t]]

Created(rows, tag, node) ==
    [t \in DOMAIN rows \cup {tag} |-> IF t = tag THEN node ELSE rows[t]]

\* Variant: the width of a tag without a child is 1.
WidthBetween(node) == node.rgt - node.lft
Width(node) == node.rgt - node.lft + 1

Statements == [add |-> 3, delete |-> 3, move |-> 5]

\* The n-th statement of addTag; without a parent the first two find no row to shift.
AddTag(w, n, rows) ==
    CASE n = 1 -> ShiftRgt(rows, w.at, 2)
      [] n = 2 -> ShiftLft(rows, w.at + 1, 2)
      [] n = 3 -> Created(rows, w.tag, w.node)

\* The n-th statement of deleteTag.
DeleteTag(w, n, rows) ==
    CASE n = 1 -> Removed(rows, w.node)
      [] n = 2 -> ShiftRgt(rows, w.node.rgt + 1, -Width(w.node))
      [] n = 3 -> ShiftLft(rows, w.node.rgt + 1, -Width(w.node))

\* Variant: a move to the left forgets the space it has opened.
DistanceAsRead(w) == w.at - w.node.lft
Distance(w) == IF w.at < w.node.lft THEN w.at - w.node.lft - Width(w.node)
               ELSE w.at - w.node.lft

\* Variant: it forgets that the space has pushed the subtree along.
SourceAsRead(w) == w.node.lft

\* tmppos, where the subtree is once the space has been opened.
Source(w) == IF w.at < w.node.lft THEN w.node.lft + Width(w.node) ELSE w.node.lft

\* The n-th statement of moveTag.
MoveTag(w, n, rows) ==
    LET width == Width(w.node)
    IN  CASE n = 1 -> ShiftLft(rows, w.at, width)
          [] n = 2 -> ShiftRgt(rows, w.at, width)
          [] n = 3 -> Carry(rows, Source(w), width, Distance(w))
          [] n = 4 -> ShiftLft(rows, w.node.rgt + 1, -width)
          [] n = 5 -> ShiftRgt(rows, w.node.rgt + 1, -width)

Statement(w, n, rows) ==
    CASE w.cmd = "add" -> AddTag(w, n, rows)
      [] w.cmd = "delete" -> DeleteTag(w, n, rows)
      [] w.cmd = "move" -> MoveTag(w, n, rows)

Write(s) ==
    /\ At(s, "writing")
    /\ tx[s].done < Statements[tx[s].cmd]
    /\ table' = Statement(tx[s], tx[s].done + 1, table)
    /\ tx' = [tx EXCEPT ![s].done = @ + 1]
    /\ UNCHANGED <<committed, lockRow, holder>>

Commit(s) ==
    /\ At(s, "writing")
    /\ tx[s].done = Statements[tx[s].cmd]
    /\ committed' = table
    /\ lockRow' = TRUE
    /\ holder' = Nobody
    /\ Goto(s, "idle")
    /\ UNCHANGED table

\* An exception of the code, a failing statement, or a lost connection.
Rollback(s) ==
    /\ tx[s].pc \in {"reading", "writing"}
    /\ table' = committed
    /\ holder' = Nobody
    /\ Goto(s, "idle")
    /\ UNCHANGED <<committed, lockRow>>

Lock(s) == Begin(s) \/ FindLock(s) \/ CreateLock(s) \/ CreateRefused(s) \/ TakeLock(s)

Read(s) ==
    \E t \in Tags :
        \/ ReadDelete(s, t)
        \/ \E p \in Tags \cup {Root} : ReadAdd(s, t, p) \/ ReadMove(s, t, p)

Next == \E s \in Sessions : Lock(s) \/ Read(s) \/ Write(s) \/ Commit(s) \/ Rollback(s)

Spec == Init /\ [][Next]_vars

--------------------------------------------------------------------------------
(***************************************************************************)
(* Properties of the committed rows, which is all that queries see.        *)
(***************************************************************************)
Inside(rows, t, u) == rows[u].lft < rows[t].lft /\ rows[t].rgt < rows[u].rgt
Apart(rows, t, u) == rows[t].rgt < rows[u].lft \/ rows[u].rgt < rows[t].lft

Nested(rows) ==
    /\ \A t \in DOMAIN rows : rows[t].lft < rows[t].rgt
    /\ \A t, u \in DOMAIN rows :
          t # u => Inside(rows, t, u) \/ Inside(rows, u, t) \/ Apart(rows, t, u)

\* The intervals of two tags lie inside each other or apart, whatever commands
\* overlap, fail or roll back: the table is a forest.
NestedSets == Nested(committed)

\* No position is lost or used twice: the positions are 1 to twice the number of tags.
PositionsDense ==
    {committed[t].lft : t \in DOMAIN committed} \cup {committed[t].rgt : t \in DOMAIN committed}
        = 1..(2 * Cardinality(DOMAIN committed))

\* What the intervals say of each tag: the tags that hold it, and those that end before
\* it begins.
Over(t)    == {u \in DOMAIN committed : Inside(committed, t, u)}
Earlier(t) == {u \in DOMAIN committed : committed[u].rgt < committed[t].lft}

Order == INSTANCE TagOrder WITH
    tags  <- DOMAIN committed,
    above <- [t \in DOMAIN committed |-> Over(t)],
    left  <- [t \in DOMAIN committed |-> Earlier(t)]

\* A commit adds, deletes or moves exactly one subtree, as the last child of the parent
\* that was asked for; what holds any other tag and what stands before it stay as they
\* were (addTag, deleteTag, moveTag).
ImplementsOrder == Order!Spec
================================================================================
