----------------------------- MODULE ExamEditing -----------------------------
(***************************************************************************)
(* Staff edit one exam.  Every command loads an aggregate (the exam with   *)
(* its top-level sections, a section with its children, or a question),    *)
(* changes it in memory, and saves it in a transaction that only commits   *)
(* when the exam still has the version the aggregate was loaded with.      *)
(*                                                                         *)
(* A load is several queries.  The exam's row is read first when the exam  *)
(* is loaded, but last when a section or a question is (the order of the   *)
(* include objects), so what such an aggregate holds can be older than the *)
(* version it holds.  From the last query of a load to the first statement *)
(* of the save a handler does not wait for anything: one step.             *)
(***************************************************************************)
EXTENDS SectionTable, Sequences

CONSTANTS Sessions,     \* command handlers that run at the same time
          OrderRange,   \* Exam.orderRange, Section.orderRange
          MaxOrder,     \* bound: the orders a command starts from
          MaxVersion,   \* bound: saves of the exam
          MaxIndex      \* bound: the largest index a command asks for

ASSUME RangeAssumption == OrderRange \in Nat \ {0, 1}

VARIABLES db,        \* the committed database
          version,   \* exam.version
          session    \* what each handler has loaded, and the statements it has left

vars == <<db, version, session>>

Idle == [at |-> "idle"]

Init ==
    /\ db = EmptyOutline
    /\ version = 1
    /\ session = [s \in Sessions |-> Idle]

(***************************************************************************)
(* Loading.                                                                *)
(***************************************************************************)
\* A section's children are questions or sections by its content type.
Listed(d, p) ==
    ChildrenOf(d, p) \cap (IF p # Exam /\ d.type[p] = "QUESTION" THEN Questions ELSE Sections)

\* ORDER BY "order" ASC: rows of equal order come in any order.
Listings(d, p) ==
    LET kids == Listed(d, p)
    IN  {list \in [1..Cardinality(kids) -> {[id |-> i, order |-> d.rows[i].order] : i \in kids}] :
            \A j, k \in DOMAIN list :
                j < k => list[j].id # list[k].id /\ list[j].order <= list[k].order}

ParentIn(d, x) == IF x = Exam THEN Exam ELSE d.rows[x].parent
TypeIn(d, x)   == IF x \in Sections THEN d.type[x] ELSE "SECTION"

\* What is loaded of x, before the exam's row.
Copies(d, x) ==
    {[of |-> x, list |-> list, parent |-> ParentIn(d, x), type |-> TypeIn(d, x)] :
        list \in IF x \in Questions THEN {<<>>} ELSE Listings(d, x)}

\* The rows of a section with its children, or of a question.
ReadRows(s, x) ==
    /\ session[s].at = "idle" /\ x \in Stored(db)
    /\ \E copy \in Copies(db, x) :
          session' = [session EXCEPT ![s] = [at |-> "reading", copy |-> copy]]
    /\ UNCHANGED <<db, version>>

\* The copies a handler can go on with when it reads the exam's row: the exam with its
\* sections (were they newer, the save would fail), or what it has read before.
Held(s) ==
    IF session[s].at = "idle" THEN Copies(db, Exam)
    ELSE IF session[s].at = "reading" THEN {session[s].copy} ELSE {}

(***************************************************************************)
(* Placing a child: insertSection and insertChild, moveSection and         *)
(* moveChild compute the order the same way.                               *)
(***************************************************************************)
TargetIndex(list, index) ==
    IF index < 0 \/ index >= Len(list) THEN Len(list) - 1 ELSE index

\* Variant: a gap of one is thought to have room.
CrowdedWhenEqual(list, index) == list[index + 2].order - list[index + 1].order < 1

Crowded(list, index) == list[index + 2].order - list[index + 1].order <= 1

\* rebalance: every child of the list gets a new order.
Spread(list) ==
    [k \in DOMAIN list |-> [id |-> list[k].id, order |-> (k - 1) * OrderRange]]

\* The children as they are afterwards, and the order of the placed one.
Placement(list, asked) ==
    LET index == TargetIndex(list, asked)
        inner == index # Len(list) - 1 /\ index # 0
        kids  == IF inner /\ Crowded(list, index) THEN Spread(list) ELSE list
    IN  [list  |-> kids,
         order |-> IF list = <<>> THEN 0
                   ELSE IF inner THEN (kids[index + 1].order + kids[index + 2].order) \div 2
                   ELSE IF index = Len(list) - 1 THEN list[index + 1].order + OrderRange
                   ELSE list[1].order - OrderRange]

(***************************************************************************)
(* Saving.  A save is a list of statements, sent one at a time.            *)
(***************************************************************************)
\* do is "create" or "put".
Placing(do, id, p, order) == [do |-> do, id |-> id, parent |-> p, order |-> order]
Deleting(id)              == [do |-> "delete", id |-> id]
Owning(id, p, type)       == [do |-> "own", id |-> id, parent |-> p, type |-> type]
Dropping                  == [do |-> "drop"]

\* assertModifiable, with the status that is read with the version.
Modifiable == db.status # "APPROVED"

\* Bound: a command starts from orders in this range.
OrdersBounded(copy) ==
    \A k \in DOMAIN copy.list : copy.list[k].order \in -MaxOrder..MaxOrder

Saving(copy, loaded, work, todo) ==
    [at |-> "saving", copy |-> copy, version |-> loaded, work |-> work, todo |-> todo]

Send(s, copy, status, todo) ==
    /\ db.status # Deleted
    /\ version < MaxVersion /\ OrdersBounded(copy)
    /\ session' = [session EXCEPT ![s] =
                     Saving(copy, version, [db EXCEPT !.status = status], todo)]
    /\ UNCHANGED <<db, version>>

\* section.save and question.save also write the row they loaded.
Save(s, copy, type, changes) ==
    Send(s, copy, db.status,
         IF copy.of = Exam THEN changes
         ELSE changes \o <<Owning(copy.of, copy.parent, type)>>)

\* rebalance's events come before the event of the placed child.
PlaceChanges(copy, asked, do, id) ==
    LET place == Placement(copy.list, asked)
    IN  (IF place.list = copy.list THEN <<>>
         ELSE [k \in DOMAIN place.list |->
                 Placing("put", place.list[k].id, copy.of, place.list[k].order)])
        \o <<Placing(do, id, copy.of, place.order)>>

IdsOf(list) == {list[k].id : k \in DOMAIN list}

\* Variant: the content type is not looked at.
AcceptsAny(copy, id) == copy.of \in Parents

Accepts(copy, id) ==
    /\ copy.of \in Parents
    /\ copy.type = IF id \in Questions THEN "QUESTION" ELSE "SECTION"

\* crypto.randomUUID gives an id that no row and no handler has.
Known(s) ==
    IF session[s].at = "idle" THEN {}
    ELSE IdsOf(session[s].copy.list) \cup {session[s].copy.of, session[s].copy.parent} \cup
         (IF session[s].at = "reading" THEN {}
          ELSE Stored(session[s].work) \cup
               {st.id : st \in {session[s].todo[k] : k \in
                    {j \in DOMAIN session[s].todo : session[s].todo[j].do = "create"}}})

Fresh(id) == id \notin Stored(db) /\ \A s \in Sessions : id \notin Known(s)

\* createSection, createQuestion
CreateChild(s, copy, id, index) ==
    /\ Modifiable /\ Accepts(copy, id) /\ Fresh(id)
    /\ Save(s, copy, copy.type, PlaceChanges(copy, index, "create", id))

\* addSection, addQuestion: an existing row comes from another parent.
AddChild(s, copy, id, index) ==
    /\ Modifiable /\ Accepts(copy, id)
    /\ id \in Stored(db) /\ id \notin IdsOf(copy.list)
    /\ Save(s, copy, copy.type, PlaceChanges(copy, index, "put", id))

\* moveSection, moveChild.  To where the child is they change nothing, and save.
MoveChild(s, copy, id, index) ==
    /\ Modifiable /\ id \in IdsOf(copy.list)
    /\ copy.list[TargetIndex(copy.list, index) + 1].id # id
    /\ Save(s, copy, copy.type, PlaceChanges(copy, index, "put", id))

\* removeSection, removeQuestion
RemoveChild(s, copy, id) ==
    /\ Modifiable /\ id \in IdsOf(copy.list)
    /\ Save(s, copy, copy.type, <<Deleting(id)>>)

\* Section.updateDetails: the type only changes while there are no children.
UpdateSection(s, copy, type) ==
    /\ copy.of \in Sections /\ Modifiable
    /\ type # copy.type => copy.list = <<>>
    /\ Save(s, copy, type, <<>>)

\* Question.updateDetails; the save also writes the section it was loaded with.
UpdateQuestion(s, copy) ==
    /\ copy.of \in Questions /\ Modifiable
    /\ Save(s, copy, copy.type, <<>>)

\* Exam.updateStatus, and updateDetails with the status it has.
UpdateExam(s, copy, status) ==
    /\ copy.of = Exam /\ Modifiable
    /\ Send(s, copy, status, <<>>)

\* DeleteExamHandler: no check of the status.
DeleteExam(s, copy) ==
    /\ copy.of = Exam
    /\ Send(s, copy, Deleted, <<Dropping>>)

(***************************************************************************)
(* The statements, each on the transaction's own view of the rows.  The    *)
(* update of the exam's row is the first statement of exam.save and the    *)
(* last of the others; it holds the row until the end, so that wherever it *)
(* stands the transaction commits only if no other has since its load.     *)
(***************************************************************************)
Allowed(s, st) ==
    LET work == session[s].work
    IN  CASE st.do = "create" -> MayCreate(work, st.id, st.parent)
          [] st.do = "put"    -> MayPut(work, st.id, st.parent)
          [] st.do = "own"    -> version = session[s].version /\ MayPut(work, st.id, st.parent)
          [] st.do = "delete" -> st.id \in Stored(work)
          [] st.do = "drop"   -> TRUE

Effect(work, st) ==
    CASE st.do = "create" -> Create(work, st.id, st.parent, st.order)
      [] st.do = "put"    -> Put(work, st.id, st.parent, st.order)
      [] st.do = "own"    -> LET put == Put(work, st.id, st.parent, work.rows[st.id].order)
                             IN  IF st.id \in Questions THEN put
                                 ELSE [put EXCEPT !.type[st.id] = st.type]
      [] st.do = "delete" -> Delete(work, st.id)
      [] st.do = "drop"   -> [EmptyOutline EXCEPT !.status = Deleted]

Execute(s) ==
    /\ session[s].at = "saving" /\ session[s].todo # <<>>
    /\ Allowed(s, Head(session[s].todo))
    /\ session' = [session EXCEPT ![s] =
                     Saving(@.copy, @.version, Effect(@.work, Head(@.todo)), Tail(@.todo))]
    /\ UNCHANGED <<db, version>>

\* Variant: the where clause has the exam's id alone.
CommitAnyVersion(s) ==
    /\ session[s].at = "saving" /\ session[s].todo = <<>>
    /\ db' = session[s].work
    /\ version' = version + 1
    /\ session' = [session EXCEPT ![s] = Idle]

Commit(s) ==
    /\ session[s].at = "saving" /\ session[s].todo = <<>>
    /\ version = session[s].version
    /\ db' = session[s].work
    /\ version' = version + 1
    /\ session' = [session EXCEPT ![s] = Idle]

\* Nothing is kept: a refused statement, a conflict, a validation error, a
\* deadlock the database breaks, the transaction's timeout, or a crash.
Abandon(s) ==
    /\ session[s].at # "idle"
    /\ session' = [session EXCEPT ![s] = Idle]
    /\ UNCHANGED <<db, version>>

Edit(s, copy) ==
    \/ \E id \in Items, index \in -1..MaxIndex :
          \/ CreateChild(s, copy, id, index)
          \/ AddChild(s, copy, id, index)
          \/ MoveChild(s, copy, id, index)
    \/ \E id \in Items : RemoveChild(s, copy, id)
    \/ \E type \in SectionType : UpdateSection(s, copy, type)
    \/ UpdateQuestion(s, copy)
    \/ \E status \in ExamStatus : UpdateExam(s, copy, status)
    \/ DeleteExam(s, copy)

Next ==
    \E s \in Sessions :
        \/ \E x \in Items : ReadRows(s, x)
        \/ \E copy \in Held(s) : Edit(s, copy)
        \/ Execute(s) \/ Commit(s) \/ Abandon(s)

Spec == Init /\ [][Next]_vars

(***************************************************************************)
(* Properties.                                                             *)
(***************************************************************************)
IsCopy(copy) ==
    /\ copy.of \in Items \cup {Exam} /\ copy.parent \in Parents
    /\ copy.type \in SectionType
    /\ \A k \in DOMAIN copy.list : copy.list[k] \in [id : Items, order : Int]

\* Types: rows name parents that exist, and closure rows name sections that exist,
\* in the committed tables and in what every open transaction sees.
TypeOK ==
    /\ IsDatabase(db)
    /\ version \in Nat
    /\ \A s \in Sessions :
          session[s].at # "idle" =>
            /\ session[s].at \in {"reading", "saving"}
            /\ IsCopy(session[s].copy)
            /\ session[s].at = "saving" =>
                  session[s].version \in 1..version /\ IsDatabase(session[s].work)

\* section_closures holds exactly the ancestors that the parents give, whatever
\* sections were created, moved with all that is below them, or deleted, also by
\* saves whose copy was older than the tables (the triggers, and MoveSectionHandler).
ClosureFollowsParents == ClosureFollows(db)

\* Once the exam is approved nothing in it changes, until it is deleted: no save that
\* was loaded before the approval still commits (assertModifiable with exam.version).
ApprovedFrozen ==
    [][db.status = "APPROVED" => db' = db \/ db'.status = Deleted]_vars

Committing(s) == session[s].at = "saving" /\ session'[s].at = "idle" /\ version' # version

\* What the handler loaded is still what the tables hold.
Current(s) == session[s].copy \in Copies(db, session[s].copy.of)

OrdersDistinct(d) ==
    \A i, j \in Stored(d) :
        i # j /\ d.rows[i].parent = d.rows[j].parent /\ (i \in Sections <=> j \in Sections)
            => d.rows[i].order # d.rows[j].order

\* A save made from what the tables hold never gives two siblings the same order, also
\* when it has to rebalance them or moves a child next to itself (insertSection,
\* moveSection, insertChild, moveChild).
CurrentSavesKeepOrder ==
    [][\A s \in Sessions :
          Committing(s) /\ Current(s) /\ OrdersDistinct(db) => OrdersDistinct(db')]_vars

KindsAgree(d) ==
    \A i \in Stored(d) :
        d.rows[i].parent # Exam =>
            (d.type[d.rows[i].parent] = "QUESTION" <=> i \in Questions)

\* A save made from what the tables hold leaves questions in question sections and
\* sections in the others (createQuestion, addSection, updateDetails).
CurrentSavesKeepKinds ==
    [][\A s \in Sessions :
          Committing(s) /\ Current(s) /\ KindsAgree(db) => KindsAgree(db')]_vars

\* A child asked for at an index (0-based) stands there, with that many before it.
\* The comments of createSection and insertChild say so; the code puts it one later.
IndexHonoured ==
    [][\A s \in Sessions, id \in Items, index \in 0..MaxIndex : \A copy \in Held(s) :
          CreateChild(s, copy, id, index) /\ index < Len(copy.list) =>
            LET place == Placement(copy.list, index)
            IN  Cardinality({k \in DOMAIN place.list :
                               place.list[k].order < place.order}) = index]_vars

\* A section's type never changes while it has children: the message of updateDetails
\* asks for their removal first.
TypeChangesWhenEmpty ==
    [][\A p \in DOMAIN db.type \cap DOMAIN db'.type :
          db'.type[p] # db.type[p] => ChildrenOf(db, p) = {}]_vars
=============================================================================
