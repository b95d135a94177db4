---------------------------- MODULE MCExamEditing ----------------------------
(* ExamEditing with three sections, a question and two overlapping commands. *)
EXTENDS ExamEditing, TLC

Symmetric == Permutations(Sections) \cup Permutations(Sessions)

\* createSection at the tail: the state it leaves, without the steps.
Appended(d, id, p) ==
    Create(d, id, p, OrderRange * Cardinality(ChildrenOf(d, p)))

More(ds) ==
    UNION {{Appended(d, id, p) : id \in Sections \ Stored(d),
                                 p \in Stored(d) \cup {Exam}} : d \in ds}

\* updateDetails of an empty section, then createQuestion in it.
Asking(d, id, q) ==
    Create([d EXCEPT !.type[id] = "QUESTION"], q, id, 0)

\* Exams with three sections, and exams with two and a question in one of them.
Outlines ==
    LET two == More(More({EmptyOutline}))
    IN  More(two) \cup
        UNION {{Asking(d, id, q) : id \in {i \in Stored(d) : ChildrenOf(d, i) = {}},
                                   q \in Questions} : d \in two}

\* They take three or four saves, and other updates of the exam come to any more.
StartInit ==
    /\ db \in Outlines
    /\ version = 5
    /\ session = [s \in Sessions |-> Idle]

StartSpec == StartInit /\ [][Next]_vars
=============================================================================
