--------------------------- MODULE AchievementProofs ---------------------------
(***************************************************************************)
(* Theorems about Achievement for every set of users and of handlers, any  *)
(* levels, and with failures, crashes and redelivery.                      *)
(***************************************************************************)
EXTENDS Achievement, FiniteSetTheorems, TLAPS

RowsFor(p) == IF IsLogin(p) THEN LoginRows ELSE AttemptRows

TracksOf(p) == IF IsLogin(p) THEN LoginTracks ELSE AttemptTracks

\* A loaded row has the columns of its kind.
LEMMA HandledType ==
    ASSUME TypeOK, NEW h \in Handlers, handler[h].pc \in {"reading", "saving"}
    PROVE  /\ handler[h].msg \in Payloads
           /\ handler[h].row \in RowsFor(handler[h].msg)
  BY DEF TypeOK, Handlings, Idle, RowsFor

\* The stored row of a message's user and kind.
LEMMA StoredType ==
    ASSUME TypeOK, NEW p \in Payloads
    PROVE  RowOf(p) \in RowsFor(p) \cup {NoRow} /\ p.user \in Users
  BY DEF TypeOK, RowOf, RowsFor, Payloads

\* updateProgress keeps the version and the columns it does not look at, and never
\* lowers a count.
LEMMA CountedFacts ==
    ASSUME NEW p \in Payloads, ~IsLogin(p), NEW row \in AttemptRows
    PROVE  /\ Counted(row, p) \in AttemptRows
           /\ Counted(row, p).version = row.version
           /\ \A t \in AttemptTracks : Counted(row, p)[t] >= row[t]
           /\ \A t \in AttemptTracks \ {RankColumn(p)} : Counted(row, p)[t] = row[t]
  <1>1. RankColumn(p) \in {"total", "poor", "good", "perfect"}
    BY DEF RankColumn, Payloads, IsLogin
  <1>2. DOMAIN row = {"version", "total", "good", "perfect"}
    BY DEF AttemptRows
  <1>3. Counted(row, p) =
          [version |-> row.version,
           total |-> IF RankColumn(p) = "total" THEN row.total + 1 ELSE row.total,
           good |-> IF RankColumn(p) = "good" THEN row.good + 1 ELSE row.good,
           perfect |-> IF RankColumn(p) = "perfect" THEN row.perfect + 1 ELSE row.perfect]
    BY <1>1, <1>2 DEF Counted
  <1>4. QED
    BY <1>1, <1>3 DEF AttemptRows, AttemptTracks

\* A login lowers neither count, and the streak only rises with the current streak.
LEMMA LoggedInFacts ==
    ASSUME NEW p \in Payloads, IsLogin(p), NEW row \in LoginRows
    PROVE  /\ LoggedIn(row, p) \in LoginRows
           /\ LoggedIn(row, p).version = row.version
           /\ LoggedIn(row, p).login >= row.login
           /\ LoggedIn(row, p).streak >= row.streak
           /\ LoggedIn(row, p).last - LoggedIn(row, p).started # LoggedIn(row, p).streak
                => LoggedIn(row, p).streak = row.streak
  <1>1. p.day \in Nat
    BY DEF Payloads, IsLogin
  <1>2. QED
    BY <1>1 DEF LoggedIn, SinceLast, LoginRows

\* Only a tested track changes, and it only rises.
LEMMA ProgressedFacts ==
    ASSUME NEW p \in Payloads, NEW row \in RowsFor(p)
    PROVE  /\ Progressed(row, p) \in RowsFor(p)
           /\ Progressed(row, p).version = row.version
           /\ \A t \in TracksOf(p) :
                /\ Progressed(row, p)[t] >= row[t]
                /\ t \notin Tested(row, p) => Progressed(row, p)[t] = row[t]
           /\ Tested(row, p) \subseteq TracksOf(p)
  <1>1. CASE IsLogin(p)
    BY <1>1, LoggedInFacts DEF Progressed, Tested, LoginTracks, RowsFor, TracksOf
  <1>2. CASE ~IsLogin(p)
    <2>1. RankColumn(p) \in AttemptTracks => Tested(row, p) = {RankColumn(p)}
      BY <1>2 DEF Tested
    <2>2. QED
      BY <1>2, <2>1, CountedFacts DEF Progressed, Tested, RowsFor, TracksOf
  <1>3. QED
    BY <1>1, <1>2

\* What a save makes of the row it is current for: all of it, and the next version.
LEMMA WrittenFacts ==
    ASSUME NEW p \in Payloads, NEW row \in RowsFor(p), NEW now \in RowsFor(p)
    PROVE  /\ Written(p, row, now) \in RowsFor(p)
           /\ Written(p, row, now).version = now.version + 1
           /\ row = Progressed(now, p) =>
                \A t \in TracksOf(p) :
                   Written(p, row, now)[t] = row[t]
  <1>1. CASE IsLogin(p)
    <2>1. DOMAIN now = {"version", "login", "streak", "started", "last"}
      BY <1>1 DEF RowsFor, LoginRows
    <2>2. Written(p, row, now) =
            [version |-> now.version + 1, login |-> row.login, streak |-> row.streak,
             started |-> row.started, last |-> row.last]
      BY <1>1, <2>1 DEF Written
    <2>3. QED
      BY <1>1, <2>2 DEF RowsFor, LoginRows, LoginTracks, TracksOf
  <1>2. CASE ~IsLogin(p) /\ p.event = "submitted"
    <2>1. DOMAIN now = {"version", "total", "good", "perfect"}
      BY <1>2 DEF RowsFor, AttemptRows
    <2>2. Written(p, row, now) =
            [version |-> now.version + 1, total |-> row.total, good |-> now.good,
             perfect |-> now.perfect]
      BY <1>2, <2>1 DEF Written
    <2>3. row = Progressed(now, p) => row.good = now.good /\ row.perfect = now.perfect
      BY <1>2, CountedFacts DEF Progressed, RowsFor, RankColumn, AttemptTracks
    <2>4. QED
      BY <1>2, <2>2, <2>3 DEF RowsFor, AttemptRows, AttemptTracks, TracksOf
  <1>3. CASE ~IsLogin(p) /\ p.event # "submitted"
    <2>1. DOMAIN now = {"version", "total", "good", "perfect"}
      BY <1>3 DEF RowsFor, AttemptRows
    <2>2. Written(p, row, now) =
            [version |-> now.version + 1, total |-> now.total, good |-> row.good,
             perfect |-> row.perfect]
      BY <1>3, <2>1 DEF Written
    <2>3. RankColumn(p) \in {"poor", "good", "perfect"}
      BY <1>3 DEF RankColumn, Payloads, IsLogin
    <2>4. row = Progressed(now, p) => row.total = now.total
      BY <1>3, <2>3, CountedFacts DEF Progressed, RowsFor, AttemptTracks
    <2>5. QED
      BY <1>3, <2>2, <2>4 DEF RowsFor, AttemptRows, AttemptTracks, TracksOf
  <1>4. QED
    BY <1>1, <1>2, <1>3

--------------------------------------------------------------------------------
(***************************************************************************)
(* Types.                                                                  *)
(***************************************************************************)
\* What the broker's operations do to the set of messages it holds.
LEMMA BagFacts ==
    ASSUME NEW S, NEW B, NEW C
    PROVE  /\ BagToSet(SetToBag(S)) = S
           /\ BagToSet(B (+) C) = BagToSet(B) \cup BagToSet(C)
           /\ BagToSet(B (-) C) \subseteq BagToSet(B)
           /\ BagToSet(EmptyBag) = {}
  BY DEF BagToSet, SetToBag, EmptyBag, (+), (-)

\* A new row has no count.
LEMMA NewRowFacts ==
    ASSUME TypeOK, NEW p \in Payloads
    PROVE  NewRow(p) \in RowsFor(p) /\ \A t \in TracksOf(p) : NewRow(p)[t] = 0
  <1>1. CASE IsLogin(p)
    <2>1. NewRow(p) = [version |-> 1, login |-> 0, streak |-> 0,
                       started |-> today, last |-> today]
      BY <1>1 DEF NewRow
    <2>2. QED
      BY <1>1, <2>1 DEF TypeOK, RowsFor, TracksOf, LoginRows, LoginTracks
  <1>2. CASE ~IsLogin(p)
    <2>1. NewRow(p) = [version |-> 1, total |-> 0, good |-> 0, perfect |-> 0]
      BY <1>2 DEF NewRow
    <2>2. QED
      BY <1>2, <2>1 DEF RowsFor, TracksOf, AttemptRows, AttemptTracks
  <1>3. QED
    BY <1>1, <1>2

\* The service starts well typed.
LEMMA InitType == Init => TypeOK
  <1> SUFFICES ASSUME Init PROVE TypeOK
    OBVIOUS
  <1>1. BagToSet(queue) \subseteq Payloads
    BY BagFacts DEF Init
  <1>2. handler \in [Handlers -> Handlings]
        /\ \A h \in Handlers : handler[h].pc = "idle"
    BY DEF Init, Idle, Handlings
  <1>3. badges \in [Users -> [Badges -> Nat]]
    BY DEF Init
  <1>4. lost \in [Users \X BOOLEAN -> Nat]
    BY DEF Init
  <1>5. attempts \in [Users -> AttemptRows \cup {NoRow}]
        /\ logins \in [Users -> LoginRows \cup {NoRow}]
    BY DEF Init
  <1>6. QED
    BY <1>1, <1>2, <1>3, <1>4, <1>5 DEF TypeOK, Init

\* Every step keeps the types.
LEMMA NextType ==
    ASSUME AchievementAssumption, TypeOK, [Next]_vars
    PROVE  TypeOK'
  <1>1. ASSUME NEW p \in Publishable, PublishMessage(p) PROVE TypeOK'
    <2>1. p \in Payloads
      BY DEF Publishable, Payloads, TypeOK
    <2>2. BagToSet(queue') \subseteq Payloads
      BY <1>1, <2>1, BagFacts DEF PublishMessage, TypeOK
    <2>3. QED
      BY <1>1, <2>2 DEF PublishMessage, TypeOK, rows
  <1>2. CASE NextDay
    BY <1>2 DEF NextDay, TypeOK, rows
  <1>3. ASSUME NEW h \in Handlers, NEW p \in BagToSet(queue), Load(h, p) PROVE TypeOK'
    <2>1. p \in Payloads /\ p.user \in Users
      BY StoredType DEF TypeOK
    <2> DEFINE row == IF RowOf(p) = NoRow THEN NewRow(p) ELSE RowOf(p)
    <2>2. row \in RowsFor(p)
      BY <2>1, StoredType, NewRowFacts
    <2>3. BagToSet(queue') \subseteq Payloads
      BY <1>3, BagFacts DEF Load, TypeOK
    <2>4. /\ attempts' \in [Users -> AttemptRows \cup {NoRow}]
          /\ logins' \in [Users -> LoginRows \cup {NoRow}]
      <3>1. IF IsLogin(p)
            THEN logins' = [logins EXCEPT ![p.user] = row] /\ UNCHANGED attempts
            ELSE attempts' = [attempts EXCEPT ![p.user] = row] /\ UNCHANGED logins
        BY <1>3 DEF Load
      <3> HIDE DEF row
      <3>2. QED
        BY <2>1, <2>2, <3>1 DEF TypeOK, RowsFor
    <2>5. /\ handler' = [handler EXCEPT ![h] = [pc |-> "reading", msg |-> p, row |-> row]]
          /\ UNCHANGED <<badges, today, published, lost, crashes>>
      BY <1>3 DEF Load
    <2>6. [pc |-> "reading", msg |-> p, row |-> row] \in Handlings
      BY <2>1, <2>2 DEF Handlings, RowsFor
    <2> HIDE DEF row
    <2>7. \A g \in Handlers : handler'[g].pc \in {"reading", "saving"} =>
             handler'[g].row \in RowsFor(handler'[g].msg)
      BY <2>2, <2>5 DEF TypeOK, RowsFor
    <2>8. QED
      BY <2>3, <2>4, <2>5, <2>6, <2>7 DEF TypeOK, RowsFor, IsLogin
  <1>4. ASSUME NEW h \in Handlers, Compute(h) PROVE TypeOK'
    <2> DEFINE p == handler[h].msg
               next == [pc |-> "saving", msg |-> p, row |-> Progressed(handler[h].row, p),
                        earned |-> Earned(handler[h].row, p, Held(p.user))]
    <2>1. p \in Payloads /\ handler[h].row \in RowsFor(p)
      BY <1>4, HandledType DEF Compute
    <2>2. Progressed(handler[h].row, p) \in RowsFor(p)
      BY <2>1, ProgressedFacts
    <2>3. next \in Handlings
      BY <2>1, <2>2 DEF Handlings, RowsFor, Earned, Awarded
    <2>4. handler' = [handler EXCEPT ![h] = next]
      BY <1>4 DEF Compute
    <2>5. \A g \in Handlers : handler'[g].pc \in {"reading", "saving"} =>
             handler'[g].row \in RowsFor(handler'[g].msg)
      BY <2>2, <2>4 DEF TypeOK, RowsFor
    <2> HIDE DEF next
    <2>6. QED
      BY <1>4, <2>3, <2>4, <2>5 DEF Compute, TypeOK, RowsFor, IsLogin, rows
  <1>5. ASSUME NEW h \in Handlers, SaveProgress(h) PROVE TypeOK'
    <2> DEFINE p == handler[h].msg
    <2>1. p \in Payloads /\ handler[h].row \in RowsFor(p) /\ handler[h].pc = "saving"
      BY <1>5, HandledType DEF SaveProgress
    <2>2. p.user \in Users /\ RowOf(p) \in RowsFor(p) \cup {NoRow}
      BY <2>1, StoredType
    <2>3. RowOf(p) \in RowsFor(p) => Written(p, handler[h].row, RowOf(p)) \in RowsFor(p)
      BY <2>1, WrittenFacts
    <2>4. RowOf(p) # NoRow
      BY <1>5, <2>1 DEF SaveProgress, Current
    <2>5. /\ attempts' \in [Users -> AttemptRows \cup {NoRow}]
          /\ logins' \in [Users -> LoginRows \cup {NoRow}]
      BY <1>5, <2>1, <2>2, <2>3, <2>4 DEF SaveProgress, TypeOK, RowsFor, RowOf
    <2>6. badges' \in [Users -> [Badges -> Nat]]
      BY <1>5, <2>2 DEF SaveProgress, TypeOK
    <2>7. handler' = [handler EXCEPT ![h] = [pc |-> "acking", msg |-> p]]
      BY <1>5 DEF SaveProgress
    <2>8. [pc |-> "acking", msg |-> p] \in Handlings
      BY <2>1 DEF Handlings
    <2>9. QED
      BY <1>5, <2>5, <2>6, <2>7, <2>8 DEF SaveProgress, TypeOK, IsLogin
  <1>6. ASSUME NEW h \in Handlers, SaveStale(h) \/ CallFails(h) PROVE TypeOK'
    <2>1. handler[h].msg \in Payloads /\ handler[h].msg.user \in Users
      BY <1>6, HandledType, StoredType DEF SaveStale, CallFails
    <2>2. handler' = [handler EXCEPT ![h] = [pc |-> "acking", msg |-> handler[h].msg]]
      BY <1>6 DEF SaveStale, CallFails
    <2>3. [pc |-> "acking", msg |-> handler[h].msg] \in Handlings
      BY <2>1 DEF Handlings
    <2>4. lost' \in [Users \X BOOLEAN -> Nat]
      <3> DEFINE key == <<handler[h].msg.user, IsLogin(handler[h].msg)>>
      <3>1. key \in Users \X BOOLEAN
        BY <2>1 DEF IsLogin
      <3>2. lost' = [lost EXCEPT ![key] = @ + 1] \/ lost' = lost
        BY <1>6 DEF SaveStale, CallFails
      <3> HIDE DEF key
      <3>3. lost \in [Users \X BOOLEAN -> Nat]
        BY DEF TypeOK
      <3>4. QED
        BY <3>1, <3>2, <3>3
    <2>5. UNCHANGED <<rows, queue, today>>
      BY <1>6 DEF SaveStale, CallFails
    <2>6. QED
      BY <2>2, <2>3, <2>4, <2>5 DEF TypeOK, IsLogin, rows
  <1>7. ASSUME NEW h \in Handlers, Acknowledge(h) PROVE TypeOK'
    <2>1. Idle \in Handlings /\ Idle.pc = "idle"
      BY DEF Handlings, Idle
    <2>2. QED
      BY <1>7, <2>1 DEF Acknowledge, TypeOK, IsLogin, rows
  <1>8. CASE Crash
    <2> DEFINE busy == {h \in Handlers : handler[h] # Idle}
               unacked == {handler[h].msg : h \in busy}
    <2>1. unacked \subseteq Payloads
      BY DEF TypeOK, Handlings
    <2>2. BagToSet(queue') \subseteq Payloads
      <3> DEFINE again == [p \in unacked |-> Cardinality({h \in busy : handler[h].msg = p})]
      <3>1. BagToSet(again) = unacked
        BY DEF BagToSet
      <3>2. queue' = queue (+) again
        BY <1>8 DEF Crash
      <3> HIDE DEF again, unacked
      <3>3. BagToSet(queue (+) again) = BagToSet(queue) \cup BagToSet(again)
        BY BagFacts, Zenon
      <3>4. QED
        BY <2>1, <3>1, <3>2, <3>3 DEF TypeOK
    <2>3. Idle \in Handlings /\ Idle.pc = "idle"
      BY DEF Handlings, Idle
    <2>4. QED
      BY <1>8, <2>2, <2>3 DEF Crash, TypeOK, rows
  <1>9. CASE UNCHANGED vars
    BY <1>9 DEF vars, TypeOK, IsLogin
  <1>10. QED
    BY <1>1, <1>2, <1>3, <1>4, <1>5, <1>6, <1>7, <1>8, <1>9 DEF Next, Handle

\* Every variable of the service keeps its type (the code: the criteria rows, the
\* badge rows, the handlings between their awaits).
THEOREM TypeCorrect == Spec => []TypeOK
  <1>1. Init => TypeOK
    BY InitType
  <1>2. TypeOK /\ [Next]_vars => TypeOK'
    BY NextType, AchievementAssumption
  <1>3. QED
    BY <1>1, <1>2, PTL DEF Spec

--------------------------------------------------------------------------------
(***************************************************************************)
(* Badges.  A handling whose version is current works on the current row:  *)
(* saving its row bumps the version, which leaves the other handlings of   *)
(* that row behind, and touches no badge of another row.                   *)
(***************************************************************************)
Sound(h) ==
    handler[h].pc \in {"reading", "saving"} =>
        LET p == handler[h].msg
            row == handler[h].row
            now == RowOf(p)
        IN  /\ now # NoRow
            /\ row.version <= now.version
            /\ (row.version = now.version /\ handler[h].pc = "reading") => row = now
            /\ (row.version = now.version /\ handler[h].pc = "saving") =>
                 /\ row = Progressed(now, p)
                 /\ \A b \in Badges : b \in handler[h].earned <=>
                      (/\ b \in Awarded
                       /\ b[1] \in Tested(now, p) /\ Progressed(now, p)[b[1]] >= b[2]
                       /\ badges[p.user][b] = 0)

Matched(u, b) == badges[u][b] = IF b \in Awarded /\ Progress(u, b[1]) >= b[2] THEN 1 ELSE 0

\* The invariant, one handling at a time.
LEMMA SoundOf == HandlingsSound <=> \A h \in Handlers : Sound(h)
  BY DEF HandlingsSound, Sound

\* A track is a column of the row of its messages.
LEMMA ProgressFacts ==
    ASSUME TypeOK, NEW p \in Payloads, NEW t \in TracksOf(p)
    PROVE  Progress(p.user, t) = IF RowOf(p) = NoRow THEN 0 ELSE RowOf(p)[t]
  BY DEF Progress, TracksOf, RowOf, LoginTracks, AttemptTracks

\* A handling that no step moves stays sound while its row and the badges of its row's
\* tracks stay.
LEMMA Undisturbed ==
    ASSUME TypeOK, NEW h \in Handlers, Sound(h), handler'[h] = handler[h],
           handler[h].pc \in {"reading", "saving"} =>
              /\ RowOf(handler[h].msg)' = RowOf(handler[h].msg)
              /\ \A b \in Badges : b[1] \in TracksOf(handler[h].msg) =>
                    badges'[handler[h].msg.user][b] = badges[handler[h].msg.user][b]
    PROVE  Sound(h)'
  <1> SUFFICES ASSUME handler[h].pc \in {"reading", "saving"} PROVE Sound(h)'
    BY DEF Sound
  <1> DEFINE p == handler[h].msg
             now == RowOf(p)
  <1>1. p \in Payloads /\ now \in RowsFor(p)
    BY HandledType, StoredType DEF Sound
  <1>2. Tested(now, p) \subseteq TracksOf(p)
    BY <1>1, ProgressedFacts
  <1>3. p' = p /\ RowOf(p)' = now
    OBVIOUS
  <1>4. QED
    BY <1>2, <1>3 DEF Sound

\* A save that is current makes its row the user's row, with the counts it computed.
LEMMA SaveFacts ==
    ASSUME AchievementAssumption, TypeOK, NEW h \in Handlers, Sound(h), SaveProgress(h)
    PROVE  /\ handler[h].msg \in Payloads /\ handler'[h].msg = handler[h].msg
           /\ RowOf(handler[h].msg) \in RowsFor(handler[h].msg)
           /\ RowOf(handler[h].msg) # NoRow
           /\ handler[h].row.version = RowOf(handler[h].msg).version
           /\ handler[h].row = Progressed(RowOf(handler[h].msg), handler[h].msg)
           /\ RowOf(handler[h].msg)' =
                Written(handler[h].msg, handler[h].row, RowOf(handler[h].msg))
           /\ RowOf(handler[h].msg)' # NoRow
           /\ \A t \in TracksOf(handler[h].msg) :
                RowOf(handler[h].msg)'[t] = Progressed(RowOf(handler[h].msg), handler[h].msg)[t]
           /\ RowOf(handler[h].msg)'.version = RowOf(handler[h].msg).version + 1
  <1> DEFINE p == handler[h].msg
             now == RowOf(p)
             row == handler[h].row
  <1>1. handler[h].pc = "saving" /\ now # NoRow /\ now.version = row.version
    BY DEF SaveProgress, Current
  <1>2. p \in Payloads /\ row \in RowsFor(p) /\ p.user \in Users
    BY <1>1, HandledType, StoredType
  <1>3. now \in RowsFor(p)
    BY <1>1, <1>2, StoredType
  <1>4. row = Progressed(now, p)
    BY <1>1 DEF Sound
  <1>5. /\ Written(p, row, now) \in RowsFor(p)
        /\ Written(p, row, now).version = now.version + 1
        /\ \A t \in TracksOf(p) : Written(p, row, now)[t] = row[t]
    BY <1>2, <1>3, <1>4, WrittenFacts
  <1>6. RowOf(p)' = Written(p, row, now)
    BY <1>2 DEF SaveProgress, RowOf, TypeOK
  <1>7. NoRow \notin RowsFor(p)
    BY DEF AchievementAssumption, RowsFor
  <1>8. handler'[h].msg = p
    BY DEF SaveProgress, TypeOK
  <1>9. QED
    BY <1>1, <1>2, <1>3, <1>4, <1>5, <1>6, <1>7, <1>8

\* The rows and badges a save leaves alone: those of other users and, of the same
\* user, those of the other row.
LEMMA SaveFrame ==
    ASSUME TypeOK, NEW h \in Handlers, Sound(h), SaveProgress(h),
           NEW q \in Payloads,
           q.user # handler[h].msg.user \/ IsLogin(q) # IsLogin(handler[h].msg)
    PROVE  /\ RowOf(q)' = RowOf(q)
           /\ \A b \in Badges : b[1] \in TracksOf(q) =>
                badges'[q.user][b] = badges[q.user][b]
  <1> DEFINE p == handler[h].msg
  <1>1. handler[h].pc = "saving" /\ RowOf(p) # NoRow /\ RowOf(p).version = handler[h].row.version
    BY DEF SaveProgress, Current
  <1>2. p \in Payloads /\ p.user \in Users /\ q.user \in Users /\ RowOf(p) \in RowsFor(p)
    BY <1>1, HandledType, StoredType
  <1>3. RowOf(q)' = RowOf(q)
    <2>1. CASE IsLogin(q)
      <3>1. logins'[q.user] = logins[q.user]
        BY <1>2, <2>1 DEF SaveProgress, TypeOK, IsLogin
      <3>2. QED
        BY <2>1, <3>1 DEF RowOf
    <2>2. CASE ~IsLogin(q)
      <3>1. attempts'[q.user] = attempts[q.user]
        BY <1>2, <2>2 DEF SaveProgress, TypeOK, IsLogin
      <3>2. QED
        BY <2>2, <3>1 DEF RowOf
    <2>3. QED
      BY <2>1, <2>2
  <1>4. Tested(RowOf(p), p) \subseteq TracksOf(p)
    BY <1>2, ProgressedFacts
  <1>5. \A b \in Badges : b \in handler[h].earned => b[1] \in TracksOf(p)
    BY <1>1, <1>4 DEF Sound
  <1>6. LoginTracks \cap AttemptTracks = {}
    BY DEF LoginTracks, AttemptTracks
  <1>7. badges' = [badges EXCEPT ![p.user] =
                     [b \in Badges |-> IF b \in handler[h].earned THEN @[b] + 1 ELSE @[b]]]
    BY DEF SaveProgress
  <1>8. ASSUME NEW b \in Badges, b[1] \in TracksOf(q)
        PROVE  badges'[q.user][b] = badges[q.user][b]
    <2>1. CASE q.user # p.user
      BY <1>2, <1>7, <2>1 DEF TypeOK
    <2>2. CASE q.user = p.user /\ IsLogin(q) # IsLogin(p)
      <3>1. b[1] \notin TracksOf(p)
        BY <1>6, <1>8, <2>2 DEF TracksOf, IsLogin
      <3>2. b \notin handler[h].earned
        BY <1>5, <3>1
      <3>3. badges'[p.user] =
              [a \in Badges |-> IF a \in handler[h].earned THEN badges[p.user][a] + 1
                               ELSE badges[p.user][a]]
        BY <1>2, <1>7 DEF TypeOK
      <3>4. badges'[p.user][b] = badges[p.user][b]
        BY <3>2, <3>3
      <3>5. QED
        BY <2>2, <3>4
    <2>3. QED
      BY <2>1, <2>2
  <1>9. QED
    BY <1>3, <1>8

\* A save awards exactly the badges its counts reach.
LEMMA SaveMatches ==
    ASSUME AchievementAssumption, TypeOK, BadgesMatchProgress,
           NEW h \in Handlers, Sound(h), SaveProgress(h)
    PROVE  BadgesMatchProgress'
  <1> DEFINE p == handler[h].msg
             now == RowOf(p)
             next == Progressed(now, p)
  <1>1. /\ p \in Payloads /\ p.user \in Users /\ p' = p
        /\ now \in RowsFor(p) /\ now # NoRow
        /\ RowOf(p)' # NoRow /\ \A t \in TracksOf(p) : RowOf(p)'[t] = next[t]
    BY SaveFacts, StoredType
  <1>2. handler[h].pc = "saving" /\ now.version = handler[h].row.version
    BY DEF SaveProgress, Current
  <1>3. /\ Tested(now, p) \subseteq TracksOf(p)
        /\ \A t \in TracksOf(p) : /\ next[t] >= now[t]
                                  /\ t \notin Tested(now, p) => next[t] = now[t]
    BY <1>1, ProgressedFacts
  <1>4. \A b \in Badges : b \in handler[h].earned <=>
           b \in Awarded /\ b[1] \in Tested(now, p) /\ next[b[1]] >= b[2] /\ badges[p.user][b] = 0
    BY <1>2 DEF Sound
  <1>5. badges' = [badges EXCEPT ![p.user] =
                     [b \in Badges |-> IF b \in handler[h].earned THEN @[b] + 1 ELSE @[b]]]
    BY DEF SaveProgress
  <1>6. SUFFICES ASSUME NEW u \in Users, NEW b \in Badges PROVE Matched(u, b)'
    BY DEF BadgesMatchProgress, Matched
  <1>7. Matched(u, b) /\ b[1] \in LoginTracks \cup AttemptTracks /\ b[2] \in Nat
    BY DEF BadgesMatchProgress, Matched, Badges, AchievementAssumption
  <1>8. CASE u = p.user /\ b[1] \in TracksOf(p)
    <2>1. badges'[u][b] = IF b \in handler[h].earned THEN badges[u][b] + 1 ELSE badges[u][b]
      <3>1. badges'[p.user] = [a \in Badges |-> IF a \in handler[h].earned
                                 THEN badges[p.user][a] + 1 ELSE badges[p.user][a]]
        BY <1>1, <1>5 DEF TypeOK
      <3>2. QED
        BY <1>8, <3>1
    <2>2. Progress(u, b[1]) = now[b[1]]
      BY <1>1, <1>8, ProgressFacts
    <2>3. Progress(u, b[1])' = next[b[1]]
      BY <1>1, <1>8 DEF Progress, TracksOf, RowOf, LoginTracks, AttemptTracks
    <2>4. next[b[1]] \in Nat /\ now[b[1]] \in Nat
      BY <1>1, <1>8, ProgressedFacts
         DEF RowsFor, TracksOf, LoginRows, AttemptRows, LoginTracks, AttemptTracks
    <2> HIDE DEF next, now
    <2>5. QED
      BY <1>3, <1>4, <1>7, <1>8, <2>1, <2>2, <2>3, <2>4 DEF Matched
  <1>9. CASE ~(u = p.user /\ b[1] \in TracksOf(p))
    <2>1. PICK q \in Payloads : q.user = u /\ b[1] \in TracksOf(q)
      <3>1. [user |-> u, event |-> "submitted"] \in Payloads
        BY DEF Payloads
      <3>2. [user |-> u, event |-> "login", day |-> 0] \in Payloads
        BY DEF Payloads
      <3>3. QED
        BY <1>7, <3>1, <3>2 DEF TracksOf, IsLogin
    <2>2. q.user # p.user \/ IsLogin(q) # IsLogin(p)
      BY <1>9, <2>1 DEF TracksOf
    <2>3. RowOf(q)' = RowOf(q) /\ badges'[u][b] = badges[u][b]
      BY <2>1, <2>2, SaveFrame
    <2>4. Progress(u, b[1])' = Progress(u, b[1])
      BY <2>1, <2>3 DEF Progress, TracksOf, RowOf, LoginTracks, AttemptTracks
    <2>5. QED
      BY <1>7, <2>3, <2>4 DEF Matched
  <1>10. QED
    BY <1>8, <1>9

\* A save leaves the other handlings of its row behind and the rest as they were.
LEMMA SaveSound ==
    ASSUME AchievementAssumption, TypeOK, HandlingsSound,
           NEW h \in Handlers, SaveProgress(h)
    PROVE  HandlingsSound'
  <1> DEFINE p == handler[h].msg
  <1>1. SUFFICES ASSUME NEW g \in Handlers PROVE Sound(g)'
    BY DEF HandlingsSound, Sound
  <1>2. Sound(g) /\ Sound(h)
    BY SoundOf
  <1>3. handler' = [handler EXCEPT ![h] = [pc |-> "acking", msg |-> p]]
    BY DEF SaveProgress
  <1>4. CASE g = h \/ handler[g].pc \notin {"reading", "saving"}
    <2>1. handler'[g].pc \notin {"reading", "saving"}
      BY <1>3, <1>4 DEF TypeOK
    <2>2. QED
      BY <2>1 DEF Sound
  <1>5. CASE g # h /\ handler[g].pc \in {"reading", "saving"}
    <2> DEFINE q == handler[g].msg
    <2>1. handler'[g] = handler[g] /\ q \in Payloads /\ handler[g].row \in RowsFor(q)
      BY <1>3, <1>5, HandledType DEF TypeOK
    <2>2. CASE q.user = p.user /\ IsLogin(q) = IsLogin(p)
      <3>1. /\ RowOf(q) = RowOf(p) /\ RowOf(q)' = RowOf(p)'
            /\ RowsFor(q) = RowsFor(p)
        <4>1. p' = p /\ q' = q
          BY <1>2, <2>1, SaveFacts
        <4>2. QED
          BY <2>2, <4>1 DEF RowOf, RowsFor
      <3>2. /\ RowOf(q)' # NoRow
            /\ RowOf(q)'.version = RowOf(q).version + 1
            /\ RowOf(q) \in RowsFor(q)
        BY <1>2, <3>1, SaveFacts
      <3>3. handler[g].row.version <= RowOf(q).version
        BY <1>2, <1>5 DEF Sound
      <3>4. /\ handler[g].row.version <= RowOf(q)'.version
            /\ handler[g].row.version # RowOf(q)'.version
        <4>1. handler[g].row.version \in Nat /\ RowOf(q).version \in Nat
          BY <2>1, <3>2 DEF RowsFor, LoginRows, AttemptRows
        <4>2. QED
          BY <3>2, <3>3, <4>1
      <3>5. handler'[g].msg = q /\ handler'[g].row = handler[g].row
        BY <2>1
      <3>6. QED
        BY <3>2, <3>4, <3>5 DEF Sound, RowOf
    <2>3. CASE q.user # p.user \/ IsLogin(q) # IsLogin(p)
      <3>1. /\ RowOf(q)' = RowOf(q)
            /\ \A b \in Badges : b[1] \in TracksOf(q) =>
                 badges'[q.user][b] = badges[q.user][b]
        BY <1>2, <2>1, <2>3, SaveFrame
      <3>2. RowOf(handler[g].msg)' = RowOf(handler[g].msg)
        BY <2>1, <3>1 DEF RowOf
      <3>3. QED
        BY <1>2, <2>1, <3>1, <3>2, Undisturbed
    <2>4. QED
      BY <2>2, <2>3
  <1>6. QED
    BY <1>4, <1>5

\* Loading a message leaves every count where it was: a new row starts at 0.
LEMMA LoadProgress ==
    ASSUME AchievementAssumption, TypeOK,
           NEW h \in Handlers, NEW p \in Payloads, Load(h, p)
    PROVE  /\ \A u \in Users : \A t \in AttemptTracks \cup LoginTracks :
                Progress(u, t)' = Progress(u, t)
           /\ handler[h].pc # "reading"
           /\ \A q \in Payloads : RowOf(q) # NoRow => RowOf(q)' = RowOf(q)
  <1> DEFINE row == IF RowOf(p) = NoRow THEN NewRow(p) ELSE RowOf(p)
  <1>1. /\ row \in RowsFor(p) /\ p.user \in Users
        /\ RowOf(p) # NoRow => row = RowOf(p)
        /\ RowOf(p) = NoRow => \A t \in TracksOf(p) : row[t] = 0
    BY StoredType, NewRowFacts
  <1>2. row # NoRow
    BY <1>1 DEF AchievementAssumption, RowsFor
  <1>3. /\ handler[h] = Idle
        /\ IF IsLogin(p)
           THEN logins' = [logins EXCEPT ![p.user] = row] /\ UNCHANGED attempts
           ELSE attempts' = [attempts EXCEPT ![p.user] = row] /\ UNCHANGED logins
    BY DEF Load
  <1> HIDE DEF row
  <1>4. ASSUME NEW q \in Payloads, RowOf(q) # NoRow PROVE RowOf(q)' = RowOf(q)
    <2>1. q.user \in Users
      BY StoredType
    <2>2. CASE IsLogin(p)
      BY <1>1, <1>3, <1>4, <2>1, <2>2 DEF RowOf, TypeOK
    <2>3. CASE ~IsLogin(p)
      BY <1>1, <1>3, <1>4, <2>1, <2>3 DEF RowOf, TypeOK
    <2>4. QED
      BY <2>2, <2>3
  <1>5. ASSUME NEW u \in Users, NEW t \in AttemptTracks \cup LoginTracks
        PROVE  Progress(u, t)' = Progress(u, t)
    <2>1. LoginTracks \cap AttemptTracks = {}
      BY DEF LoginTracks, AttemptTracks
    <2>2. CASE IsLogin(p)
      BY <1>1, <1>2, <1>3, <2>1, <2>2 DEF Progress, TracksOf, RowOf, TypeOK
    <2>3. CASE ~IsLogin(p)
      BY <1>1, <1>2, <1>3, <2>1, <2>3 DEF Progress, TracksOf, RowOf, TypeOK
    <2>4. QED
      BY <2>2, <2>3
  <1>6. QED
    BY <1>3, <1>4, <1>5 DEF Idle

\* Every step keeps the badge invariant.
LEMMA BadgeStep ==
    ASSUME AchievementAssumption, TypeOK, BadgeInv, [Next]_vars
    PROVE  BadgeInv'
  <1>1. BadgesMatchProgress /\ \A h \in Handlers : Sound(h)
    BY SoundOf DEF BadgeInv
  <1>2. SUFFICES (\A h \in Handlers : Sound(h)') /\ BadgesMatchProgress'
    BY DEF BadgeInv, HandlingsSound, Sound
  <1>3. ASSUME NEW h \in Handlers, NEW p \in BagToSet(queue), Load(h, p)
        PROVE  (\A g \in Handlers : Sound(g)') /\ BadgesMatchProgress'
    <2>1. p \in Payloads
      BY DEF TypeOK
    <2> DEFINE row == IF RowOf(p) = NoRow THEN NewRow(p) ELSE RowOf(p)
    <2>2. /\ handler' = [handler EXCEPT ![h] = [pc |-> "reading", msg |-> p, row |-> row]]
          /\ badges' = badges
          /\ IF IsLogin(p)
             THEN logins' = [logins EXCEPT ![p.user] = row] /\ UNCHANGED attempts
             ELSE attempts' = [attempts EXCEPT ![p.user] = row] /\ UNCHANGED logins
      BY <1>3 DEF Load
    <2>3. row \in RowsFor(p) /\ p.user \in Users /\ row # NoRow
      BY <2>1, StoredType, NewRowFacts DEF AchievementAssumption, RowsFor
    <2> HIDE DEF row
    <2>4. BadgesMatchProgress'
      <3>1. \A b \in Badges : b[1] \in AttemptTracks \cup LoginTracks
        BY DEF Badges
      <3>2. QED
        BY <1>1, <1>3, <2>1, <2>2, <3>1, LoadProgress DEF BadgesMatchProgress
    <2>5. Sound(h)'
      <3>1. handler'[h] = [pc |-> "reading", msg |-> p, row |-> row]
        BY <2>2 DEF TypeOK
      <3>2. (IF IsLogin(p) THEN logins'[p.user] ELSE attempts'[p.user]) = row
        BY <2>2, <2>3 DEF TypeOK
      <3>3. row.version <= row.version
        BY <2>3 DEF RowsFor, LoginRows, AttemptRows
      <3>4. QED
        BY <2>3, <3>1, <3>2, <3>3 DEF Sound, RowOf
    <2>6. ASSUME NEW g \in Handlers, g # h PROVE Sound(g)'
      <3>1. handler'[g] = handler[g]
        BY <2>2, <2>6 DEF TypeOK
      <3>2. ASSUME handler[g].pc \in {"reading", "saving"}
            PROVE  RowOf(handler[g].msg)' = RowOf(handler[g].msg)
        <4>1. handler[g].msg \in Payloads /\ RowOf(handler[g].msg) # NoRow
          BY <1>1, <3>2, HandledType DEF Sound
        <4>2. (IF IsLogin(handler[g].msg) THEN logins'[handler[g].msg.user]
                 ELSE attempts'[handler[g].msg.user]) = RowOf(handler[g].msg)
          BY <1>3, <2>1, <4>1, LoadProgress DEF RowOf
        <4>3. QED
          BY <3>1, <4>2 DEF RowOf
      <3>3. QED
        BY <1>1, <2>2, <3>1, <3>2, Undisturbed
    <2>7. QED
      BY <2>4, <2>5, <2>6
  <1>4. ASSUME NEW h \in Handlers, Compute(h)
        PROVE  (\A g \in Handlers : Sound(g)') /\ BadgesMatchProgress'
    <2> DEFINE p == handler[h].msg
               row == handler[h].row
               next == [pc |-> "saving", msg |-> p, row |-> Progressed(row, p),
                        earned |-> Earned(row, p, Held(p.user))]
    <2>1. /\ handler' = [handler EXCEPT ![h] = next]
          /\ UNCHANGED rows
          /\ handler[h].pc = "reading"
      BY <1>4 DEF Compute
    <2>2. BadgesMatchProgress'
      BY <1>1, <2>1 DEF rows, BadgesMatchProgress, Progress
    <2>3. Sound(h)'
      <3>1. p \in Payloads /\ row \in RowsFor(p) /\ p.user \in Users
        BY <2>1, HandledType, StoredType
      <3>2. Progressed(row, p).version = row.version
        BY <3>1, ProgressedFacts
      <3>3. \A b \in Badges : badges[p.user][b] \in Nat
        BY <3>1 DEF TypeOK
      <3>4. \A b \in Badges : b \in Held(p.user) <=> badges[p.user][b] # 0
        BY <3>3 DEF Held
      <3>5. \A b \in Badges : b \in Earned(row, p, Held(p.user)) <=>
               /\ b \in Awarded
               /\ b[1] \in Tested(row, p) /\ Progressed(row, p)[b[1]] >= b[2]
               /\ badges[p.user][b] = 0
        BY <3>4 DEF Earned, Awarded
      <3>6. /\ RowOf(p) # NoRow /\ row.version <= RowOf(p).version
            /\ row.version = RowOf(p).version => row = RowOf(p)
        BY <1>1, <2>1 DEF Sound
      <3>7. handler'[h] = next
        BY <2>1 DEF TypeOK
      <3>8. RowOf(p)' = RowOf(p) /\ badges' = badges
        BY <2>1, <3>7 DEF rows, RowOf
      <3>9. /\ handler'[h].pc = "saving" /\ handler'[h].msg = p
            /\ handler'[h].row = Progressed(row, p)
            /\ handler'[h].earned = Earned(row, p, Held(p.user))
        BY <3>7
      <3>10. RowOf(handler[h].msg)' = RowOf(p)
        BY <3>8, <3>9 DEF RowOf
      <3>11. handler'[h].row.version = RowOf(p).version => row = RowOf(p)
        BY <3>2, <3>6, <3>9
      <3> HIDE DEF next, p, row
      <3>12. QED
        BY <3>2, <3>5, <3>6, <3>8, <3>9, <3>10, <3>11 DEF Sound
    <2>4. ASSUME NEW g \in Handlers, g # h PROVE Sound(g)'
      BY <1>1, <2>1, <2>4 DEF rows, Sound, RowOf, TypeOK
    <2>5. QED
      BY <2>2, <2>3, <2>4
  <1>5. ASSUME NEW h \in Handlers, SaveProgress(h)
        PROVE  (\A g \in Handlers : Sound(g)') /\ BadgesMatchProgress'
    BY <1>1, <1>5, SaveSound, SaveMatches, SoundOf DEF BadgeInv, HandlingsSound, Sound
  <1>6. ASSUME UNCHANGED rows,
               \A g \in Handlers : handler'[g] = handler[g]
                                   \/ handler'[g].pc \notin {"reading", "saving"}
        PROVE  (\A g \in Handlers : Sound(g)') /\ BadgesMatchProgress'
    BY <1>1, <1>6 DEF rows, Sound, RowOf, BadgesMatchProgress, Progress
  <1>7. ASSUME NEW h \in Handlers, SaveStale(h) \/ CallFails(h) \/ Acknowledge(h)
        PROVE  (\A g \in Handlers : Sound(g)') /\ BadgesMatchProgress'
    BY <1>6, <1>7 DEF SaveStale, CallFails, Acknowledge, Idle, TypeOK
  <1>8. CASE Crash
    BY <1>6, <1>8 DEF Crash, Idle
  <1>9. CASE UNCHANGED vars \/ NextDay \/ \E p \in Publishable : PublishMessage(p)
    BY <1>6, <1>9 DEF vars, rows, NextDay, PublishMessage
  <1>10. QED
    BY <1>3, <1>4, <1>5, <1>7, <1>8, <1>9 DEF Next, Handle
\* The inductive invariant: loaded versions, computed rows, awarded badges.
THEOREM BadgeInvariant == Spec => [](TypeOK /\ BadgeInv)
  <1>1. Init => TypeOK /\ BadgeInv
    <2> SUFFICES ASSUME Init PROVE BadgeInv
      BY InitType
    <2>1. HandlingsSound
      BY DEF Init, HandlingsSound, Idle
    <2>2. BadgesMatchProgress
      <3>1. \A b \in Badges : b[2] \in Nat \ {0}
        BY AchievementAssumption DEF AchievementAssumption, Badges
      <3>2. \A u \in Users : \A b \in Badges : Progress(u, b[1]) = 0
        BY DEF Init, Progress
      <3>3. \A u \in Users : \A b \in Badges : badges[u][b] = 0
        BY DEF Init
      <3>4. QED
        BY <3>1, <3>2, <3>3 DEF BadgesMatchProgress
    <2>3. QED
      BY <2>1, <2>2 DEF BadgeInv
  <1>2. TypeOK /\ BadgeInv /\ [Next]_vars => (TypeOK /\ BadgeInv)'
    BY NextType, BadgeStep, AchievementAssumption
  <1>3. QED
    BY <1>1, <1>2, PTL DEF Spec

\* Whatever overlaps, fails or is delivered twice, a user holds each badge that a manager
\* awards once when the progress reaches its level, and not before (addBadge, onBadgeAdded,
\* the version), and never holds a declared badge that none awards, those of 14 days.
THEOREM BadgesMatch == Spec => []BadgesMatchProgress
  <1>1. TypeOK /\ BadgeInv => BadgesMatchProgress
    BY DEF BadgeInv
  <1>2. QED
    BY <1>1, BadgeInvariant, PTL

\* Progress is a count.
LEMMA ProgressNat ==
    ASSUME TypeOK, NEW u \in Users, NEW t \in AttemptTracks \cup LoginTracks
    PROVE  Progress(u, t) \in Nat
  <1>1. CASE t \in AttemptTracks
    BY <1>1 DEF Progress, TypeOK, AttemptTracks, AttemptRows
  <1>2. CASE t \notin AttemptTracks /\ t \in LoginTracks
    BY <1>2 DEF Progress, TypeOK, LoginTracks, LoginRows
  <1>3. QED
    BY <1>1, <1>2

\* A step lowers no count.
LEMMA MonotoneStep ==
    ASSUME AchievementAssumption, TypeOK, BadgeInv, [Next]_vars,
           NEW u \in Users, NEW t \in AttemptTracks \cup LoginTracks
    PROVE  Progress(u, t) <= Progress(u, t)'
  <1>1. Progress(u, t) <= Progress(u, t)
    BY ProgressNat
  <1>2. CASE UNCHANGED rows
    BY <1>1, <1>2 DEF rows, Progress
  <1>3. ASSUME NEW h \in Handlers, NEW p \in BagToSet(queue), Load(h, p)
        PROVE  Progress(u, t) <= Progress(u, t)'
    <2>1. p \in Payloads
      BY DEF TypeOK
    <2>2. QED
      BY <1>1, <1>3, <2>1, LoadProgress
  <1>4. ASSUME NEW h \in Handlers, SaveProgress(h)
        PROVE  Progress(u, t) <= Progress(u, t)'
    <2> DEFINE p == handler[h].msg
    <2>1. Sound(h)
      BY SoundOf DEF BadgeInv
    <2>2. /\ p \in Payloads /\ p' = p /\ p.user \in Users
          /\ RowOf(p) \in RowsFor(p) /\ RowOf(p) # NoRow /\ RowOf(p)' # NoRow
          /\ \A c \in TracksOf(p) : RowOf(p)'[c] = Progressed(RowOf(p), p)[c]
      BY <1>4, <2>1, SaveFacts, StoredType
    <2>3. CASE u = p.user /\ t \in TracksOf(p)
      <3>1. Progress(u, t) = RowOf(p)[t]
        BY <2>2, <2>3, ProgressFacts
      <3>2. Progress(u, t)' = RowOf(p)'[t]
        BY <2>2, <2>3 DEF Progress, TracksOf, RowOf, LoginTracks, AttemptTracks
      <3>3. Progressed(RowOf(p), p)[t] >= RowOf(p)[t]
        BY <2>2, <2>3, ProgressedFacts
      <3>4. QED
        BY <2>2, <2>3, <3>1, <3>2, <3>3
    <2>4. CASE ~(u = p.user /\ t \in TracksOf(p))
      <3>1. PICK q \in Payloads : q.user = u /\ t \in TracksOf(q)
        <4>1. [user |-> u, event |-> "submitted"] \in Payloads
          BY DEF Payloads
        <4>2. [user |-> u, event |-> "login", day |-> 0] \in Payloads
          BY DEF Payloads
        <4>3. QED
          BY <4>1, <4>2 DEF TracksOf, IsLogin
      <3>2. q.user # p.user \/ IsLogin(q) # IsLogin(p)
        BY <2>4, <3>1 DEF TracksOf
      <3>3. RowOf(q)' = RowOf(q)
        BY <1>4, <2>1, <3>1, <3>2, SaveFrame
      <3>4. Progress(u, t)' = Progress(u, t)
        BY <3>1, <3>3 DEF Progress, TracksOf, RowOf, LoginTracks, AttemptTracks
      <3>5. QED
        BY <1>1, <3>4
    <2>5. QED
      BY <2>3, <2>4
  <1>5. QED
    BY <1>2, <1>3, <1>4
       DEF Next, Handle, vars, rows, PublishMessage, NextDay, Compute, SaveStale,
           Acknowledge, CallFails, Crash

\* No save writes an older count over a newer one (the where clause on the version).
THEOREM ProgressIsMonotone == Spec => ProgressMonotone
  <1>1. TypeOK /\ BadgeInv /\ [Next]_vars =>
          [\A u \in Users : \A t \in AttemptTracks \cup LoginTracks :
              Progress(u, t) <= Progress(u, t)']_vars
    BY MonotoneStep, AchievementAssumption
  <1>2. QED
    BY <1>1, BadgeInvariant, PTL DEF Spec, ProgressMonotone

--------------------------------------------------------------------------------
(***************************************************************************)
(* Losses.  A save leaves at most the other handlers behind, each of them  *)
(* loses one message, and what it loads next is current again.             *)
(***************************************************************************)
\* The stored row of a message is that of its user and kind.
LEMMA RowAtFacts ==
    ASSUME TypeOK, NEW u \in Users, NEW login \in BOOLEAN
    PROVE  /\ \A p : p.user = u /\ (IsLogin(p) <=> login) => RowOf(p) = RowAt(u, login)
           /\ RowAt(u, login) # NoRow => RowAt(u, login).version \in Nat
           /\ lost[<<u, login>>] \in Nat
  <1>1. \A p : p.user = u /\ (IsLogin(p) <=> login) => RowOf(p) = RowAt(u, login)
    BY DEF RowOf, RowAt
  <1>2. RowAt(u, login) # NoRow => RowAt(u, login).version \in Nat
    BY DEF RowAt, TypeOK, LoginRows, AttemptRows
  <1>3. lost[<<u, login>>] \in Nat
    BY DEF TypeOK
  <1>4. QED
    BY <1>1, <1>2, <1>3

\* The handlings overtaken are among the handlers.
LEMMA OutrunFinite ==
    ASSUME AchievementAssumption, NEW S \in SUBSET Handlers
    PROVE  /\ IsFiniteSet(S) /\ Cardinality(S) \in Nat
           /\ Cardinality(S) <= Cardinality(Handlers)
           /\ Cardinality(Handlers) \in Nat
  <1>1. IsFiniteSet(Handlers)
    BY DEF AchievementAssumption
  <1>2. IsFiniteSet(S) /\ Cardinality(S) <= Cardinality(Handlers)
    BY <1>1, FS_Subset
  <1>3. QED
    BY <1>1, <1>2, FS_CardinalityType

\* While a row stays, handlings of it come, and go without a loss.
LEMMA LossFrame ==
    ASSUME AchievementAssumption, TypeOK, TypeOK', NEW u \in Users, NEW login \in BOOLEAN,
           WithinLosses(u, login), RowAt(u, login)' = RowAt(u, login),
           lost'[<<u, login>>] = lost[<<u, login>>],
           \A h \in Handlers : WorksOn(h, u, login)' =>
              \/ /\ WorksOn(h, u, login)
                 /\ handler'[h].row.version = handler[h].row.version
              \/ handler'[h].row.version = RowAt(u, login).version
    PROVE  WithinLosses(u, login)'
  <1> DEFINE row == RowAt(u, login)
             before == Outrun(u, login)
             after == Outrun(u, login)'
  <1>1. CASE row = NoRow
    BY <1>1 DEF WithinLosses
  <1>2. CASE row # NoRow
    <2>1. row.version \in Nat /\ lost[<<u, login>>] \in Nat
      BY <1>2, RowAtFacts
    <2>2. after \subseteq before
      BY <2>1 DEF Outrun
    <2>3. before \in SUBSET Handlers
      BY DEF Outrun
    <2> HIDE DEF before, after
    <2>4. IsFiniteSet(before) /\ Cardinality(before) \in Nat
      BY <2>3, OutrunFinite
    <2>5. Cardinality(after) <= Cardinality(before) /\ Cardinality(after) \in Nat
      BY <2>2, <2>3, <2>4, FS_Subset, OutrunFinite
    <2>6. /\ row.version > 0
          /\ lost[<<u, login>>] + Cardinality(before)
               <= (Cardinality(Handlers) - 1) * (row.version - 1)
      BY <1>2 DEF WithinLosses, before
    <2> DEFINE bound == (Cardinality(Handlers) - 1) * (row.version - 1)
    <2>7. Cardinality(Handlers) \in Nat
      BY <2>3, OutrunFinite
    <2>8. bound \in Int
      BY <2>1, <2>7
    <2> HIDE DEF bound
    <2>9. lost'[<<u, login>>] + Cardinality(after) <= bound
      BY <2>1, <2>4, <2>5, <2>6, <2>8 DEF bound
    <2> HIDE DEF row
    <2>10. RowAt(u, login)' = row
      BY DEF row
    <2>11. QED
      BY <1>2, <2>6, <2>9, <2>10 DEF WithinLosses, after, bound
  <1>3. QED
    BY <1>1, <1>2

\* Loading a row starts from what is stored, or creates the row nobody works on yet.
LEMMA LossLoad ==
    ASSUME AchievementAssumption, TypeOK, TypeOK', HandlingsSound,
           NEW u \in Users, NEW login \in BOOLEAN, WithinLosses(u, login),
           NEW h \in Handlers, NEW p \in Payloads, Load(h, p)
    PROVE  WithinLosses(u, login)'
  <1> DEFINE row == IF RowOf(p) = NoRow THEN NewRow(p) ELSE RowOf(p)
  <1>1. /\ handler' = [handler EXCEPT ![h] = [pc |-> "reading", msg |-> p, row |-> row]]
        /\ lost' = lost
        /\ IF IsLogin(p)
           THEN logins' = [logins EXCEPT ![p.user] = row] /\ UNCHANGED attempts
           ELSE attempts' = [attempts EXCEPT ![p.user] = row] /\ UNCHANGED logins
    BY DEF Load
  <1>2. /\ handler'[h] = [pc |-> "reading", msg |-> p, row |-> row]
        /\ \A g \in Handlers : g # h => handler'[g] = handler[g]
    BY <1>1 DEF TypeOK
  <1>3. p.user \in Users /\ row # NoRow
    BY StoredType, NewRowFacts DEF AchievementAssumption, RowsFor
  <1>4. ASSUME ~(p.user = u /\ (IsLogin(p) <=> login)) PROVE WithinLosses(u, login)'
    <2>1. RowAt(u, login)' = RowAt(u, login)
      BY <1>1, <1>3, <1>4 DEF RowAt, TypeOK
    <2>2. \A g \in Handlers : WorksOn(g, u, login)' =>
            WorksOn(g, u, login) /\ handler'[g].row.version = handler[g].row.version
      BY <1>2, <1>4 DEF WorksOn, Working
    <2>3. QED
      BY <1>1, <2>1, <2>2, LossFrame
  <1>5. ASSUME p.user = u, IsLogin(p) <=> login, RowOf(p) # NoRow
        PROVE  WithinLosses(u, login)'
    <2>1. row = RowAt(u, login)
      BY <1>5, RowAtFacts
    <2>2. RowAt(u, login)' = RowAt(u, login)
      BY <1>1, <1>3, <1>5, <2>1 DEF RowAt, TypeOK
    <2>3. \A g \in Handlers : WorksOn(g, u, login)' =>
            \/ WorksOn(g, u, login) /\ handler'[g].row.version = handler[g].row.version
            \/ handler'[g].row.version = RowAt(u, login).version
      BY <1>2, <2>1 DEF WorksOn, Working
    <2>4. QED
      BY <1>1, <2>2, <2>3, LossFrame
  <1>6. ASSUME p.user = u, IsLogin(p) <=> login, RowOf(p) = NoRow
        PROVE  WithinLosses(u, login)'
    <2>1. RowAt(u, login) = NoRow /\ lost[<<u, login>>] = 0
      BY <1>6, RowAtFacts DEF WithinLosses
    <2>2. row.version = 1
      BY <1>6 DEF NewRow
    <2>3. RowAt(u, login)' = row
      BY <1>1, <1>3, <1>6 DEF RowAt, TypeOK
    <2>4. \A g \in Handlers : ~WorksOn(g, u, login)
      BY <2>1, RowAtFacts DEF HandlingsSound, WorksOn, Working
    <2>5. Outrun(u, login)' = {}
      <3>1. \A g \in Handlers : WorksOn(g, u, login)' => handler'[g].row.version = 1
        BY <1>2, <2>2, <2>4 DEF WorksOn, Working
      <3>2. QED
        BY <2>2, <2>3, <3>1 DEF Outrun
    <2>6. Cardinality(Outrun(u, login)') = 0
      BY <2>5, FS_EmptySet
    <2>7. Cardinality(Handlers) \in Nat
      BY OutrunFinite
    <2> HIDE DEF row
    <2>8. lost'[<<u, login>>] + Cardinality(Outrun(u, login)')
            <= (Cardinality(Handlers) - 1) * (row.version - 1)
      BY <1>1, <2>1, <2>2, <2>6, <2>7
    <2>9. QED
      BY <1>3, <2>2, <2>3, <2>8 DEF WithinLosses
  <1>7. QED
    BY <1>4, <1>5, <1>6

\* A save leaves the other handlers behind at most, and raises the bound by as many.
LEMMA LossSave ==
    ASSUME AchievementAssumption, TypeOK, TypeOK', HandlingsSound,
           NEW u \in Users, NEW login \in BOOLEAN, WithinLosses(u, login),
           NEW h \in Handlers, SaveProgress(h)
    PROVE  WithinLosses(u, login)'
  <1>1. Sound(h)
    BY SoundOf
  <1>2. PICK p \in Payloads : p = handler[h].msg
    BY <1>1, SaveFacts
  <1>3. /\ handler'[h].pc = "acking" /\ lost' = lost
        /\ \A g \in Handlers : g # h => handler'[g] = handler[g]
    BY DEF SaveProgress, TypeOK
  <1>4. CASE ~(p.user = u /\ (IsLogin(p) <=> login))
    <2>1. PICK q \in Payloads : q.user = u /\ (IsLogin(q) <=> login)
      <3>1. [user |-> u, event |-> "submitted"] \in Payloads
        BY DEF Payloads
      <3>2. [user |-> u, event |-> "login", day |-> 0] \in Payloads
        BY DEF Payloads
      <3>3. QED
        BY <3>1, <3>2 DEF IsLogin
    <2>2. RowOf(q)' = RowOf(q)
      BY <1>1, <1>2, <1>4, <2>1, SaveFrame DEF IsLogin
    <2>3. RowAt(u, login)' = RowAt(u, login)
      BY <2>1, <2>2 DEF RowOf, RowAt
    <2>4. \A g \in Handlers : WorksOn(g, u, login)' =>
            WorksOn(g, u, login) /\ handler'[g].row.version = handler[g].row.version
      BY <1>3 DEF WorksOn, Working
    <2>5. QED
      BY <1>3, <2>3, <2>4, LossFrame
  <1>5. CASE p.user = u /\ (IsLogin(p) <=> login)
    <2> DEFINE row == RowAt(u, login)
               next == RowAt(u, login)'
               before == Outrun(u, login)
               after == Outrun(u, login)'
               others == Cardinality(Handlers) - 1
    <2>1. RowOf(p) = row /\ RowOf(p)' = next
      BY <1>5, RowAtFacts DEF RowOf, RowAt
    <2>2. row # NoRow /\ next # NoRow /\ next.version = row.version + 1
      BY <1>1, <1>2, <2>1, SaveFacts DEF RowOf
    <2>3. row.version \in Nat /\ lost[<<u, login>>] \in Nat
      BY <2>2, RowAtFacts
    <2>4. row.version > 0 /\ lost[<<u, login>>] + Cardinality(before) <= others * (row.version - 1)
      BY <2>2 DEF WithinLosses
    <2>5. before \in SUBSET Handlers /\ after \in SUBSET (Handlers \ {h})
      BY <1>3 DEF Outrun, WorksOn, Working
    <2> HIDE DEF before, after, row, next
    <2>6. IsFiniteSet(Handlers) /\ Cardinality(Handlers) \in Nat /\ Cardinality(before) \in Nat
      BY <2>5, OutrunFinite DEF AchievementAssumption
    <2>7. IsFiniteSet(Handlers \ {h}) /\ Cardinality(Handlers \ {h}) = others
      BY <2>6, FS_RemoveElement
    <2>8. IsFiniteSet(after) /\ Cardinality(after) <= others
      BY <2>5, <2>7, FS_Subset
    <2>9. Cardinality(after) \in Nat
      BY <2>8, FS_CardinalityType
    <2>10. lost[<<u, login>>] + Cardinality(after) <= others * (row.version - 1) + others
      BY <2>3, <2>4, <2>6, <2>8, <2>9
    <2>11. others * (row.version - 1) + others = others * (next.version - 1)
      BY <2>2, <2>3, <2>6
    <2>12. next.version > 0
      BY <2>2, <2>3
    <2>13. lost'[<<u, login>>] + Cardinality(after) <= others * (next.version - 1)
      BY <1>3, <2>10, <2>11
    <2> HIDE DEF others
    <2>14. QED
      BY <2>2, <2>12, <2>13 DEF WithinLosses, after, next, others
  <1>6. QED
    BY <1>4, <1>5

\* A stale save was bound to lose its message: it stops being overtaken.
LEMMA LossStale ==
    ASSUME AchievementAssumption, TypeOK, TypeOK', HandlingsSound,
           NEW u \in Users, NEW login \in BOOLEAN, WithinLosses(u, login),
           NEW h \in Handlers, SaveStale(h)
    PROVE  WithinLosses(u, login)'
  <1>1. Sound(h) /\ Working(h) /\ handler[h].pc = "saving"
    BY SoundOf DEF SaveStale, Working
  <1>2. PICK p \in Payloads : p = handler[h].msg
    BY <1>1, HandledType
  <1>3. /\ handler'[h].pc = "acking" /\ UNCHANGED rows
        /\ \A g \in Handlers : g # h => handler'[g] = handler[g]
        /\ lost' = [lost EXCEPT ![<<p.user, IsLogin(p)>>] = @ + 1]
    BY <1>2 DEF SaveStale, TypeOK
  <1>4. RowAt(u, login)' = RowAt(u, login)
    BY <1>3 DEF RowAt, rows
  <1>5. \A g \in Handlers : WorksOn(g, u, login)' =>
          g # h /\ WorksOn(g, u, login) /\ handler'[g].row.version = handler[g].row.version
    BY <1>3 DEF WorksOn, Working
  <1>6. IsLogin(p) \in BOOLEAN /\ p.user \in Users
    BY StoredType DEF IsLogin
  <1>7. CASE ~(p.user = u /\ (IsLogin(p) <=> login))
    <2>1. <<p.user, IsLogin(p)>> # <<u, login>>
      BY <1>6, <1>7
    <2>2. lost'[<<u, login>>] = lost[<<u, login>>]
      BY <1>3, <2>1 DEF TypeOK
    <2>3. QED
      BY <1>4, <1>5, <2>2, LossFrame
  <1>8. CASE p.user = u /\ (IsLogin(p) <=> login)
    <2> DEFINE row == RowAt(u, login)
               before == Outrun(u, login)
               after == Outrun(u, login)'
               bound == (Cardinality(Handlers) - 1) * (row.version - 1)
    <2>1. RowOf(p) = row
      BY <1>8, RowAtFacts
    <2>2. /\ row # NoRow /\ handler[h].row.version <= row.version
          /\ handler[h].row.version # row.version
      BY <1>1, <1>2, <2>1 DEF Sound, SaveStale, Current
    <2>3. row.version \in Nat /\ lost[<<u, login>>] \in Nat
      BY <2>2, RowAtFacts
    <2>4. handler[h].row.version \in Nat
      BY <1>1, HandledType DEF Working, RowsFor, LoginRows, AttemptRows
    <2>5. h \in before
      BY <1>1, <1>2, <1>8, <2>2, <2>3, <2>4 DEF Outrun, WorksOn
    <2>6. before \in SUBSET Handlers /\ after \in SUBSET (before \ {h})
      BY <1>4, <1>5 DEF Outrun
    <2>7. lost'[<<u, login>>] = lost[<<u, login>>] + 1
      <3>1. <<p.user, IsLogin(p)>> = <<u, login>>
        BY <1>6, <1>8
      <3>2. <<u, login>> \in DOMAIN lost
        BY DEF TypeOK
      <3>3. QED
        BY <1>3, <3>1, <3>2
    <2>8. row.version > 0 /\ lost[<<u, login>>] + Cardinality(before) <= bound
      BY <2>2 DEF WithinLosses
    <2> HIDE DEF before, after, row
    <2>9. IsFiniteSet(before) /\ Cardinality(before) \in Nat /\ Cardinality(Handlers) \in Nat
      BY <2>6, OutrunFinite
    <2>10. IsFiniteSet(before \ {h}) /\ Cardinality(before \ {h}) = Cardinality(before) - 1
      BY <2>5, <2>9, FS_RemoveElement
    <2>11. IsFiniteSet(after) /\ Cardinality(after) <= Cardinality(before \ {h})
      BY <2>6, <2>10, FS_Subset
    <2>12. Cardinality(after) \in Nat /\ bound \in Int
      BY <2>3, <2>9, <2>11, FS_CardinalityType
    <2> HIDE DEF bound
    <2>13. lost'[<<u, login>>] + Cardinality(after) <= bound
      BY <2>3, <2>7, <2>8, <2>9, <2>10, <2>11, <2>12
    <2>14. RowAt(u, login)' = row
      BY <1>4 DEF row
    <2>15. QED
      BY <2>2, <2>8, <2>13, <2>14 DEF WithinLosses, after, bound
  <1>9. QED
    BY <1>7, <1>8

\* Every step keeps the losses within the bound.
LEMMA LossStep ==
    ASSUME AchievementAssumption, TypeOK, TypeOK', HandlingsSound, LossInv, [Next]_vars
    PROVE  LossInv'
  <1> SUFFICES ASSUME NEW u \in Users, NEW login \in BOOLEAN PROVE WithinLosses(u, login)'
    BY DEF LossInv
  <1>1. WithinLosses(u, login)
    BY DEF LossInv
  <1>2. ASSUME NEW h \in Handlers, NEW p \in BagToSet(queue), Load(h, p)
        PROVE  WithinLosses(u, login)'
    <2>1. p \in Payloads
      BY DEF TypeOK
    <2>2. QED
      BY <1>1, <1>2, <2>1, LossLoad
  <1>3. ASSUME UNCHANGED <<rows, lost>>,
               \A g \in Handlers : WorksOn(g, u, login)' =>
                  WorksOn(g, u, login) /\ handler'[g].row.version = handler[g].row.version
        PROVE  WithinLosses(u, login)'
    <2>1. RowAt(u, login)' = RowAt(u, login)
      BY <1>3 DEF rows, RowAt
    <2>2. QED
      BY <1>1, <1>3, <2>1, LossFrame
  <1>4. ASSUME NEW h \in Handlers, Compute(h) PROVE WithinLosses(u, login)'
    <2>1. /\ handler[h].pc = "reading" /\ UNCHANGED <<rows, lost>>
          /\ handler'[h].msg = handler[h].msg
          /\ handler'[h].row = Progressed(handler[h].row, handler[h].msg)
          /\ \A g \in Handlers : g # h => handler'[g] = handler[g]
      BY <1>4 DEF Compute, TypeOK
    <2>2. handler'[h].row.version = handler[h].row.version
      BY <2>1, HandledType, ProgressedFacts
    <2>3. QED
      BY <1>3, <2>1, <2>2 DEF WorksOn, Working
  <1>5. ASSUME NEW h \in Handlers, Acknowledge(h) \/ CallFails(h)
        PROVE  WithinLosses(u, login)'
    <2>1. UNCHANGED <<rows, lost>>
      BY <1>5 DEF Acknowledge, CallFails
    <2>2. /\ handler'[h].pc \notin {"reading", "saving"}
          /\ \A g \in Handlers : g # h => handler'[g] = handler[g]
      BY <1>5 DEF Acknowledge, CallFails, Idle, TypeOK
    <2>3. ASSUME NEW g \in Handlers, WorksOn(g, u, login)'
          PROVE  WorksOn(g, u, login) /\ handler'[g].row.version = handler[g].row.version
      BY <2>2, <2>3 DEF WorksOn, Working
    <2>4. QED
      BY <1>3, <2>1, <2>3
  <1>6. CASE Crash
    BY <1>3, <1>6 DEF Crash, Idle, WorksOn, Working
  <1>7. CASE UNCHANGED vars \/ NextDay \/ \E p \in Publishable : PublishMessage(p)
    <2>1. UNCHANGED <<rows, lost, handler>>
      BY <1>7 DEF vars, rows, NextDay, PublishMessage
    <2>2. QED
      BY <1>3, <2>1 DEF WorksOn, Working
  <1>8. QED
    BY <1>1, <1>2, <1>4, <1>5, <1>6, <1>7, LossSave, LossStale DEF Next, Handle

\* What a row has lost, and what is bound to be lost with the handlings that a save
\* has overtaken, is at most one message per other handler for each accepted save.
THEOREM LossInvariant == Spec => [](TypeOK /\ BadgeInv /\ LossInv)
  <1>1. Init => LossInv
    <2> SUFFICES ASSUME Init, NEW u \in Users, NEW login \in BOOLEAN
                 PROVE  WithinLosses(u, login)
      BY DEF LossInv
    <2>1. RowAt(u, login) = NoRow /\ lost[<<u, login>>] = 0
      BY DEF Init, RowAt
    <2>2. QED
      BY <2>1 DEF WithinLosses
  <1>2. TypeOK /\ TypeOK' /\ BadgeInv /\ LossInv /\ [Next]_vars => LossInv'
    BY LossStep, AchievementAssumption DEF BadgeInv
  <1>3. QED
    BY <1>1, <1>2, BadgeInvariant, PTL DEF Spec

\* Handlings get in each other's way only so often: a row loses at most one message per
\* other handler for each save it accepts (the error of a stale save, logged as handled).
THEOREM LossesAreBounded == Spec => []LossesBounded
  <1>1. TypeOK /\ LossInv => LossesBounded
    <2> SUFFICES ASSUME TypeOK, LossInv, NEW u \in Users, NEW login \in BOOLEAN
                 PROVE  LET row == RowAt(u, login) IN
                        lost[<<u, login>>] <=
                          IF row = NoRow THEN 0
                          ELSE (Cardinality(Handlers) - 1) * (row.version - 1)
      BY DEF LossesBounded
    <2>1. WithinLosses(u, login) /\ lost[<<u, login>>] \in Nat
      BY RowAtFacts DEF LossInv
    <2>2. CASE RowAt(u, login) = NoRow
      BY <2>1, <2>2 DEF WithinLosses
    <2>3. CASE RowAt(u, login) # NoRow
      <3> DEFINE bound == (Cardinality(Handlers) - 1) * (RowAt(u, login).version - 1)
                 outrun == Outrun(u, login)
      <3>1. lost[<<u, login>>] + Cardinality(outrun) <= bound
        BY <2>1, <2>3 DEF WithinLosses
      <3>2. outrun \in SUBSET Handlers
        BY DEF Outrun
      <3>3. Cardinality(outrun) \in Nat /\ Cardinality(Handlers) \in Nat
        BY <3>2, OutrunFinite, AchievementAssumption
      <3>4. bound \in Int
        <4>1. RowAt(u, login).version \in Nat
          BY <2>3, RowAtFacts
        <4>2. QED
          BY <3>3, <4>1
      <3> HIDE DEF bound, outrun
      <3>5. lost[<<u, login>>] <= bound
        BY <2>1, <3>1, <3>3, <3>4
      <3>6. QED
        BY <2>3, <3>5 DEF bound
    <2>4. QED
      BY <2>2, <2>3
  <1>2. QED
    BY <1>1, LossInvariant, PTL
================================================================================
