------------------------------ MODULE Achievement ------------------------------
(***************************************************************************)
(* The achievement service (apps/achievement): three RabbitMQ consumers    *)
(* that count the attempts, the scores and the login days of a user and    *)
(* award badges.                                                           *)
(*                                                                         *)
(* A consumer takes a message, loads the user's criteria row (created on   *)
(* first use), then the badges the user holds, computes, and saves under   *)
(* the version it loaded.  Nothing limits the service to one message at a  *)
(* time, so several handlings overlap at their awaits.  The counters of    *)
(* attempts and of scores are columns of one row and share its version.    *)
(* What a handler throws it logs itself: the message is acknowledged.      *)
(***************************************************************************)
EXTENDS Integers, FiniteSets, Bags

CONSTANTS
    Users,
    Handlers,       \* messages the service works on at the same time
    AttemptLevels,  \* 1, 10 and 100 attempts or scores
    LoginLevels,    \* 7, 14, 30 and 365 days: the levels BADGE_INFORMATION describes
    AwardedDays,    \* 7, 30 and 365 days: the levels LoginBadgeManager looks at
    Faults,         \* TRUE: database calls may fail, the process may crash
    NoRow,          \* the criteria of a user without a row
    MaxDay,         \* model bound: the last day
    MaxPublished,   \* model bound: messages published
    MaxCrashes      \* model bound: crashes

AttemptTracks == {"total", "good", "perfect"}
LoginTracks == {"login", "streak"}
Badges == (AttemptTracks \X AttemptLevels) \cup (LoginTracks \X LoginLevels)

\* The badges that some manager adds: no code adds the two of 14 days.
Awarded == {b \in Badges : b[1] \in LoginTracks => b[2] \in AwardedDays}

Payloads ==
    [user : Users, event : {"submitted"}]
    \cup [user : Users, event : {"scored"}, rank : {"poor", "good", "perfect"}]
    \cup [user : Users, event : {"login"}, day : Nat]

AttemptRows == [version : Nat, total : Nat, good : Nat, perfect : Nat]
LoginRows == [version : Nat, login : Nat, streak : Nat, started : Nat, last : Nat]

ASSUME AchievementAssumption ==
    /\ IsFiniteSet(Handlers)
    /\ AttemptLevels \subseteq Nat \ {0}
    /\ LoginLevels \subseteq Nat \ {0}
    /\ AwardedDays \subseteq LoginLevels
    /\ Faults \in BOOLEAN
    /\ NoRow \notin AttemptRows \cup LoginRows
    /\ MaxDay \in Nat /\ MaxPublished \in Nat /\ MaxCrashes \in Nat

VARIABLES
    attempts,   \* attempts[u]: the attempt_criteria row, or NoRow
    logins,     \* logins[u]: the login_criteria row, or NoRow
    badges,     \* badges[u][b]: rows of user_badges, which nothing makes unique
    queue,      \* the bag of messages the broker holds for the three consumers
    handler,    \* handler[h]: where a handling stands
    today,      \* the calendar day
    published,  \* the bag of messages published so far
    lost,       \* lost[<<u, login>>]: handlings that ended in a stale save of the row
    crashes     \* crashes so far

vars == <<attempts, logins, badges, queue, handler, today, published, lost, crashes>>
rows == <<attempts, logins, badges>>

Idle == [pc |-> "idle"]
Handlings ==
    {Idle}
    \cup [pc : {"reading"}, msg : Payloads, row : AttemptRows \cup LoginRows]
    \cup [pc : {"saving"}, msg : Payloads, row : AttemptRows \cup LoginRows,
          earned : SUBSET Badges]
    \cup [pc : {"acking"}, msg : Payloads]

IsLogin(p) == p.event = "login"
RowOf(p) == IF IsLogin(p) THEN logins[p.user] ELSE attempts[p.user]

TypeOK ==
    /\ attempts \in [Users -> AttemptRows \cup {NoRow}]
    /\ logins \in [Users -> LoginRows \cup {NoRow}]
    /\ badges \in [Users -> [Badges -> Nat]]
    /\ BagToSet(queue) \subseteq Payloads
    /\ handler \in [Handlers -> Handlings]
    /\ \A h \in Handlers : handler[h].pc \in {"reading", "saving"} =>
          handler[h].row \in IF IsLogin(handler[h].msg) THEN LoginRows ELSE AttemptRows
    /\ today \in Nat
    /\ lost \in [Users \X BOOLEAN -> Nat]

Init ==
    /\ attempts = [u \in Users |-> NoRow]
    /\ logins = [u \in Users |-> NoRow]
    /\ badges = [u \in Users |-> [b \in Badges |-> 0]]
    /\ queue = EmptyBag
    /\ handler = [h \in Handlers |-> Idle]
    /\ today = 0
    /\ published = EmptyBag
    /\ lost = [k \in Users \X BOOLEAN |-> 0]
    /\ crashes = 0

--------------------------------------------------------------------------------
(***************************************************************************)
(* The managers: what updateProgress makes of a loaded row, and the tracks *)
(* whose badges it looks at.                                               *)
(***************************************************************************)
RankColumn(p) == IF p.event = "submitted" THEN "total" ELSE p.rank

\* AttemptCounterBadgeManager and AttemptScoreBadgeManager.  A score below 0.8 of
\* the points is "poor" and counts nowhere.
Counted(row, p) ==
    [c \in DOMAIN row |-> IF c = RankColumn(p) THEN row[c] + 1 ELSE row[c]]

\* LoginBadgeManager.  The calendar days since the last login that was handled.
SinceLast(row, p) == p.day - row.last

\* Variant: the longest streak follows the current one down.
LoggedInFollowing(row, p) ==
    LET started == IF SinceLast(row, p) >= 2 THEN p.day ELSE row.started
    IN  [version |-> row.version,
         login |-> IF SinceLast(row, p) >= 1 THEN row.login + 1 ELSE row.login,
         started |-> started, last |-> p.day, streak |-> p.day - started]

LoggedIn(row, p) ==
    LET started == IF SinceLast(row, p) >= 2 THEN p.day ELSE row.started
        current == p.day - started
    IN  [version |-> row.version,
         login |-> IF SinceLast(row, p) >= 1 THEN row.login + 1 ELSE row.login,
         started |-> started,
         last |-> p.day,
         streak |-> IF current >= row.streak THEN current ELSE row.streak]

Progressed(row, p) == IF IsLogin(p) THEN LoggedIn(row, p) ELSE Counted(row, p)

\* The streak badges are looked at when the current streak is the longest.
Tested(row, p) ==
    IF IsLogin(p)
    THEN {"login"} \cup
         (LET after == LoggedIn(row, p)
          IN  IF after.last - after.started = after.streak THEN {"streak"} ELSE {})
    ELSE {RankColumn(p)} \cap AttemptTracks

\* addBadge for each level reached of the tested tracks, unless it is held.
Earned(row, p, held) ==
    {b \in Awarded \ held : b[1] \in Tested(row, p) /\ Progressed(row, p)[b[1]] >= b[2]}

--------------------------------------------------------------------------------
(***************************************************************************)
(* The world: users submit attempts, are scored and log in.                *)
(***************************************************************************)
Publishable ==
    [user : Users, event : {"submitted"}]
    \cup [user : Users, event : {"scored"}, rank : {"poor", "good", "perfect"}]
    \cup [user : Users, event : {"login"}, day : {today}]

PublishMessage(p) ==
    /\ BagCardinality(published) < MaxPublished
    /\ published' = published (+) SetToBag({p})
    /\ queue' = queue (+) SetToBag({p})
    /\ UNCHANGED <<rows, handler, today, lost, crashes>>

NextDay ==
    /\ today < MaxDay
    /\ today' = today + 1
    /\ UNCHANGED <<rows, queue, handler, published, lost, crashes>>

--------------------------------------------------------------------------------
(***************************************************************************)
(* A handling: the upsert of the criteria row, the query for the badges    *)
(* and the computation, the save, the acknowledgement.                     *)
(***************************************************************************)
NewRow(p) ==
    IF IsLogin(p)
    THEN [version |-> 1, login |-> 0, streak |-> 0, started |-> today, last |-> today]
    ELSE [version |-> 1, total |-> 0, good |-> 0, perfect |-> 0]

Load(h, p) ==
    LET row == IF RowOf(p) = NoRow THEN NewRow(p) ELSE RowOf(p) IN
    /\ handler[h] = Idle
    /\ queue' = queue (-) SetToBag({p})
    /\ IF IsLogin(p)
       THEN logins' = [logins EXCEPT ![p.user] = row] /\ UNCHANGED attempts
       ELSE attempts' = [attempts EXCEPT ![p.user] = row] /\ UNCHANGED logins
    /\ handler' = [handler EXCEPT ![h] = [pc |-> "reading", msg |-> p, row |-> row]]
    /\ UNCHANGED <<badges, today, published, lost, crashes>>

Held(u) == {b \in Badges : badges[u][b] > 0}

Compute(h) ==
    LET p == handler[h].msg
        row == handler[h].row
    IN
    /\ handler[h].pc = "reading"
    /\ handler' = [handler EXCEPT ![h] =
                     [pc |-> "saving", msg |-> p, row |-> Progressed(row, p),
                      earned |-> Earned(row, p, Held(p.user))]]
    /\ UNCHANGED <<rows, queue, today, published, lost, crashes>>

\* Variant: the where clause names the user alone.
CurrentUser(h) == RowOf(handler[h].msg) # NoRow

\* Variant: the manager has already moved on to its next version.
CurrentNext(h) ==
    /\ RowOf(handler[h].msg) # NoRow
    /\ RowOf(handler[h].msg).version = handler[h].row.version + 1

\* The where clause of the update names the version that was loaded.
Current(h) ==
    /\ RowOf(handler[h].msg) # NoRow
    /\ RowOf(handler[h].msg).version = handler[h].row.version

\* The columns toOrm hands over, and the next version.
Written(p, row, stale) ==
    LET columns == IF IsLogin(p) THEN {"login", "streak", "started", "last"}
                   ELSE IF p.event = "submitted" THEN {"total"} ELSE {"good", "perfect"}
    IN  [c \in DOMAIN stale |->
            IF c = "version" THEN stale[c] + 1
            ELSE IF c \in columns THEN row[c] ELSE stale[c]]

SaveProgress(h) ==
    LET p == handler[h].msg
        row == handler[h].row
    IN
    /\ handler[h].pc = "saving"
    /\ Current(h)
    /\ IF IsLogin(p)
       THEN logins' = [logins EXCEPT ![p.user] = Written(p, row, @)] /\ UNCHANGED attempts
       ELSE attempts' = [attempts EXCEPT ![p.user] = Written(p, row, @)] /\ UNCHANGED logins
    /\ badges' = [badges EXCEPT ![p.user] =
                     [b \in Badges |-> IF b \in handler[h].earned THEN @[b] + 1 ELSE @[b]]]
    /\ handler' = [handler EXCEPT ![h] = [pc |-> "acking", msg |-> p]]
    /\ UNCHANGED <<queue, today, published, lost, crashes>>

\* The update finds no row: the error is logged, the message counts as handled.
SaveStale(h) ==
    LET p == handler[h].msg IN
    /\ handler[h].pc = "saving"
    /\ ~Current(h)
    /\ handler' = [handler EXCEPT ![h] = [pc |-> "acking", msg |-> p]]
    /\ lost' = [lost EXCEPT ![<<p.user, IsLogin(p)>>] = @ + 1]
    /\ UNCHANGED <<rows, queue, today, published, crashes>>

Acknowledge(h) ==
    /\ handler[h].pc = "acking"
    /\ handler' = [handler EXCEPT ![h] = Idle]
    /\ UNCHANGED <<rows, queue, today, published, lost, crashes>>

CallFails(h) ==
    /\ Faults
    /\ handler[h].pc \in {"reading", "saving"}
    /\ handler' = [handler EXCEPT ![h] = [pc |-> "acking", msg |-> handler[h].msg]]
    /\ UNCHANGED <<rows, queue, today, published, lost, crashes>>

\* The broker delivers again what was not acknowledged, committed or not.
Crash ==
    LET busy == {h \in Handlers : handler[h] # Idle}
        unacked == {handler[h].msg : h \in busy}
    IN
    /\ Faults
    /\ busy # {}
    /\ crashes < MaxCrashes
    /\ queue' = queue (+) [p \in unacked |-> Cardinality({h \in busy : handler[h].msg = p})]
    /\ handler' = [h \in Handlers |-> Idle]
    /\ crashes' = crashes + 1
    /\ UNCHANGED <<rows, today, published, lost>>

Handle(h) ==
    \/ \E p \in BagToSet(queue) : Load(h, p)
    \/ Compute(h)
    \/ SaveProgress(h)
    \/ SaveStale(h)
    \/ Acknowledge(h)

Next ==
    \/ \E p \in Publishable : PublishMessage(p)
    \/ NextDay
    \/ \E h \in Handlers : Handle(h) \/ CallFails(h)
    \/ Crash

Spec == Init /\ [][Next]_vars

--------------------------------------------------------------------------------
(***************************************************************************)
(* Properties.                                                             *)
(***************************************************************************)
\* A user's progress on a track, 0 before the first message.
Progress(u, track) ==
    IF track \in AttemptTracks
    THEN IF attempts[u] = NoRow THEN 0 ELSE attempts[u][track]
    ELSE IF logins[u] = NoRow THEN 0 ELSE logins[u][track]

RowAt(u, login) == IF login THEN logins[u] ELSE attempts[u]

\* A badge that a manager awards is held exactly once from the moment its level is
\* reached, and not before, although user_badges has no unique index to refuse a
\* second row (onBadgeAdded waits for a P2002 that cannot come): the version does it,
\* across overlapping handlings, redelivery and crashes.  The badges of 14 days, which
\* BADGE_INFORMATION describes and updateProgress passes over, are never held.
BadgesMatchProgress ==
    \A u \in Users : \A b \in Badges :
        badges[u][b] = IF b \in Awarded /\ Progress(u, b[1]) >= b[2] THEN 1 ELSE 0

\* No save writes an older count over a newer one.
ProgressMonotone ==
    [][\A u \in Users : \A t \in AttemptTracks \cup LoginTracks :
          Progress(u, t) <= Progress(u, t)']_vars

\* Handlings get in each other's way only so often: a row loses at most one message
\* per other handler for each save it accepts, so progress is never starved.
LossesBounded ==
    \A u \in Users : \A login \in BOOLEAN :
        LET row == RowAt(u, login) IN
        lost[<<u, login>>] <=
            IF row = NoRow THEN 0 ELSE (Cardinality(Handlers) - 1) * (row.version - 1)

Quiet == queue = EmptyBag /\ \A h \in Handlers : handler[h] = Idle

\* The badge 'Completed your first attempt' of BADGE_INFORMATION.
FirstAttemptRewarded ==
    \A u \in Users :
        (Quiet /\ [user |-> u, event |-> "submitted"] \in BagToSet(published)) =>
            \A n \in AttemptLevels : n = 1 => badges[u][<<"total", n>>] > 0

\* The days a user logged in on.
LoginDays(u) ==
    {d \in 0..today : [user |-> u, event |-> "login", day |-> d] \in BagToSet(published)}

\* The badges 'Logged in for <n> total days' of BADGE_INFORMATION.
LoginDaysRewarded ==
    \A u \in Users : \A n \in LoginLevels :
        (Quiet /\ Cardinality(LoginDays(u)) >= n) => badges[u][<<"login", n>>] > 0

--------------------------------------------------------------------------------
(***************************************************************************)
(* Why it holds.                                                           *)
(***************************************************************************)
\* A handling whose version is still current works on the current row, and a save
\* in flight awards what the current row and the badges now held call for.
HandlingsSound ==
    \A h \in Handlers : handler[h].pc \in {"reading", "saving"} =>
        LET p == handler[h].msg
            row == handler[h].row
            now == RowOf(p)
        IN  /\ now # NoRow
            /\ row.version <= now.version
            /\ (row.version = now.version /\ handler[h].pc = "reading") => row = now
            /\ (row.version = now.version /\ handler[h].pc = "saving") =>
                 /\ row = Progressed(now, p)
                 /\ \A b \in Badges : b \in handler[h].earned <=>
                      (/\ b \in Awarded
                       /\ b[1] \in Tested(now, p) /\ Progressed(now, p)[b[1]] >= b[2]
                       /\ badges[p.user][b] = 0)

BadgeInv == HandlingsSound /\ BadgesMatchProgress

Working(h) == handler[h].pc \in {"reading", "saving"}

WorksOn(h, u, login) ==
    Working(h) /\ handler[h].msg.user = u /\ (IsLogin(handler[h].msg) <=> login)

\* The handlings of a row that a save has overtaken: they will lose their message.
Outrun(u, login) ==
    {h \in Handlers : /\ WorksOn(h, u, login)
                      /\ handler[h].row.version < RowAt(u, login).version}

\* Messages that are lost, or bound to be, stay within the bound.
WithinLosses(u, login) ==
    LET row == RowAt(u, login) IN
    IF row = NoRow THEN lost[<<u, login>>] = 0
    ELSE /\ row.version > 0
         /\ lost[<<u, login>>] + Cardinality(Outrun(u, login))
              <= (Cardinality(Handlers) - 1) * (row.version - 1)

LossInv == \A u \in Users : \A login \in BOOLEAN : WithinLosses(u, login)
================================================================================
