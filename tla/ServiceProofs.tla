---------------------------- MODULE ServiceProofs ----------------------------
(***************************************************************************)
(* Safety of the tokens, of the ownership of resources, of the grading of  *)
(* writing tasks and of the paged lists, for any constants.                *)
(***************************************************************************)
EXTENDS Tokens, Ownership, Grading, RoomList, TLAPS, WellFoundedInduction,
        FiniteSetTheorems

(***************************************************************************)
(* Tokens: a logout is final, since the key that revokes a token is        *)
(* forgotten only when the token has expired.                              *)
(***************************************************************************)
LEMMA TokensInitOK == TokensInit => TokensTypeOK
BY TokensAssumption DEF TokensInit, TokensTypeOK, NoLogout

LEMMA TokensStepOK == TokensTypeOK /\ [TokensNext]_tokenVars => TokensTypeOK'
<1> SUFFICES ASSUME TokensTypeOK, [TokensNext]_tokenVars PROVE TokensTypeOK'
  OBVIOUS
<1>1. CASE Tick
  <2>1. /\ second' \in Nat /\ second <= second' /\ part' \in 0..(Parts - 1)
        /\ UNCHANGED <<issued, logout, logouts, refresh>>
    BY <1>1, TokensAssumption DEF Tick, TokensTypeOK
  <2>2. issued' \subseteq [iat : 0..second', old : BOOLEAN]
    BY <2>1 DEF TokensTypeOK
  <2>3. logout' = NoLogout \/ logout' \in [second : 0..second', set : 0..second',
                                            part : 0..(Parts - 1)]
    BY <2>1 DEF TokensTypeOK
  <2>4. logouts' \subseteq 0..second'
    BY <2>1 DEF TokensTypeOK
  <2> QED BY <2>1, <2>2, <2>3, <2>4 DEF TokensTypeOK
<1>2. CASE Login
  <2>1. Begun(FALSE) \in [iat : 0..second, old : BOOLEAN]
    BY DEF Begun, TokensTypeOK
  <2> QED BY <1>2, <2>1 DEF Login, TokensTypeOK
<1>3. CASE ReadClock
  <2>1. logouts' \subseteq 0..second'
    BY <1>3 DEF ReadClock, TokensTypeOK
  <2>2. issued' \subseteq [iat : 0..second', old : BOOLEAN]
    BY <1>3 DEF ReadClock, TokensTypeOK
  <2>3. refresh' \in [Refreshes -> {"idle", "young", "old"}]
    BY <1>3 DEF ReadClock, TokensTypeOK
  <2> QED BY <1>3, <2>1, <2>2, <2>3 DEF ReadClock, TokensTypeOK
<1>7. ASSUME NEW s \in logouts, StoreLogout(s)
      PROVE  TokensTypeOK'
  <2>1. s \in 0..second /\ second \in Nat /\ s <= second
    BY DEF TokensTypeOK
  <2>2. /\ logout' \in [second : 0..second', set : 0..second', part : 0..(Parts - 1)]
        /\ logout'.second <= logout'.set
    BY <1>7, <2>1 DEF StoreLogout, TokensTypeOK
  <2>3. logouts' \subseteq 0..second'
    BY <1>7 DEF StoreLogout, TokensTypeOK
  <2> QED BY <1>7, <2>2, <2>3 DEF StoreLogout, TokensTypeOK
<1>8. ASSUME NEW s \in logouts, LogoutFails(s)
      PROVE  TokensTypeOK'
  BY <1>8 DEF LogoutFails, TokensTypeOK
<1>4. ASSUME NEW r \in Refreshes, ValidateRefresh(r) \/ RefreshFails(r)
      PROVE  TokensTypeOK'
  BY <1>4 DEF ValidateRefresh, RefreshFails, TokensTypeOK
<1>5. ASSUME NEW r \in Refreshes, Refresh(r)
      PROVE  TokensTypeOK'
  <2>1. Begun(refresh[r] = "old") \in [iat : 0..second, old : BOOLEAN]
    BY DEF Begun, TokensTypeOK
  <2> QED BY <1>5, <2>1 DEF Refresh, TokensTypeOK
<1>6. CASE UNCHANGED tokenVars
  BY <1>6 DEF tokenVars, TokensTypeOK
<1> QED BY <1>1, <1>2, <1>3, <1>4, <1>5, <1>6, <1>7, <1>8 DEF TokensNext

\* The clock, the tokens, the last logout and the requests keep their types.
THEOREM TokensTypeCorrect == TokensSpec => []TokensTypeOK
BY TokensInitOK, TokensStepOK, PTL DEF TokensSpec

LEMMA RevokedWhileUnexpired ==
    ASSUME TokensTypeOK, NEW t \in issued, NEW s \in Nat, s <= RefreshSeconds,
           t.iat < logout.second
    PROVE  ~Good(t, s)
<1>1. t.iat \in Nat /\ second \in Nat /\ RefreshSeconds \in Nat
  BY TokensAssumption DEF TokensTypeOK
<1>2. /\ logout # NoLogout /\ logout.second \in Nat
      /\ logout.set \in Nat /\ logout.second <= logout.set
  BY <1>1 DEF TokensTypeOK, NoLogout
<1>3. ASSUME second < t.iat + s
      PROVE  second < logout.set + RefreshSeconds
  BY <1>1, <1>2, <1>3
<1> QED BY <1>2, <1>3 DEF Good, IsTokenRevoked, Remembered

\* A token issued in a second before the one of a logoutAll is never good again.
THEOREM LogoutIsFinal == TokensSpec => []LoggedOutStaysOut
<1>1. ASSUME TokensTypeOK, NEW t \in issued, t.iat < logout.second
      PROVE  ~AccessGood(t) /\ ~RefreshGood(t)
  <2>1. /\ AccessSeconds \in Nat /\ AccessSeconds <= RefreshSeconds
        /\ RefreshSeconds \in Nat /\ RefreshSeconds <= RefreshSeconds
    BY TokensAssumption
  <2>2. ~Good(t, AccessSeconds) /\ ~Good(t, RefreshSeconds)
    BY <1>1, <2>1, RevokedWhileUnexpired
  <2> QED BY <2>2 DEF AccessGood, RefreshGood
<1>2. TokensTypeOK => LoggedOutStaysOut
  BY <1>1 DEF LoggedOutStaysOut
<1> QED BY <1>2, TokensTypeCorrect, PTL

\* What is not good stays so: it has expired, or it is revoked until then.
LEMMA NotGoodStays ==
    ASSUME TokensTypeOK, TokensTypeOK', NEW t \in issued, t \in issued',
           NEW s \in Nat, s <= RefreshSeconds,
           ~Good(t, s), second <= second', logout.second <= logout'.second
    PROVE  ~Good(t, s)'
<1>1. t.iat \in Nat /\ second \in Nat /\ second' \in Nat
  BY DEF TokensTypeOK
<1>2. CASE ~(second < t.iat + s)
  BY <1>1, <1>2 DEF Good
<1>3. CASE IsTokenRevoked(t)
  <2>0. logout.second \in Int /\ logout'.second \in Int
    BY DEF TokensTypeOK, NoLogout
  <2>1. t.iat < logout'.second
    BY <1>1, <1>3, <2>0 DEF IsTokenRevoked
  <2>2. /\ logout' # NoLogout /\ logout'.second \in Nat
        /\ logout'.set \in Nat /\ logout'.second <= logout'.set
    BY <1>1, <2>1 DEF TokensTypeOK, NoLogout
  <2>3. ASSUME second' < t.iat + s
        PROVE  second' < logout'.set + RefreshSeconds
    BY <1>1, <2>1, <2>2, <2>3, TokensAssumption
  <2> QED BY <2>1, <2>2, <2>3 DEF Good, IsTokenRevoked, Remembered
<1> QED BY <1>2, <1>3 DEF Good

LEMMA OverStays ==
    TokensTypeOK /\ TokensTypeOK' /\ [TokensNext]_tokenVars =>
       (OldSessionsOver /\ ~OverAnew => OldSessionsOver')
<1> SUFFICES ASSUME TokensTypeOK, TokensTypeOK', [TokensNext]_tokenVars, OldSessionsOver,
                    ~OverAnew
             PROVE  OldSessionsOver'
  OBVIOUS
<1>1. /\ second \in Nat /\ second' \in Nat /\ second <= second'
      /\ logout.second <= logout'.second
  <2>1. second \in Nat /\ second' \in Nat /\ logout.second \in Int
    BY DEF TokensTypeOK, NoLogout
  <2>2. CASE Tick
    BY <2>1, <2>2 DEF Tick
  <2>3. CASE Login
    BY <2>1, <2>3 DEF Login
  <2>4. CASE UNCHANGED tokenVars
    BY <2>1, <2>4 DEF tokenVars
  <2>5. ASSUME NEW r \in Refreshes, ValidateRefresh(r) \/ Refresh(r) \/ RefreshFails(r)
        PROVE  UNCHANGED <<second, logout>>
    BY <2>5 DEF ValidateRefresh, Refresh, RefreshFails
  <2>6. ASSUME NEW s \in logouts, StoreLogout(s)
        PROVE  second' = second /\ logout.second <= logout'.second
    <3>1. s \in Int /\ ~(s < logout.second)
      BY <2>6 DEF OverAnew, TokensTypeOK
    <3>2. second' = second /\ logout'.second = s
      BY <2>6 DEF StoreLogout
    <3> QED BY <2>1, <3>1, <3>2
  <2>7. ASSUME NEW s \in logouts, LogoutFails(s)
        PROVE  UNCHANGED <<second, logout>>
    BY <2>7 DEF LogoutFails
  <2> QED BY <2>1, <2>2, <2>3, <2>4, <2>5, <2>6, <2>7 DEF TokensNext, OverAnew
<1>2. \A r \in Refreshes : refresh'[r] # "old"
  <2>1. CASE Tick \/ Login \/ UNCHANGED tokenVars
    BY <2>1 DEF Tick, Login, tokenVars, OldSessionsOver
  <2>2. ASSUME NEW q \in Refreshes, ValidateRefresh(q)
        PROVE  \A r \in Refreshes : refresh'[r] # "old"
    BY <2>2 DEF ValidateRefresh, OldSessionsOver, TokensTypeOK
  <2>3. ASSUME NEW q \in Refreshes, Refresh(q) \/ RefreshFails(q)
        PROVE  \A r \in Refreshes : refresh'[r] # "old"
    BY <2>3 DEF Refresh, RefreshFails, OldSessionsOver, TokensTypeOK
  <2>4. ASSUME NEW s \in logouts, StoreLogout(s) \/ LogoutFails(s)
        PROVE  \A r \in Refreshes : refresh'[r] # "old"
    BY <2>4 DEF StoreLogout, LogoutFails, OldSessionsOver
  <2> QED BY <2>1, <2>2, <2>3, <2>4 DEF TokensNext, OverAnew
<1>3. ASSUME NEW t \in issued', t.old
      PROVE  t \in issued
  <2>1. CASE issued' = issued
    BY <2>1
  <2>2. CASE Login
    BY <1>3, <2>2 DEF Login, Begun
  <2>3. ASSUME NEW q \in Refreshes, Refresh(q)
        PROVE  t \in issued
    <3>1. Begun(refresh[q] = "old").old = FALSE
      BY DEF Begun, OldSessionsOver
    <3> QED BY <1>3, <2>3, <3>1 DEF Refresh
  <2>4. issued' = issued \/ Login \/ \E q \in Refreshes : Refresh(q)
    BY DEF TokensNext, Tick, ValidateRefresh, RefreshFails, StoreLogout, LogoutFails,
           OverAnew, tokenVars
  <2> QED BY <2>1, <2>2, <2>3, <2>4
<1>4. ASSUME NEW t \in issued', t.old
      PROVE  ~AccessGood(t)' /\ ~RefreshGood(t)'
  <2>1. t \in issued /\ ~Good(t, AccessSeconds) /\ ~Good(t, RefreshSeconds)
    BY <1>3, <1>4 DEF OldSessionsOver, AccessGood, RefreshGood
  <2>2. ~Good(t, AccessSeconds)' /\ ~Good(t, RefreshSeconds)'
    BY <1>1, <2>1, NotGoodStays, TokensAssumption
  <2> QED BY <2>2 DEF AccessGood, RefreshGood
<1> QED BY <1>2, <1>4 DEF OldSessionsOver

\* Once the sessions from before a logoutAll are over, they stay over, unless a logoutAll
\* begins or stores an older second than is stored.
THEOREM OverIsFinal == TokensSpec => SessionsStayOver
BY OverStays, TokensTypeCorrect, PTL DEF TokensSpec, SessionsStayOver

(***************************************************************************)
(* Ownership.  The invariant that carries the proof, of one resource: who  *)
(* owns it or is about to has created it; and unless a message was lost or *)
(* repeated or the last removal came late, a resource that is there has an *)
(* owner or will get one, and a removal is on its way for one that is not. *)
(***************************************************************************)
OwnerComes(story, o) == o # NoOwner \/ \E u \in Creators : story.created[u] > 0

Sound(row, story, o) ==
    /\ o = NoOwner \/ o \in row.by
    /\ \A u \in Creators : story.created[u] > 0 => u \in row.by
    /\ ~story.faulty /\ ~story.late =>
          /\ row.live => OwnerComes(story, o)
          /\ ~row.live /\ row.type # "flashcard" /\ OwnerComes(story, o) => story.deleted > 0

PassedOK == \A q \in Guarded : \A r \in passed[q].to : passed[q].by \in resource[r].by

OwnIInv ==
    /\ OwnTypeOK /\ PassedOK
    /\ \A r \in Resources : Sound(resource[r], news[r], owner[r])

LEMMA OwnInitOK == OwnInit => OwnIInv
<1> SUFFICES ASSUME OwnInit PROVE OwnIInv
  OBVIOUS
<1>1. NoResource \in Row /\ NoNews \in Story
  BY DEF NoResource, NoNews, Row, Story
<1>2. NotPassed \in [by : Creators \cup {NoOwner}, to : SUBSET Resources]
  BY DEF NotPassed
<1>3. Sound(NoResource, NoNews, NoOwner)
  BY DEF Sound, OwnerComes, NoResource, NoNews
<1>4. OwnTypeOK
  BY <1>1, <1>2 DEF OwnInit, OwnTypeOK
<1> QED BY <1>3, <1>4 DEF OwnInit, OwnIInv, PassedOK, NotPassed

\* One resource changes, its creators stay.
LEMMA ResourceChange ==
    ASSUME OwnIInv, NEW r \in Resources,
           NEW row \in Row, NEW story \in Story, NEW o \in Creators \cup {NoOwner},
           resource' = [resource EXCEPT ![r] = row], news' = [news EXCEPT ![r] = story],
           owner' = [owner EXCEPT ![r] = o], losses' \in Nat,
           passed' = passed \/ \E q \in Guarded : passed' = [passed EXCEPT ![q] = NotPassed],
           resource[r].by \subseteq row.by, Sound(row, story, o)
    PROVE  OwnIInv'
<1>1. OwnTypeOK /\ PassedOK /\ \A s \in Resources : Sound(resource[s], news[s], owner[s])
  BY DEF OwnIInv
<1>2. NotPassed \in [by : Creators \cup {NoOwner}, to : SUBSET Resources] /\ NotPassed.to = {}
  BY DEF NotPassed
<1>3. \A q \in Guarded : passed'[q] = passed[q] \/ passed'[q] = NotPassed
  BY <1>1 DEF OwnTypeOK
<1>4. OwnTypeOK'
  BY <1>1, <1>2 DEF OwnTypeOK
<1>5. \A s \in Resources : resource[s].by \subseteq resource'[s].by
  BY <1>1 DEF OwnTypeOK
<1>6. PassedOK'
  BY <1>1, <1>2, <1>3, <1>5 DEF PassedOK, OwnTypeOK
<1>7. \A s \in Resources : Sound(resource[s], news[s], owner[s])'
  BY <1>1 DEF OwnTypeOK, Sound, OwnerComes
<1> QED BY <1>4, <1>6, <1>7 DEF OwnIInv

\* What a deletion makes of a row.
LEMMA DeletedRow ==
    ASSUME NEW old \in Row, NEW n \in Nat
    PROVE  LET row == [old EXCEPT !.live = FALSE, !.deletions = n]
           IN  row \in Row /\ row.live = FALSE /\ row.by = old.by /\ row.type = old.type
BY DEF Row

LEMMA CreateOK ==
    ASSUME OwnIInv, NEW r \in Resources, NEW u \in Creators, CreateResource(r, u)
    PROVE  OwnIInv'
<1> DEFINE old == resource[r]
           s == news[r]
           story == [s EXCEPT !.created = [s.created EXCEPT ![u] = @ + 1]]
<1>1. old \in Row /\ s \in Story /\ owner[r] \in Creators \cup {NoOwner} /\ losses \in Nat
  BY DEF OwnIInv, OwnTypeOK
<1>2. PICK type \in ResourceTypes :
         resource' = [resource EXCEPT ![r] = [old EXCEPT !.type = type, !.live = TRUE,
                                       !.by = old.by \cup {u}, !.creations = old.creations + 1]]
  BY DEF CreateResource, Creates, OwnIInv, OwnTypeOK
<1> DEFINE n == old.creations + 1
           row == [old EXCEPT !.type = type, !.live = TRUE, !.by = old.by \cup {u},
                              !.creations = n]
<1>3. row \in Row /\ row.live = TRUE /\ row.by = old.by \cup {u}
  <2>1. n \in Nat
    BY <1>1 DEF Row
  <2> HIDE DEF n
  <2> QED BY <1>1, <2>1 DEF Row
<1>4. /\ story \in Story /\ story.created[u] > 0 /\ story.faulty = s.faulty
      /\ \A v \in Creators : v # u => story.created[v] = s.created[v]
  BY <1>1 DEF Story
<1>5. news' = [news EXCEPT ![r] = story]
  BY DEF CreateResource, OwnIInv, OwnTypeOK
<1> HIDE DEF row, story
<1>6. Sound(row, story, owner[r])
  <2>1. Sound(old, s, owner[r])
    BY DEF OwnIInv
  <2> QED BY <1>3, <1>4, <2>1 DEF Sound, OwnerComes
<1>7. resource' = [resource EXCEPT ![r] = row] /\ owner' = [owner EXCEPT ![r] = owner[r]]
  BY <1>2 DEF row, CreateResource, OwnIInv, OwnTypeOK
<1>8. passed' = passed /\ losses' = losses
  BY DEF CreateResource
<1> QED BY <1>1, <1>3, <1>4, <1>5, <1>6, <1>7, <1>8, ResourceChange

LEMMA DeleteOK ==
    ASSUME OwnIInv, NEW r \in Resources, Delete(r),
           passed' = passed \/ \E q \in Guarded : passed' = [passed EXCEPT ![q] = NotPassed]
    PROVE  OwnIInv'
<1> DEFINE old == resource[r]
           s == news[r]
           row == [old EXCEPT !.live = FALSE, !.deletions = old.deletions + 1]
           d == IF old.type = "flashcard" THEN s.deleted ELSE s.deleted + 1
           story == [s EXCEPT !.deleted = d]
<1>1. /\ old \in Row /\ s \in Story /\ owner[r] \in Creators \cup {NoOwner} /\ losses \in Nat
      /\ resource = [resource EXCEPT ![r] = old] /\ owner = [owner EXCEPT ![r] = owner[r]]
  BY DEF OwnIInv, OwnTypeOK
<1>2. row \in Row /\ row.live = FALSE /\ row.by = old.by /\ row.type = old.type
  <2>1. old.deletions + 1 \in Nat
    BY <1>1 DEF Row
  <2> QED BY <1>1, <2>1, DeletedRow
<1>3. d \in Nat /\ (old.type # "flashcard" => d > 0)
  BY <1>1 DEF Story
<1>4. resource' = [resource EXCEPT ![r] = row] /\ news' = [news EXCEPT ![r] = story]
  BY DEF Delete, OwnIInv, OwnTypeOK
<1>5. owner' = owner /\ losses' = losses
  BY DEF Delete
<1> HIDE DEF row, d
<1>6. /\ story \in Story /\ story.deleted = d /\ story.created = s.created
      /\ story.faulty = s.faulty /\ story.late = s.late
  BY <1>1, <1>3 DEF Story
<1> HIDE DEF story
<1>7. Sound(row, story, owner[r])
  <2>1. Sound(old, s, owner[r])
    BY DEF OwnIInv
  <2> QED BY <1>2, <1>3, <1>6, <2>1 DEF Sound, OwnerComes
<1> QED BY <1>1, <1>2, <1>4, <1>5, <1>6, <1>7, ResourceChange

\* A registration, handled or repeated, or a creation that is lost.
LEMMA CreationHandledOK ==
    ASSUME OwnIInv, NEW r \in Resources, NEW u \in Creators,
           RegisterOwnership(r, u) \/ CreationLost(r, u) \/ RegisteredTwice(r, u)
    PROVE  OwnIInv'
<1> DEFINE s == news[r]
           fewer == [s.created EXCEPT ![u] = @ - 1]
<1>1. /\ resource[r] \in Row /\ s \in Story /\ s.created[u] > 0 /\ u \in resource[r].by
      /\ owner[r] \in Creators \cup {NoOwner} /\ Sound(resource[r], s, owner[r])
      /\ resource = [resource EXCEPT ![r] = resource[r]]
      /\ owner = [owner EXCEPT ![r] = owner[r]]
      /\ losses \in Nat /\ losses + 1 \in Nat
  BY DEF RegisterOwnership, CreationLost, RegisteredTwice, OnItsWay, OwnIInv, OwnTypeOK, Sound
<1>2. /\ resource' = resource /\ passed' = passed
      /\ losses' = losses \/ losses' = losses + 1
  BY DEF RegisterOwnership, CreationLost, RegisteredTwice, Loss
<1>3. /\ fewer \in [Creators -> Nat]
      /\ \A v \in Creators : fewer[v] > 0 => s.created[v] > 0
  BY <1>1 DEF Story
<1> HIDE DEF fewer
<1>4. CASE RegisterOwnership(r, u)
  <2> DEFINE late == s.late /\ ~resource[r].live
             story == [s EXCEPT !.created = fewer, !.late = late]
  <2> HIDE DEF late
  <2>1. story \in Story /\ story.created = fewer /\ story.deleted = s.deleted
        /\ story.faulty = s.faulty /\ story.late = late
    <3>1. late \in BOOLEAN
      BY DEF late
    <3> QED BY <1>1, <1>3, <3>1 DEF Story
  <2>2. news' = [news EXCEPT ![r] = story] /\ owner' = [owner EXCEPT ![r] = u]
    BY <1>4 DEF RegisterOwnership, OwnIInv, OwnTypeOK, fewer, late
  <2> HIDE DEF story
  <2>3. Sound(resource[r], story, u)
    BY <1>1, <1>3, <2>1, OwnershipAssumption DEF Sound, OwnerComes, late
  <2> QED BY <1>1, <1>2, <2>1, <2>2, <2>3, ResourceChange
<1>5. CASE CreationLost(r, u)
  <2> DEFINE story == [s EXCEPT !.created = fewer, !.faulty = TRUE]
  <2>1. story \in Story /\ story.created = fewer /\ story.faulty = TRUE
    BY <1>1, <1>3 DEF Story
  <2>2. news' = [news EXCEPT ![r] = story] /\ owner' = owner
    BY <1>5 DEF CreationLost, OwnIInv, OwnTypeOK, fewer
  <2> HIDE DEF story
  <2>3. Sound(resource[r], story, owner[r])
    BY <1>1, <1>3, <2>1 DEF Sound
  <2> QED BY <1>1, <1>2, <2>1, <2>2, <2>3, ResourceChange
<1>6. CASE RegisteredTwice(r, u)
  <2> DEFINE story == [s EXCEPT !.faulty = TRUE]
  <2>1. story \in Story /\ story.created = s.created /\ story.faulty = TRUE
    BY <1>1 DEF Story
  <2>2. news' = [news EXCEPT ![r] = story] /\ owner' = [owner EXCEPT ![r] = u]
    BY <1>6 DEF RegisteredTwice, OwnIInv, OwnTypeOK
  <2> HIDE DEF story
  <2>3. Sound(resource[r], story, u)
    BY <1>1, <2>1 DEF Sound
  <2> QED BY <1>1, <1>2, <2>1, <2>2, <2>3, ResourceChange
<1> QED BY <1>4, <1>5, <1>6

\* A removal, handled or repeated, or a deletion that is lost.
LEMMA DeletionHandledOK ==
    ASSUME OwnIInv, NEW r \in Resources,
           RemoveOwnership(r) \/ DeletionLost(r) \/ RemovedTwice(r)
    PROVE  OwnIInv'
<1> DEFINE s == news[r]
           late == resource[r].live \/ OnItsWay(r) # {}
<1>1. /\ resource[r] \in Row /\ s \in Story /\ s.deleted > 0
      /\ owner[r] \in Creators \cup {NoOwner} /\ Sound(resource[r], s, owner[r])
      /\ resource = [resource EXCEPT ![r] = resource[r]]
      /\ owner = [owner EXCEPT ![r] = owner[r]]
      /\ losses \in Nat /\ losses + 1 \in Nat
  BY DEF RemoveOwnership, DeletionLost, RemovedTwice, OwnIInv, OwnTypeOK
<1>2. /\ resource' = resource /\ passed' = passed
      /\ losses' = losses \/ losses' = losses + 1
  BY DEF RemoveOwnership, DeletionLost, RemovedTwice, Loss
<1>3. s.deleted \in Nat /\ s.deleted - 1 \in Nat
  BY <1>1 DEF Story
<1>4. CASE RemoveOwnership(r)
  <2> DEFINE story == [s EXCEPT !.deleted = s.deleted - 1, !.late = late]
  <2>1. late \in BOOLEAN
    BY <1>1 DEF Story, Row
  <2>2. news' = [news EXCEPT ![r] = story] /\ owner' = [owner EXCEPT ![r] = NoOwner]
    BY <1>4 DEF RemoveOwnership, Handled, OwnIInv, OwnTypeOK
  <2>3. late = FALSE => /\ ~resource[r].live
                        /\ \A u \in Creators : ~(s.created[u] > 0)
    BY DEF OnItsWay
  <2> HIDE DEF late
  <2>4. story \in Story /\ story.created = s.created /\ story.late = late
    BY <1>1, <1>3, <2>1 DEF Story
  <2> HIDE DEF story
  <2>5. Sound(resource[r], story, NoOwner)
    BY <1>1, <2>1, <2>3, <2>4 DEF Sound, OwnerComes
  <2> QED BY <1>1, <1>2, <2>2, <2>4, <2>5, ResourceChange
<1>5. CASE DeletionLost(r)
  <2> DEFINE story == [s EXCEPT !.deleted = s.deleted - 1, !.faulty = TRUE]
  <2>1. story \in Story /\ story.created = s.created /\ story.faulty = TRUE
    BY <1>1, <1>3 DEF Story
  <2>2. news' = [news EXCEPT ![r] = story] /\ owner' = owner
    BY <1>5 DEF DeletionLost, OwnIInv, OwnTypeOK
  <2> HIDE DEF story
  <2>3. Sound(resource[r], story, owner[r])
    BY <1>1, <2>1 DEF Sound
  <2> QED BY <1>1, <1>2, <2>1, <2>2, <2>3, ResourceChange
<1>6. CASE RemovedTwice(r)
  <2> DEFINE story == [s EXCEPT !.faulty = TRUE]
  <2>1. story \in Story /\ story.created = s.created /\ story.faulty = TRUE
    BY <1>1 DEF Story
  <2>2. news' = [news EXCEPT ![r] = story] /\ owner' = [owner EXCEPT ![r] = NoOwner]
    BY <1>6 DEF RemovedTwice, OwnIInv, OwnTypeOK
  <2> HIDE DEF story
  <2>3. Sound(resource[r], story, NoOwner)
    BY <1>1, <2>1 DEF Sound
  <2> QED BY <1>1, <1>2, <2>1, <2>2, <2>3, ResourceChange
<1> QED BY <1>4, <1>5, <1>6

\* The guard lets an owner through.
LEMMA GuardOK ==
    ASSUME OwnIInv, NEW q \in Guarded,
           \/ \E r \in Resources, u \in Creators : CheckOwnership(q, r, u)
           \/ RequestEnds(q)
    PROVE  OwnIInv'
<1>1. /\ UNCHANGED <<resource, owner, news, losses>>
      /\ \E p \in [by : Creators \cup {NoOwner}, to : SUBSET Resources] :
            /\ passed' = [passed EXCEPT ![q] = p]
            /\ \A r \in p.to : p.by \in resource[r].by
  <2>1. ASSUME NEW r \in Resources, NEW u \in Creators, CheckOwnership(q, r, u)
        PROVE  u \in resource[r].by
    BY <2>1, OwnershipAssumption DEF CheckOwnership, OwnIInv, Sound
  <2>2. CASE \E r \in Resources, u \in Creators : CheckOwnership(q, r, u)
    <3>1. PICK r \in Resources, u \in Creators : CheckOwnership(q, r, u)
      BY <2>2
    <3> DEFINE p == [by |-> u, to |-> {r}]
    <3>2. /\ p \in [by : Creators \cup {NoOwner}, to : SUBSET Resources]
          /\ \A s \in p.to : p.by \in resource[s].by
      BY <2>1, <3>1
    <3>3. passed' = [passed EXCEPT ![q] = p] /\ UNCHANGED <<resource, owner, news, losses>>
      BY <3>1 DEF CheckOwnership, Pass
    <3> QED BY <3>2, <3>3
  <2>3. CASE RequestEnds(q)
    <3>1. /\ NotPassed \in [by : Creators \cup {NoOwner}, to : SUBSET Resources]
          /\ \A r \in NotPassed.to : NotPassed.by \in resource[r].by
      BY DEF NotPassed
    <3> QED BY <2>3, <3>1 DEF RequestEnds
  <2> QED BY <2>2, <2>3
<1>2. OwnTypeOK'
  BY <1>1 DEF OwnIInv, OwnTypeOK
<1>3. PassedOK'
  BY <1>1 DEF OwnIInv, OwnTypeOK, PassedOK
<1> QED BY <1>1, <1>2, <1>3 DEF OwnIInv

LEMMA OwnStepOK == OwnIInv /\ [OwnNext]_ownVars => OwnIInv'
<1> SUFFICES ASSUME OwnIInv, [OwnNext]_ownVars PROVE OwnIInv'
  OBVIOUS
<1>1. ASSUME NEW r \in Resources, DeleteUnguarded(r) PROVE OwnIInv'
  BY <1>1, DeleteOK DEF DeleteUnguarded
<1>2. ASSUME NEW q \in Guarded, DeleteGuarded(q) PROVE OwnIInv'
  <2>1. PICK r \in passed[q].to : Delete(r)
    BY <1>2 DEF DeleteGuarded
  <2>2. r \in Resources
    BY DEF OwnIInv, OwnTypeOK
  <2> QED BY <1>2, <2>1, <2>2, DeleteOK DEF DeleteGuarded
<1>3. CASE UNCHANGED ownVars
  BY <1>3 DEF ownVars, OwnIInv, OwnTypeOK, PassedOK
<1>4. CASE OwnNext
  BY <1>1, <1>2, <1>4, CreateOK, CreationHandledOK, DeletionHandledOK, GuardOK DEF OwnNext
<1> QED BY <1>3, <1>4

THEOREM OwnInvariant == OwnSpec => []OwnIInv
BY OwnInitOK, OwnStepOK, PTL DEF OwnSpec

\* The rows, the table of owners and what is on its way keep their types.
THEOREM OwnTypeCorrect == OwnSpec => []OwnTypeOK
<1>1. OwnIInv => OwnTypeOK
  BY DEF OwnIInv
<1> QED BY <1>1, OwnInvariant, PTL

\* Only a creator of a resource is its owner, or is let through.
THEOREM OwnersCreated == OwnSpec => []OwnersAreCreators
<1>1. OwnIInv => OwnersAreCreators
  BY DEF OwnIInv, PassedOK, Sound, OwnersAreCreators
<1> QED BY <1>1, OwnInvariant, PTL

\* When all messages of a resource are handled, it has an owner if and only if it is there.
THEOREM OwnershipIsSettled == OwnSpec => []OwnershipSettles
<1>1. ASSUME OwnIInv, NEW r \in Resources, Settled(r)
      PROVE  \/ resource[r].live <=> owner[r] # NoOwner
             \/ resource[r].type = "flashcard" /\ ~resource[r].live
  <2>1. Sound(resource[r], news[r], owner[r])
    BY <1>1 DEF OwnIInv
  <2>2. ~ \E u \in Creators : news[r].created[u] > 0
    BY <1>1 DEF Settled, OnItsWay
  <2>3. ~(news[r].deleted > 0) /\ ~news[r].faulty /\ ~news[r].late
    BY <1>1 DEF Settled
  <2> QED BY <2>1, <2>2, <2>3 DEF Sound, OwnerComes
<1>2. OwnIInv => OwnershipSettles
  BY <1>1 DEF OwnershipSettles
<1> QED BY <1>2, OwnInvariant, PTL

(***************************************************************************)
(* Grading.  Every step keeps a copy of a result in a queue, or its trace. *)
(***************************************************************************)
GradeIInv == GradeTypeOK /\ NoResultLost

\* A result that is saved, dead, or in some queue.
Kept(copy) ==
    copy.sent => copy.saved \/ copy.dead
                 \/ \E n \in Retries : copy.ready[n] > 0 \/ copy.delayed[n] > 0

LEMMA ResultChange ==
    ASSUME GradeIInv, NEW r \in Results, NEW copy \in Copies, Kept(copy),
           result' = [result EXCEPT ![r] = copy],
           comment' \in Results \cup {NoComment}, redelivered' \in Nat
    PROVE  GradeIInv'
<1>1. result \in [Results -> Copies] /\ \A s \in Results : Kept(result[s])
  BY DEF GradeIInv, GradeTypeOK, NoResultLost, OnTheWay, Kept
<1>2. result' \in [Results -> Copies] /\ \A s \in Results : Kept(result'[s])
  BY <1>1
<1> QED BY <1>2 DEF GradeIInv, GradeTypeOK, NoResultLost, OnTheWay, Kept

LEMMA OutcomeOK ==
    ASSUME GradeIInv, NEW r \in Results, NEW n \in Retries, NEW done \in {0, 1},
           result[r].ready[n] > 0, redelivered' \in Nat,
           Outcome(r, n, done) \/ (DeadLetter(r, n) /\ done = 1)
    PROVE  GradeIInv'
<1> DEFINE f == [result[r].ready EXCEPT ![n] = @ - done]
           c == Acknowledged(r, n, done)
<1>1. /\ result[r] \in Copies /\ result[r].ready \in [Retries -> Nat]
      /\ comment \in Results \cup {NoComment} /\ MaxRetries \in Nat
  BY GradingAssumption DEF GradeIInv, GradeTypeOK, Copies
<1>2. f \in [Retries -> Nat]
  BY <1>1
<1>3. c \in Copies
  <2>1. c = [result[r] EXCEPT !.ready = f]
    BY <1>1 DEF Acknowledged, Copies
  <2> HIDE DEF f
  <2> QED BY <1>1, <1>2, <2>1 DEF Copies
<1> HIDE DEF c
<1>4. CASE SaveComment(r, n, done)
  <2> DEFINE d == [c EXCEPT !.saved = TRUE]
  <2>1. d \in Copies /\ d.saved = TRUE
    BY <1>3 DEF Copies
  <2>2. result' = [result EXCEPT ![r] = d] /\ comment' = r
    BY <1>4 DEF SaveComment, c
  <2> HIDE DEF d
  <2> QED BY <2>1, <2>2, ResultChange DEF Kept
<1>5. CASE Retry(r, n, done)
  <2> DEFINE g == [c.delayed EXCEPT ![n + 1] = @ + 1]
             d == [c EXCEPT !.delayed = g]
  <2>1. n + 1 \in 1..MaxRetries /\ n + 1 \in Retries
    BY <1>1, <1>5 DEF Retry, MayRetry, Retries
  <2>2. g \in [Retries -> Nat] /\ g[n + 1] > 0
    BY <1>3, <2>1 DEF Copies
  <2>3. result' = [result EXCEPT ![r] = d] /\ comment' = comment
    BY <1>5, <2>1 DEF Retry, Delayed, c
  <2> HIDE DEF g
  <2>4. d \in Copies /\ d.delayed = g
    BY <1>3, <2>2 DEF Copies
  <2> HIDE DEF d
  <2>5. Kept(d)
    BY <2>1, <2>2, <2>4 DEF Kept
  <2> QED BY <1>1, <2>3, <2>4, <2>5, ResultChange
<1>6. CASE DeadLetter(r, n) /\ done = 1
  <2> DEFINE d == [c EXCEPT !.dead = TRUE]
  <2>1. d \in Copies /\ d.dead = TRUE
    BY <1>3 DEF Copies
  <2>2. result' = [result EXCEPT ![r] = d] /\ comment' = comment
    BY <1>6 DEF DeadLetter, c
  <2> HIDE DEF d
  <2> QED BY <1>1, <2>1, <2>2, ResultChange DEF Kept
<1> QED BY <1>4, <1>5, <1>6 DEF Outcome

LEMMA GradeStepOK == GradeIInv /\ [GradeNext]_gradeVars => GradeIInv'
<1> SUFFICES ASSUME GradeIInv, [GradeNext]_gradeVars PROVE GradeIInv'
  OBVIOUS
<1>1. redelivered \in Nat /\ redelivered + 1 \in Nat /\ comment \in Results \cup {NoComment}
  BY DEF GradeIInv, GradeTypeOK
<1>2. ASSUME NEW r \in Results, SendResult(r)
      PROVE  GradeIInv'
  <2> DEFINE f == [result[r].ready EXCEPT ![0] = @ + 1]
  <2>1. /\ result[r] \in Copies /\ f \in [Retries -> Nat] /\ f[0] > 0 /\ 0 \in Retries
    BY GradingAssumption DEF GradeIInv, GradeTypeOK, Copies, Retries
  <2>2. PICK error \in BOOLEAN :
           result' = [result EXCEPT ![r].sent = TRUE, ![r].error = error, ![r].ready[0] = @ + 1]
    BY <1>2 DEF SendResult
  <2> DEFINE d == [result[r] EXCEPT !.sent = TRUE, !.error = error, !.ready = f]
  <2> HIDE DEF f
  <2>3. d \in Copies /\ d.ready = f
    BY <2>1 DEF Copies
  <2>4. result' = [result EXCEPT ![r] = d] /\ UNCHANGED <<comment, redelivered>>
    BY <1>2, <2>1, <2>2 DEF SendResult, GradeIInv, GradeTypeOK, Copies, f
  <2> HIDE DEF d
  <2>5. Kept(d)
    BY <2>1, <2>3 DEF Kept
  <2> QED BY <1>1, <2>3, <2>4, <2>5, ResultChange
<1>3. ASSUME NEW r \in Results, NEW n \in Retries, Handle(r, n)
      PROVE  GradeIInv'
  BY <1>1, <1>3, OutcomeOK DEF Handle
<1>4. ASSUME NEW r \in Results, NEW n \in Retries, HandleAgain(r, n)
      PROVE  GradeIInv'
  BY <1>1, <1>4, OutcomeOK DEF HandleAgain
<1>5. ASSUME NEW r \in Results, NEW n \in Retries, Expire(r, n)
      PROVE  GradeIInv'
  <2> DEFINE f == [result[r].ready EXCEPT ![n] = @ + 1]
             g == [result[r].delayed EXCEPT ![n] = @ - 1]
             d == [result[r] EXCEPT !.delayed = g, !.ready = f]
  <2>1. /\ result[r] \in Copies /\ f \in [Retries -> Nat] /\ f[n] > 0
        /\ g \in [Retries -> Nat]
    BY <1>5 DEF Expire, GradeIInv, GradeTypeOK, Copies
  <2>2. result' = [result EXCEPT ![r] = d] /\ UNCHANGED <<comment, redelivered>>
    BY <1>5 DEF Expire, GradeIInv, GradeTypeOK
  <2> HIDE DEF f, g
  <2>3. d \in Copies /\ d.ready = f
    BY <2>1 DEF Copies
  <2> HIDE DEF d
  <2>4. Kept(d)
    BY <2>1, <2>3 DEF Kept
  <2> QED BY <1>1, <2>2, <2>3, <2>4, ResultChange
<1>6. CASE UNCHANGED gradeVars
  BY <1>6 DEF gradeVars, GradeIInv, GradeTypeOK, NoResultLost, OnTheWay
<1> QED BY <1>2, <1>3, <1>4, <1>5, <1>6 DEF GradeNext

LEMMA GradeInitOK == GradeInit => GradeIInv
BY DEF GradeInit, NoResult, GradeIInv, GradeTypeOK, Copies, NoResultLost

THEOREM GradeInvariant == GradeSpec => []GradeIInv
BY GradeInitOK, GradeStepOK, PTL DEF GradeSpec

\* The copies of the results and the comment keep their types.
THEOREM GradeTypeCorrect == GradeSpec => []GradeTypeOK
<1>1. GradeIInv => GradeTypeOK
  BY DEF GradeIInv
<1> QED BY <1>1, GradeInvariant, PTL

\* Retries and crashes lose no result.
THEOREM ResultsAreKept == GradeSpec => []NoResultLost
<1>1. GradeIInv => NoResultLost
  BY DEF GradeIInv
<1> QED BY <1>1, GradeInvariant, PTL

(***************************************************************************)
(* Paged lists.  What a page holds depends on how many rooms lie between   *)
(* two ids; the pages of a walk lie behind one another because the last    *)
(* room of a page is the last one shown.                                   *)
(***************************************************************************)
\* The rooms listed from a on and before b.
Span(a, b) == {s \in listed : a <= s /\ s < b}

\* Every set of natural numbers that is not empty has a least member.
LEMMA LeastOfNaturals ==
    ASSUME NEW T \in SUBSET Nat, T # {}
    PROVE  \E n \in T : \A m \in T : n <= m
<1>1. PICK n \in T : \A m \in T : <<m, n>> \notin OpToRel(<, Nat)
  BY NatLessThanWellFounded, WFMin
<1>2. \A m \in T : <<m, n>> \in OpToRel(<, Nat) <=> m < n
  BY DEF OpToRel
<1>3. n \in Nat /\ \A m \in T : m \in Nat /\ ~(m < n)
  BY <1>1, <1>2
<1> QED BY <1>3

\* FirstOf and LastOf choose the least and the greatest room of a page.
LEMMA FirstIsLeast ==
    ASSUME NEW page \in SUBSET Rooms, page # {}
    PROVE  FirstOf(page) \in page /\ \A s \in page : FirstOf(page) <= s
<1>1. page \in SUBSET Nat
  BY RoomListAssumption DEF Rooms
<1>2. \E r \in page : \A s \in page : r <= s
  BY <1>1, LeastOfNaturals
<1> QED BY <1>2 DEF FirstOf

LEMMA LastIsGreatest ==
    ASSUME NEW page \in SUBSET Rooms, page # {}
    PROVE  LastOf(page) \in page /\ \A s \in page : s <= LastOf(page)
<1> DEFINE mirror == {n \in Nat : \E s \in page : n = MaxRoom - s}
<1>1. MaxRoom \in Nat /\ \A s \in page : s \in Nat /\ s <= MaxRoom
  BY RoomListAssumption DEF Rooms
<1>2. \A s \in page : MaxRoom - s \in mirror
  BY <1>1
<1>3. mirror \in SUBSET Nat /\ mirror # {}
  BY <1>2
<1>4. PICK n \in mirror : \A m \in mirror : n <= m
  BY <1>3, LeastOfNaturals
<1>5. PICK r \in page : n = MaxRoom - r
  BY <1>4
<1>6. \A s \in page : s <= r
  BY <1>1, <1>2, <1>4, <1>5
<1>7. \E x \in page : \A s \in page : s <= x
  BY <1>6
<1> QED BY <1>7 DEF LastOf

LEMMA SpanFinite ==
    ASSUME listed \subseteq Rooms, NEW a, NEW b
    PROVE  IsFiniteSet(Span(a, b)) /\ Cardinality(Span(a, b)) \in Nat
<1>1. IsFiniteSet(Rooms)
  BY RoomListAssumption, FS_Interval DEF Rooms
<1>2. Span(a, b) \in SUBSET Rooms
  BY DEF Span
<1>3. IsFiniteSet(Span(a, b))
  BY <1>1, <1>2, FS_Subset
<1> QED BY <1>3, FS_CardinalityType

\* Counting on: what lies before b and what lies from b on.
LEMMA SpanSplit ==
    ASSUME listed \subseteq Rooms, NEW a \in Nat, NEW b \in Nat, NEW c \in Nat,
           a <= b, b <= c
    PROVE  Cardinality(Span(a, c)) = Cardinality(Span(a, b)) + Cardinality(Span(b, c))
<1>1. \A s \in listed : s \in Nat
  BY RoomListAssumption DEF Rooms
<1>2. Span(a, c) = Span(a, b) \cup Span(b, c) /\ Span(a, b) \cap Span(b, c) = {}
  BY <1>1 DEF Span
<1>3. /\ IsFiniteSet(Span(a, b)) /\ IsFiniteSet(Span(b, c))
      /\ Cardinality(Span(a, b)) \in Nat /\ Cardinality(Span(b, c)) \in Nat
  BY SpanFinite
<1>4. Cardinality(Span(a, b) \cup Span(b, c)) =
        Cardinality(Span(a, b)) + Cardinality(Span(b, c))
          - Cardinality(Span(a, b) \cap Span(b, c))
  BY <1>3, FS_Union
<1>5. Cardinality(Span(a, b) \cap Span(b, c)) = 0
  BY <1>2, FS_EmptySet
<1> QED BY <1>2, <1>3, <1>4, <1>5

\* A room listed counts once.
LEMMA SpanOfOne ==
    ASSUME listed \subseteq Rooms, NEW r \in listed
    PROVE  r \in Nat /\ Cardinality(Span(r, r + 1)) = 1
<1>1. \A s \in listed : s \in Nat
  BY RoomListAssumption DEF Rooms
<1>2. Span(r, r + 1) = {r}
  BY <1>1 DEF Span
<1> QED BY <1>1, <1>2, FS_Singleton

LEMMA SpanOfNone ==
    ASSUME listed \subseteq Rooms, NEW a \in Nat
    PROVE  Cardinality(Span(a, a)) = 0
<1>1. \A s \in listed : s \in Nat
  BY RoomListAssumption DEF Rooms
<1>2. Span(a, a) = {}
  BY <1>1 DEF Span
<1> QED BY <1>2, FS_EmptySet

\* Of two rooms the one behind has the other before it.
LEMMA SpanGrows ==
    ASSUME listed \subseteq Rooms, NEW a \in Nat, NEW r \in listed, NEW t \in Nat,
           a <= r, r < t
    PROVE  Cardinality(Span(a, t)) >= Cardinality(Span(a, r)) + 1
<1>1. r \in Nat /\ r + 1 \in Nat /\ Cardinality(Span(r, r + 1)) = 1
  BY SpanOfOne
<1>2. r + 1 <= t
  BY <1>1
<1>3. Cardinality(Span(a, t)) = Cardinality(Span(a, r)) + Cardinality(Span(r, t))
  BY <1>1, SpanSplit
<1>4. Cardinality(Span(r, t)) = Cardinality(Span(r, r + 1)) + Cardinality(Span(r + 1, t))
  BY <1>1, <1>2, SpanSplit
<1>5. /\ Cardinality(Span(a, r)) \in Nat /\ Cardinality(Span(r + 1, t)) \in Nat
      /\ Cardinality(Span(a, t)) \in Nat
  BY SpanFinite
<1> QED BY <1>1, <1>3, <1>4, <1>5

\* Behind l comes a room with none between.
LEMMA NextListed ==
    ASSUME listed \subseteq Rooms, NEW l \in Nat, NEW r \in listed, l < r
    PROVE  \E f \in listed : l < f /\ Span(l + 1, f) = {}
<1> DEFINE behind == {s \in listed : l < s}
<1>1. \A s \in listed : s \in Nat
  BY RoomListAssumption DEF Rooms
<1>2. behind \in SUBSET Nat /\ behind # {}
  BY <1>1
<1>3. PICK f \in behind : \A s \in behind : f <= s
  BY <1>2, LeastOfNaturals
<1>4. Span(l + 1, f) = {}
  BY <1>1, <1>3 DEF Span
<1> QED BY <1>3, <1>4

\* A page read forwards and a page read backwards, by the rooms between.
LEMMA ForwardPage ==
    ASSUME listed \subseteq Rooms, NEW id \in Nat
    PROVE  \A r : r \in GetRoomList(id, 1) <=>
              /\ r \in listed /\ id <= r
              /\ Cardinality(Span(id, r)) \in Skip(id)..(Skip(id) + Limit - 1)
<1>1. \A s \in listed : s \in Nat
  BY RoomListAssumption DEF Rooms
<1>2. \A s \in Nat : 1 * s = s
  OBVIOUS
<1>3. FromCursor(id, 1) = {s \in listed : id <= s}
  BY <1>1, <1>2 DEF FromCursor, NoId
<1>4. ASSUME NEW r \in listed
      PROVE  {s \in FromCursor(id, 1) : 1 * s < 1 * r} = Span(id, r)
  BY <1>1, <1>2, <1>3 DEF Span
<1> QED BY <1>3, <1>4 DEF GetRoomList

LEMMA BackwardPage ==
    ASSUME listed \subseteq Rooms, NEW id \in Nat \ {NoId}
    PROVE  \A r : r \in GetRoomList(id, -1) <=>
              /\ r \in listed /\ r <= id
              /\ Cardinality(Span(r + 1, id + 1)) \in 1..Limit
<1>1. \A s \in listed : s \in Nat
  BY RoomListAssumption DEF Rooms
<1>2. \A s, t \in Nat : ((-1) * s < (-1) * t <=> t < s) /\ ((-1) * s >= (-1) * t <=> s <= t)
  OBVIOUS
<1>3. FromCursor(id, -1) = {s \in listed : s <= id}
  BY <1>1, <1>2 DEF FromCursor
<1>4. ASSUME NEW r \in listed
      PROVE  {s \in FromCursor(id, -1) : (-1) * s < (-1) * r} = Span(r + 1, id + 1)
  BY <1>1, <1>2, <1>3 DEF Span
<1>5. Skip(id) = 1 /\ Skip(id) + Limit - 1 = Limit
  BY RoomListAssumption DEF Skip
<1> QED BY <1>3, <1>4, <1>5 DEF GetRoomList

\* A page lies in the list; forwards it lies behind its cursor, which is not shown again.
LEMMA PageListed ==
    ASSUME listed \subseteq Rooms, NEW id, NEW direction
    PROVE  GetRoomList(id, direction) \in SUBSET Rooms
           /\ GetRoomList(id, direction) \subseteq listed
BY DEF GetRoomList, FromCursor

LEMMA PageBehind ==
    ASSUME listed \subseteq Rooms, NEW id \in Rooms, NEW r \in GetRoomList(id, 1)
    PROVE  id < r
<1>1. id \in Nat \ {NoId} /\ r \in listed /\ \A s \in listed : s \in Nat
  BY PageListed, RoomListAssumption DEF Rooms, NoId
<1>2. id <= r /\ Cardinality(Span(id, r)) >= 1
  <2>1. Skip(id) = 1
    BY <1>1 DEF Skip
  <2>2. id <= r /\ Cardinality(Span(id, r)) \in Skip(id)..(Skip(id) + Limit - 1)
    BY <1>1, ForwardPage
  <2> QED BY <2>1, <2>2, RoomListAssumption
<1>3. id # r
  <2>1. Cardinality(Span(id, id)) = 0
    BY <1>1, SpanOfNone
  <2> QED BY <1>2, <2>1
<1> QED BY <1>1, <1>2, <1>3

\* Behind the cursor l the first room is on the page, when one comes behind it.
LEMMA FirstBehind ==
    ASSUME listed \subseteq Rooms, NEW l \in listed, NEW r \in listed, l < r
    PROVE  /\ GetRoomList(l, 1) # {}
           /\ Span(l + 1, FirstOf(GetRoomList(l, 1))) = {}
<1>1. \A s \in listed : s \in Nat \ {NoId} /\ s \in Rooms
  BY RoomListAssumption DEF Rooms, NoId
<1>2. PICK f \in listed : l < f /\ Span(l + 1, f) = {}
  BY <1>1, NextListed
<1>3. Cardinality(Span(l, f)) = 1
  <2>1. l + 1 \in Nat /\ l + 1 <= f /\ Cardinality(Span(l + 1, f)) = 0
    BY <1>1, <1>2, FS_EmptySet
  <2>2. Cardinality(Span(l, f)) = Cardinality(Span(l, l + 1)) + Cardinality(Span(l + 1, f))
    BY <1>1, <2>1, SpanSplit
  <2> QED BY <2>1, <2>2, SpanOfOne
<1>4. f \in GetRoomList(l, 1)
  <2>1. 1 \in Skip(l)..(Skip(l) + Limit - 1)
    BY <1>1, RoomListAssumption DEF Skip
  <2> QED BY <1>1, <1>2, <1>3, <2>1, ForwardPage
<1>5. FirstOf(GetRoomList(l, 1)) \in GetRoomList(l, 1) /\ FirstOf(GetRoomList(l, 1)) <= f
  BY <1>4, PageListed, FirstIsLeast
<1>6. FirstOf(GetRoomList(l, 1)) \in Nat /\ Span(l + 1, FirstOf(GetRoomList(l, 1))) = {}
  <2> DEFINE g == FirstOf(GetRoomList(l, 1))
  <2>1. g \in Nat /\ g <= f
    BY <1>1, <1>5, PageListed
  <2> HIDE DEF g
  <2>2. Span(l + 1, g) \subseteq Span(l + 1, f)
    BY <1>1, <1>2, <2>1 DEF Span
  <2> QED BY <1>2, <2>1, <2>2 DEF g
<1> QED BY <1>4, <1>6

\* Going back from a page that is not empty leads to the page before it, while the rooms
\* stay the same (prevCursor and nextCursor of getRoomList).
LEMMA BackFromNext ==
    ASSUME listed \subseteq Rooms, NEW id \in listed \cup {NoId},
           NextPage(GetRoomList(id, 1)) # {}
    PROVE  PrevPage(NextPage(GetRoomList(id, 1))) = GetRoomList(id, 1)
<1> DEFINE page == GetRoomList(id, 1)
           next == NextPage(page)
           f == FirstOf(next)
           l == LastOf(page)
<1>1. /\ \A s \in listed : s \in Nat \ {NoId} /\ s \in Rooms
      /\ id \in Nat /\ Limit \in Nat /\ Limit >= 1
  BY RoomListAssumption DEF Rooms, NoId
<1>2. page \in SUBSET Rooms /\ next \in SUBSET Rooms /\ page \subseteq listed /\ next \subseteq listed
  BY PageListed DEF NextPage
<1>3. f \in next /\ \A s \in next : f <= s
  BY <1>2, FirstIsLeast
<1>4. f \in listed /\ f \in Nat \ {NoId}
  BY <1>1, <1>2, <1>3
<1>5. PrevPage(next) = GetRoomList(f, -1)
  BY DEF PrevPage
<1>6. CASE page = {}
  <2>1. next = GetRoomList(NoId, 1)
    BY <1>6 DEF NextPage, LastOf
  <2>2. Span(0, f) = {}
    <3>1. SUFFICES ASSUME NEW r \in Span(0, f) PROVE FALSE
      OBVIOUS
    <3>2. r \in listed /\ r \in Nat /\ r < f
      BY <1>1, <3>1 DEF Span
    <3>3. Cardinality(Span(0, f)) \in 0..(Limit - 1)
      <4>1. Skip(0) = 0 /\ 0 \in Nat
        BY DEF Skip, NoId
      <4>2. f \in GetRoomList(0, 1)
        BY <1>3, <2>1 DEF NoId
      <4>3. Cardinality(Span(0, f)) \in Skip(0)..(Skip(0) + Limit - 1)
        BY <4>1, <4>2, ForwardPage
      <4> QED BY <1>1, <4>1, <4>3
    <3>4. Cardinality(Span(0, f)) >= Cardinality(Span(0, r)) + 1
      BY <1>1, <1>4, <3>2, SpanGrows
    <3>5. Cardinality(Span(0, r)) \in 0..(Limit - 1)
      BY <1>1, <3>3, <3>4, SpanFinite
    <3>6. r \in next
      BY <1>1, <2>1, <3>2, <3>5, ForwardPage DEF Skip, NoId
    <3> QED BY <1>3, <1>4, <3>2, <3>6
  <2>3. ASSUME NEW r \in GetRoomList(f, -1) PROVE FALSE
    <3>1. r \in listed /\ r <= f /\ Cardinality(Span(r + 1, f + 1)) \in 1..Limit
      BY <1>4, <2>3, BackwardPage
    <3>2. r = f
      <4>1. r \in Nat /\ 0 <= r
        BY <1>1, <3>1
      <4>2. r < f => r \in Span(0, f)
        BY <3>1, <4>1 DEF Span
      <4>3. r \notin Span(0, f)
        BY <2>2
      <4> HIDE DEF f
      <4> QED BY <1>4, <3>1, <4>1, <4>2, <4>3
    <3>3. Cardinality(Span(f + 1, f + 1)) = 0
      BY <1>4, SpanOfNone
    <3> QED BY <3>1, <3>2, <3>3
  <2> QED BY <1>5, <1>6, <2>3
<1>7. CASE page # {}
  <2>1. l \in page /\ \A s \in page : s <= l
    BY <1>2, <1>7, LastIsGreatest
  <2>2. l \in listed /\ l \in Nat \ {NoId} /\ next = GetRoomList(l, 1)
    BY <1>1, <1>2, <2>1 DEF NextPage
  <2>3. l < f
    BY <1>1, <1>3, <2>2, PageBehind
  <2>4. Span(l + 1, f) = {}
    BY <1>4, <2>2, <2>3, FirstBehind
  <2>5. /\ id <= l
        /\ Cardinality(Span(id, l)) \in Skip(id)..(Skip(id) + Limit - 1)
    BY <1>1, <2>1, ForwardPage
  <2>6. Skip(id) \in {0, 1} /\ Skip(id) \in Nat
    BY DEF Skip
  <2> HIDE DEF page, next, f, l
  \* The first room of the next page comes next and was not on this page.
  <2>7. Cardinality(Span(id, l)) = Skip(id) + Limit - 1
    <3>1. Cardinality(Span(id, f)) = Cardinality(Span(id, l)) + 1
      <4>1. l + 1 \in Nat /\ l + 1 <= f /\ Cardinality(Span(l + 1, f)) = 0
        BY <1>4, <2>2, <2>3, <2>4, FS_EmptySet
      <4>2. /\ Cardinality(Span(id, f)) = Cardinality(Span(id, l)) + Cardinality(Span(l, f))
            /\ Cardinality(Span(l, f)) = Cardinality(Span(l, l + 1)) + Cardinality(Span(l + 1, f))
        BY <1>1, <1>4, <2>2, <2>3, <2>5, <4>1, SpanSplit
      <4>3. Cardinality(Span(id, l)) \in Nat
        BY SpanFinite
      <4> QED BY <2>2, <4>1, <4>2, <4>3, SpanOfOne
    <3>2. f \notin page
      BY <1>4, <2>1, <2>2, <2>3
    <3>3. id <= f
      BY <1>1, <1>4, <2>2, <2>3, <2>5
    <3>4. ~(Cardinality(Span(id, f)) \in Skip(id)..(Skip(id) + Limit - 1))
      BY <1>1, <1>4, <3>2, <3>3, ForwardPage DEF page
    <3>5. Cardinality(Span(id, l)) \in Nat
      BY SpanFinite
    <3> QED BY <1>1, <2>5, <2>6, <3>1, <3>4, <3>5
  \* Seen from f, a room of the list is as far back as it is from l, and one more.
  <2>8. ASSUME NEW r \in listed, r <= l
        PROVE  /\ Cardinality(Span(r + 1, f + 1)) = Cardinality(Span(r, l)) + 1
               /\ Cardinality(Span(r, l)) \in Nat
    <3>1. r \in Nat /\ r + 1 \in Nat /\ l + 1 \in Nat /\ f + 1 \in Nat /\ l + 1 <= f
      BY <1>1, <1>4, <2>2, <2>3
    <3>2. /\ Cardinality(Span(r, r + 1)) = 1 /\ Cardinality(Span(l, l + 1)) = 1
          /\ Cardinality(Span(f, f + 1)) = 1
      BY <1>4, <2>2, SpanOfOne
    <3>3. Cardinality(Span(l + 1, f)) = 0
      BY <2>4, FS_EmptySet
    <3>4. Cardinality(Span(r, l + 1)) = Cardinality(Span(r, l)) + Cardinality(Span(l, l + 1))
      BY <2>2, <2>8, <3>1, SpanSplit
    <3>5. Cardinality(Span(r, l + 1)) = Cardinality(Span(r, r + 1)) + Cardinality(Span(r + 1, l + 1))
      BY <2>2, <2>8, <3>1, SpanSplit
    <3>6. Cardinality(Span(r + 1, f)) = Cardinality(Span(r + 1, l + 1)) + Cardinality(Span(l + 1, f))
      <4>1. r + 1 <= l + 1 /\ f \in Nat
        BY <1>4, <2>2, <2>8, <3>1
      <4> QED BY <3>1, <4>1, SpanSplit
    <3>7. Cardinality(Span(r + 1, f + 1)) = Cardinality(Span(r + 1, f)) + Cardinality(Span(f, f + 1))
      <4>1. r + 1 <= f /\ f <= f + 1 /\ f \in Nat
        BY <1>4, <2>2, <2>8, <3>1
      <4> QED BY <3>1, <4>1, SpanSplit
    <3>8. /\ Cardinality(Span(r, l)) \in Nat /\ Cardinality(Span(r + 1, l + 1)) \in Nat
          /\ Cardinality(Span(r + 1, f)) \in Nat
      BY SpanFinite
    <3> QED BY <3>2, <3>3, <3>4, <3>5, <3>6, <3>7, <3>8
  <2>9. ASSUME NEW r \in listed PROVE r \in GetRoomList(f, -1) <=> r \in page
    <3>1. r \in Nat
      BY <1>1
    <3>2. CASE l < r
      <4>1. r \notin page
        BY <2>1, <2>2, <3>1, <3>2
      <4>2. r <= f => r = f
        <5>1. l + 1 <= r
          BY <2>2, <3>1, <3>2
        <5>2. r < f => r \in Span(l + 1, f)
          BY <5>1 DEF Span
        <5>3. r \notin Span(l + 1, f)
          BY <2>4
        <5> QED BY <1>4, <3>1, <5>2, <5>3
      <4>3. Cardinality(Span(f + 1, f + 1)) = 0
        BY <1>4, SpanOfNone
      <4>4. ~(Cardinality(Span(f + 1, f + 1)) \in 1..Limit)
        BY <4>3
      <4> QED BY <1>4, <4>1, <4>2, <4>4, BackwardPage
    <3>3. CASE r <= l /\ r < id
      <4>1. id \in listed /\ Skip(id) = 1
        BY <1>1, <3>1, <3>3 DEF Skip, NoId
      <4>2. Cardinality(Span(r, l)) = Cardinality(Span(r, id)) + Cardinality(Span(id, l))
        BY <1>1, <2>2, <2>5, <3>1, <3>3, SpanSplit
      <4>3. Cardinality(Span(r, id)) \in Nat
        BY SpanFinite
      <4>4. ~(Cardinality(Span(r + 1, f + 1)) \in 1..Limit)
        BY <1>1, <2>7, <2>8, <3>3, <4>1, <4>2, <4>3
      <4>5. ~(id <= r)
        BY <1>1, <3>1, <3>3
      <4> QED BY <1>1, <1>4, <4>4, <4>5, BackwardPage, ForwardPage DEF page
    <3>4. CASE r <= l /\ id <= r
      <4>1. Cardinality(Span(id, l)) = Cardinality(Span(id, r)) + Cardinality(Span(r, l))
        BY <1>1, <2>2, <3>1, <3>4, SpanSplit
      <4>2. Cardinality(Span(id, r)) \in Nat
        BY SpanFinite
      <4>3. Cardinality(Span(r + 1, f + 1)) \in 1..Limit
              <=> Cardinality(Span(id, r)) \in Skip(id)..(Skip(id) + Limit - 1)
        BY <1>1, <2>6, <2>7, <2>8, <3>4, <4>1, <4>2
      <4>4. r <= f
        BY <1>4, <2>2, <2>3, <3>1, <3>4
      <4> QED BY <1>1, <1>4, <3>4, <4>3, <4>4, BackwardPage, ForwardPage DEF page
    <3> QED BY <1>1, <2>2, <3>1, <3>2, <3>3, <3>4
  <2>10. GetRoomList(f, -1) \subseteq listed
    BY PageListed
  <2> QED BY <1>2, <1>5, <2>9, <2>10 DEF page, next
<1> QED BY <1>6, <1>7

\* In whatever direction, a page holds every room between two of its own.
LEMMA PageUnbroken ==
    ASSUME listed \subseteq Rooms, NEW id \in Nat, NEW direction \in {1, -1},
           NEW s \in GetRoomList(id, direction), NEW t \in GetRoomList(id, direction),
           NEW r \in listed, s <= r, r <= t
    PROVE  r \in GetRoomList(id, direction)
<1> DEFINE rows == FromCursor(id, direction)
           Before(x) == {y \in rows : direction * y < direction * x}
<1>1. /\ \A x \in listed : x \in Nat
      /\ s \in listed /\ t \in listed
      /\ Limit \in Nat
  BY PageListed, RoomListAssumption DEF Rooms
<1>2. IsFiniteSet(listed) /\ rows \in SUBSET listed
  <2>1. IsFiniteSet(Rooms)
    BY RoomListAssumption, FS_Interval DEF Rooms
  <2> QED BY <2>1, FS_Subset DEF FromCursor
<1>3. r \in rows
  <2>1. s \in rows /\ t \in rows
    BY DEF GetRoomList
  <2>2. CASE id = NoId
    BY <2>2 DEF FromCursor
  <2>3. CASE id # NoId
    <3>1. direction * s >= direction * id /\ direction * t >= direction * id
      BY <2>1, <2>3 DEF FromCursor
    <3>2. CASE direction = 1
      BY <1>1, <3>1, <3>2 DEF FromCursor
    <3>3. CASE direction = -1
      BY <1>1, <3>1, <3>3 DEF FromCursor
    <3> QED BY <3>2, <3>3
  <2> QED BY <2>2, <2>3
<1>4. \A x \in rows : x \in GetRoomList(id, direction) <=>
          Cardinality(Before(x)) \in Skip(id)..(Skip(id) + Limit - 1)
  BY DEF GetRoomList
<1>5. \A x : IsFiniteSet(Before(x)) /\ Cardinality(Before(x)) \in Nat
  <2>1. SUFFICES ASSUME NEW x PROVE IsFiniteSet(Before(x)) /\ Cardinality(Before(x)) \in Nat
    OBVIOUS
  <2>2. Before(x) \in SUBSET listed
    BY <1>2
  <2>3. IsFiniteSet(Before(x))
    BY <1>2, <2>2, FS_Subset
  <2> QED BY <2>3, FS_CardinalityType
<1>6. \E a \in {s, t}, z \in {s, t} : Before(a) \subseteq Before(r) /\ Before(r) \subseteq Before(z)
  <2>1. \A y \in rows : y \in Nat
    BY <1>1, <1>2
  <2>2. CASE direction = 1
    <3>1. Before(s) \subseteq Before(r) /\ Before(r) \subseteq Before(t)
      BY <1>1, <2>1, <2>2
    <3> QED BY <3>1
  <2>3. CASE direction = -1
    <3>1. Before(t) \subseteq Before(r) /\ Before(r) \subseteq Before(s)
      BY <1>1, <2>1, <2>3
    <3> QED BY <3>1
  <2> QED BY <2>2, <2>3
<1>7. PICK a \in {s, t}, z \in {s, t} : Before(a) \subseteq Before(r) /\ Before(r) \subseteq Before(z)
  BY <1>6
<1>8. /\ Cardinality(Before(a)) \in Skip(id)..(Skip(id) + Limit - 1)
      /\ Cardinality(Before(z)) \in Skip(id)..(Skip(id) + Limit - 1)
  BY <1>4 DEF GetRoomList
<1> HIDE DEF Before, rows
<1>9. Cardinality(Before(a)) <= Cardinality(Before(r)) /\ Cardinality(Before(r)) <= Cardinality(Before(z))
  BY <1>5, <1>7, FS_Subset
<1>10. Cardinality(Before(r)) \in Skip(id)..(Skip(id) + Limit - 1)
  <2>1. Skip(id) \in Nat
    BY DEF Skip
  <2> QED BY <1>1, <1>5, <1>8, <1>9, <2>1
<1> QED BY <1>3, <1>4, <1>10

(***************************************************************************)
(* A walk.                                                                 *)
(***************************************************************************)
\* What a walk has missed when it begins: nothing.
LEMMA BeginOK ==
    ASSUME WalkInv, NEW id \in Nat, NEW direction \in {1, -1}, UNCHANGED listed,
           Begin(GetRoomList(id, direction))
    PROVE  WalkInv'
<1> DEFINE page == GetRoomList(id, direction)
<1>1. /\ listed \subseteq Rooms /\ page \in SUBSET Rooms
      /\ listed' = listed
      /\ reader' = [page |-> page, shown |-> page, steady |-> listed, reads |-> 1, blind |-> 0]
  BY PageListed DEF WalkInv, ListTypeOK, Begin
<1>2. /\ reader'.page = page /\ reader'.shown = page /\ reader'.steady = listed
      /\ reader'.blind = 0
  BY <1>1
<1>3. \A s, t \in page, r \in listed : s <= r /\ r <= t => r \in page
  BY <1>1, PageUnbroken
<1> HIDE DEF page
<1>4. ListTypeOK'
  BY <1>1 DEF ListTypeOK
<1>5. WalkIsAhead'
  BY <1>1, <1>2, LastIsGreatest DEF WalkIsAhead
<1>6. (PassedBy \ reader.shown)' = {}
  BY <1>2, <1>3 DEF PassedBy
<1>7. MissesAreBlind'
  <2>1. Cardinality((PassedBy \ reader.shown)') = 0
    BY <1>6, FS_EmptySet
  <2> QED BY <1>2, <2>1 DEF MissesAreBlind
<1> QED BY <1>1, <1>2, <1>4, <1>5, <1>7 DEF WalkInv

\* The rooms that a walk misses as it moves on from l.
MissedFrom(l) ==
    {r \in listed : /\ l < r
                    /\ r \notin GetRoomList(l, 1)
                    /\ GetRoomList(l, 1) = {} \/ \E t \in GetRoomList(l, 1) : r <= t}

\* It misses none, or the one that took the place of a room removed.
LEMMA MissedAhead ==
    ASSUME listed \subseteq Rooms, NEW l \in Rooms
    PROVE  /\ l \in listed => MissedFrom(l) = {}
           /\ \A r, s \in MissedFrom(l) : r = s
<1> DEFINE page == GetRoomList(l, 1)
           missed == MissedFrom(l)
<1>1. /\ \A s \in listed : s \in Nat
      /\ l \in Nat \ {NoId} /\ Limit \in Nat /\ Limit >= 1
      /\ Skip(l) = 1
  BY RoomListAssumption DEF Rooms, NoId, Skip
<1>2. page \subseteq listed
  BY PageListed
<1> HIDE DEF page
<1>3. ASSUME NEW r \in listed, l < r, r \notin page, NEW t \in page, r <= t
      PROVE  Cardinality(Span(l, r)) = 0
  <2>1. t \in listed /\ Cardinality(Span(l, t)) \in 1..Limit
    <3>1. Cardinality(Span(l, t)) \in Skip(l)..(Skip(l) + Limit - 1)
      BY <1>1, <1>3, ForwardPage DEF page
    <3> QED BY <1>1, <1>2, <1>3, <3>1
  <2>2. r < t
    BY <1>1, <1>3, <2>1
  <2>3. Cardinality(Span(l, r)) + 1 <= Cardinality(Span(l, t))
    BY <1>1, <1>3, <2>1, <2>2, SpanGrows
  <2>4. Cardinality(Span(l, r)) \in Nat
    BY SpanFinite
  <2>5. ~(Cardinality(Span(l, r)) \in Skip(l)..(Skip(l) + Limit - 1))
    BY <1>1, <1>3, ForwardPage DEF page
  <2> QED BY <1>1, <2>1, <2>3, <2>4, <2>5
<1>4. ASSUME NEW r \in listed, l < r, page = {}
      PROVE  Cardinality(Span(l, r)) = 0
  <2>1. SUFFICES ASSUME Cardinality(Span(l, r)) # 0 PROVE FALSE
    OBVIOUS
  <2>2. PICK m \in listed : m = l \/ (l < m /\ Span(l + 1, m) = {})
    BY <1>1, <1>4, NextListed
  <2>3. QED
    <3>1. CASE l \in listed
      BY <1>1, <1>4, <3>1, FirstBehind DEF page
    <3>2. CASE l \notin listed
      \* The first room m behind l, and the first behind m: it comes second, on the page.
      <4>1. l < m /\ Span(l + 1, m) = {} /\ m \in Nat
        BY <1>1, <2>2, <3>2
      <4>2. Span(l, m) = {}
        <5>1. ASSUME NEW y \in Span(l, m) PROVE y \in Span(l + 1, m)
          <6>1. y \in listed /\ y # l /\ y \in Nat /\ l <= y /\ y < m
            BY <1>1, <3>2, <5>1 DEF Span
          <6>2. l + 1 <= y
            BY <1>1, <6>1
          <6> QED BY <6>1, <6>2 DEF Span
        <5> QED BY <4>1, <5>1
      <4>3. Cardinality(Span(l, m)) = 0
        BY <4>2, FS_EmptySet
      <4>4. m < r
        <5>1. m # r
          BY <2>1, <4>3
        <5>2. r < m => r \in Span(l, m)
          BY <1>1, <1>4 DEF Span
        <5> QED BY <1>1, <4>1, <4>2, <5>1, <5>2
      <4>5. PICK n \in listed : m < n /\ Span(m + 1, n) = {}
        BY <4>1, <4>4, NextListed
      <4>6. n \in Nat /\ m + 1 <= n /\ Cardinality(Span(m + 1, n)) = 0
        BY <1>1, <4>1, <4>5, FS_EmptySet
      <4>7. /\ Cardinality(Span(l, n)) = Cardinality(Span(l, m)) + Cardinality(Span(m, n))
            /\ Cardinality(Span(m, n)) = Cardinality(Span(m, m + 1)) + Cardinality(Span(m + 1, n))
        BY <1>1, <4>1, <4>5, <4>6, SpanSplit
      <4>8. Cardinality(Span(l, n)) = 1
        BY <4>3, <4>6, <4>7, SpanOfOne
      <4>9. n \in page
        <5>1. l <= n /\ Cardinality(Span(l, n)) \in Skip(l)..(Skip(l) + Limit - 1)
          BY <1>1, <4>1, <4>5, <4>6, <4>8
        <5> QED BY <1>1, <5>1, ForwardPage DEF page
      <4> QED BY <1>4, <4>9
    <3> QED BY <3>1, <3>2
<1>5. ASSUME NEW r \in missed
      PROVE  r \in listed /\ l < r /\ Cardinality(Span(l, r)) = 0
  BY <1>3, <1>4 DEF page, MissedFrom
<1>6. \A r, y \in listed : l <= y /\ y < r => Cardinality(Span(l, r)) # 0
  <2>1. SUFFICES ASSUME NEW r \in listed, NEW y \in listed, l <= y, y < r
                 PROVE  Cardinality(Span(l, r)) # 0
    OBVIOUS
  <2>2. Cardinality(Span(l, r)) >= Cardinality(Span(l, y)) + 1
    BY <1>1, <2>1, SpanGrows
  <2>3. Cardinality(Span(l, r)) \in Nat /\ Cardinality(Span(l, y)) \in Nat
    BY SpanFinite
  <2> QED BY <2>2, <2>3
<1>7. \A r, s \in missed : r = s
  <2>1. SUFFICES ASSUME NEW r \in missed, NEW s \in missed PROVE r = s
    OBVIOUS
  <2>2. /\ r \in listed /\ l < r /\ Cardinality(Span(l, r)) = 0
        /\ s \in listed /\ l < s /\ Cardinality(Span(l, s)) = 0
    BY <1>5, <2>1
  <2>3. r \in Nat /\ s \in Nat /\ l <= r /\ l <= s
    BY <1>1, <2>2
  <2>4. ~(r < s) /\ ~(s < r)
    BY <1>6, <2>2, <2>3
  <2> QED BY <2>3, <2>4
<1>8. l \in listed => missed = {}
  <2>1. SUFFICES ASSUME l \in listed, NEW r \in missed PROVE FALSE
    OBVIOUS
  <2>2. r \in listed /\ l < r /\ Cardinality(Span(l, r)) = 0
    BY <1>5, <2>1
  <2>3. l <= l
    BY <1>1
  <2> QED BY <1>6, <2>1, <2>2, <2>3
<1> QED BY <1>7, <1>8

\* The next page of a walk: it lies behind what was shown, and only a blind read misses.
LEMMA MovesOn ==
    ASSUME WalkInv, ReadNext, reader.page # {}
    PROVE  /\ WalkInv'
           /\ \A r \in reader'.page, s \in reader.shown : s < r
<1> DEFINE l == LastOf(reader.page)
           page == NextPage(reader.page)
           step == IF l \in listed THEN 0 ELSE 1
<1>1. /\ listed \subseteq Rooms /\ listed' = listed
      /\ reader.page \in SUBSET Rooms /\ reader.shown \in SUBSET Rooms
      /\ reader.steady \in SUBSET Rooms /\ reader.steady \subseteq listed
      /\ reader.blind \in Nat /\ reader.reads \in Nat
  BY DEF WalkInv, ListTypeOK, ReadNext
<1>2. /\ reader'.page = page /\ reader'.shown = reader.shown \cup page
      /\ reader'.steady = reader.steady
      /\ reader'.reads = reader.reads + 1 /\ reader'.blind = reader.blind + step
      /\ reader' \in [page : SUBSET Rooms, shown : SUBSET Rooms, steady : SUBSET Rooms,
                      reads : Nat, blind : Nat]
  <2>1. reader \in [page : SUBSET Rooms, shown : SUBSET Rooms, steady : SUBSET Rooms,
                    reads : Nat, blind : Nat]
    BY DEF WalkInv, ListTypeOK
  <2>2. reader' = [reader EXCEPT !.page = page, !.shown = @ \cup page, !.reads = @ + 1,
                                 !.blind = @ + step]
    BY DEF ReadNext
  <2>3. page \in SUBSET Rooms
    BY <1>1, PageListed DEF NextPage
  <2>4. step \in Nat
    OBVIOUS
  <2> HIDE DEF page, step
  <2>5. /\ reader'.page = page /\ reader'.shown = reader.shown \cup page
        /\ reader'.steady = reader.steady
        /\ reader'.reads = reader.reads + 1 /\ reader'.blind = reader.blind + step
        /\ reader' = [page |-> reader'.page, shown |-> reader'.shown,
                      steady |-> reader'.steady, reads |-> reader'.reads,
                      blind |-> reader'.blind]
    BY <2>1, <2>2
  <2>6. /\ reader'.page \in SUBSET Rooms /\ reader'.shown \in SUBSET Rooms
        /\ reader'.steady \in SUBSET Rooms
        /\ reader'.reads \in Nat /\ reader'.blind \in Nat
    BY <1>1, <2>3, <2>4, <2>5
  <2> QED BY <2>5, <2>6
<1>3. l \in reader.page /\ l \in reader.shown /\ \A s \in reader.shown : s <= l
  BY <1>1, LastIsGreatest DEF WalkInv, WalkIsAhead
<1>4. l \in Rooms /\ page = GetRoomList(l, 1) /\ page \in SUBSET Rooms /\ page \subseteq listed
  BY <1>1, <1>3, PageListed DEF NextPage
<1>5. \A r \in Rooms : r \in Nat
  BY RoomListAssumption DEF Rooms
<1>6. \A r \in page : l < r
  BY <1>1, <1>4, PageBehind
<1> HIDE DEF l, page
<1>7. \A r \in page, s \in reader.shown : s < r
  BY <1>1, <1>3, <1>4, <1>5, <1>6
<1>8. ListTypeOK' /\ (reader.steady \subseteq listed)'
  BY <1>1, <1>2 DEF ListTypeOK
<1>9. WalkIsAhead'
  <2>1. SUFFICES ASSUME page # {}
                 PROVE  /\ page \subseteq reader.shown \cup page
                        /\ \A s \in reader.shown \cup page : s <= LastOf(page)
    BY <1>2 DEF WalkIsAhead
  <2>2. LastOf(page) \in page /\ \A s \in page : s <= LastOf(page)
    BY <1>4, <2>1, LastIsGreatest
  <2> QED BY <1>1, <1>4, <1>5, <1>7, <2>2
<1>10. MissesAreBlind'
  <2> DEFINE missed == MissedFrom(l)
             before == PassedBy \ reader.shown
             after  == (PassedBy \ reader.shown)'
  <2>1. after \in SUBSET (before \cup missed)
    <3>1. SUFFICES ASSUME NEW r \in after PROVE r \in before \cup missed
      OBVIOUS
    <3>2. /\ r \in reader.steady /\ r \notin reader.shown /\ r \notin page
          /\ \E s \in reader.shown \cup page :
                s <= r /\ (page = {} \/ \E t \in reader.shown \cup page : r <= t)
      BY <1>2, <3>1 DEF PassedBy
    <3>3. r \in listed /\ r \in Nat /\ l \in Nat
      BY <1>1, <1>4, <1>5, <3>2
    <3>4. CASE r <= l
      <4>1. \E s \in reader.shown : s <= r
        <5>1. PICK s \in reader.shown \cup page : s <= r
          BY <3>2
        <5>2. s \in Nat /\ (s \in page => l < s)
          BY <1>1, <1>4, <1>5, <1>6
        <5>3. s \notin page
          BY <3>3, <3>4, <5>1, <5>2
        <5> QED BY <5>1, <5>3
      <4>2. r \in PassedBy
        BY <1>3, <3>2, <3>4, <4>1 DEF PassedBy
      <4> QED BY <3>2, <4>2
    <3>5. CASE l < r
      <4>1. page = {} \/ \E t \in page : r <= t
        <5>1. SUFFICES ASSUME page # {} PROVE \E t \in page : r <= t
          OBVIOUS
        <5>2. PICK t \in reader.shown \cup page : r <= t
          BY <3>2, <5>1
        <5>3. t \in Nat /\ (t \in reader.shown => t <= l)
          BY <1>1, <1>3, <1>4, <1>5
        <5>4. t \notin reader.shown
          BY <3>3, <3>5, <5>2, <5>3
        <5> QED BY <5>2, <5>4
      <4> QED BY <1>4, <3>2, <3>3, <3>5, <4>1 DEF MissedFrom
    <3> QED BY <3>3, <3>4, <3>5
  <2>2. /\ l \in listed => missed = {}
        /\ \A r, s \in missed : r = s
    BY <1>1, <1>4, MissedAhead
  <2>3. before \in SUBSET Rooms /\ missed \in SUBSET Rooms
    BY <1>1 DEF PassedBy, MissedFrom
  <2>4. Cardinality(before) <= reader.blind
    BY DEF WalkInv, MissesAreBlind
  <2> HIDE DEF before, after, missed
  <2>5. IsFiniteSet(before) /\ IsFiniteSet(missed)
    <3>1. IsFiniteSet(Rooms)
      BY RoomListAssumption, FS_Interval DEF Rooms
    <3> QED BY <2>3, <3>1, FS_Subset
  <2>6. Cardinality(missed) <= step
    <3>1. CASE missed = {}
      BY <3>1, FS_EmptySet
    <3>2. CASE missed # {}
      <4>1. PICK r \in missed : TRUE
        BY <3>2
      <4>2. missed = {r}
        BY <2>2, <4>1
      <4>3. Cardinality(missed) = 1
        BY <4>2, FS_Singleton
      <4>4. l \notin listed
        BY <2>2, <3>2
      <4> QED BY <4>3, <4>4
    <3> QED BY <3>1, <3>2
  <2>7. IsFiniteSet(before \cup missed) /\ IsFiniteSet(before \cap missed)
    BY <2>5, FS_Union, FS_Intersection
  <2>8. Cardinality(before \cup missed) =
          Cardinality(before) + Cardinality(missed) - Cardinality(before \cap missed)
    BY <2>5, FS_Union
  <2>9. IsFiniteSet(after) /\ Cardinality(after) <= Cardinality(before \cup missed)
    BY <2>1, <2>7, FS_Subset
  <2>10. /\ Cardinality(before) \in Nat /\ Cardinality(missed) \in Nat
         /\ Cardinality(before \cap missed) \in Nat /\ Cardinality(before \cup missed) \in Nat
         /\ Cardinality(after) \in Nat /\ step \in Nat
    BY <2>5, <2>7, <2>9, FS_CardinalityType
  <2> HIDE DEF step
  <2>11. Cardinality(after) <= reader.blind + step
    BY <1>1, <2>4, <2>6, <2>8, <2>9, <2>10
  <2> QED BY <1>2, <2>11 DEF MissesAreBlind, after
<1> QED BY <1>1, <1>2, <1>7, <1>8, <1>9, <1>10 DEF WalkInv

\* Rooms come and go beside the walk; one that goes was not missed.
LEMMA RoomChange ==
    ASSUME WalkInv, NEW r \in Rooms, ListRoom(r) \/ RemoveRoom(r)
    PROVE  WalkInv'
<1> DEFINE before == PassedBy \ reader.shown
           after  == (PassedBy \ reader.shown)'
<1>1. /\ listed' \subseteq Rooms
      /\ reader'.page = reader.page /\ reader'.shown = reader.shown
      /\ reader'.blind = reader.blind
      /\ reader'.steady \subseteq reader.steady /\ reader'.steady \subseteq listed'
      /\ ListTypeOK'
  <2>1. CASE ListRoom(r)
    BY <2>1 DEF ListRoom, WalkInv, ListTypeOK
  <2>2. CASE RemoveRoom(r)
    BY <2>2 DEF RemoveRoom, WalkInv, ListTypeOK
  <2> QED BY <2>1, <2>2
<1>2. after \in SUBSET before /\ before \in SUBSET Rooms
  BY <1>1 DEF PassedBy, WalkInv, ListTypeOK
<1>3. Cardinality(before) <= reader.blind /\ reader.blind \in Nat
  BY DEF WalkInv, MissesAreBlind, ListTypeOK
<1> HIDE DEF before, after
<1>4. IsFiniteSet(before)
  <2>1. IsFiniteSet(Rooms)
    BY RoomListAssumption, FS_Interval DEF Rooms
  <2> QED BY <1>2, <2>1, FS_Subset
<1>5. IsFiniteSet(after) /\ Cardinality(after) <= Cardinality(before)
  BY <1>2, <1>4, FS_Subset
<1>6. Cardinality(after) \in Nat /\ Cardinality(before) \in Nat
  BY <1>4, <1>5, FS_CardinalityType
<1>7. MissesAreBlind'
  BY <1>1, <1>3, <1>5, <1>6 DEF MissesAreBlind, after
<1>8. WalkIsAhead'
  BY <1>1 DEF WalkIsAhead, WalkInv
<1> QED BY <1>1, <1>7, <1>8 DEF WalkInv

LEMMA WalkInitOK == ListInit => WalkInv
<1> SUFFICES ASSUME ListInit PROVE WalkInv
  OBVIOUS
<1>1. ListTypeOK /\ reader.steady \subseteq listed /\ WalkIsAhead
  BY DEF ListInit, NoWalk, ListTypeOK, WalkIsAhead
<1>2. PassedBy \ reader.shown = {} /\ reader.blind = 0
  BY DEF ListInit, NoWalk, PassedBy
<1> QED BY <1>1, <1>2, FS_EmptySet DEF WalkInv, MissesAreBlind

LEMMA WalkStepOK == WalkInv /\ [ListNext]_listVars => WalkInv'
<1> SUFFICES ASSUME WalkInv, [ListNext]_listVars PROVE WalkInv'
  OBVIOUS
<1>1. /\ reader.page \in SUBSET Rooms
      /\ NoId \in Nat /\ \A r \in Rooms : r \in Nat
      /\ reader.page # {} => FirstOf(reader.page) \in Rooms
      /\ FirstOf({}) = NoId /\ LastOf({}) = NoId
  BY RoomListAssumption, FirstIsLeast DEF WalkInv, ListTypeOK, NoId, Rooms, FirstOf, LastOf
<1>2. CASE ReadFirst
  BY <1>1, <1>2, BeginOK DEF ReadFirst
<1>3. CASE ReadNext
  <2>1. CASE reader.page = {}
    BY <1>1, <1>3, <2>1, BeginOK DEF ReadNext, NextPage
  <2> QED BY <1>3, <2>1, MovesOn
<1>4. CASE ReadPrev
  <2>1. FirstOf(reader.page) \in Nat
    BY <1>1
  <2> QED BY <1>4, <2>1, BeginOK DEF ReadPrev, PrevPage
<1>5. ASSUME NEW r \in Rooms, ListRoom(r) \/ RemoveRoom(r) PROVE WalkInv'
  BY <1>5, RoomChange
<1>6. CASE UNCHANGED listVars
  BY <1>6 DEF listVars, WalkInv, ListTypeOK, WalkIsAhead, MissesAreBlind, PassedBy
<1> QED BY <1>2, <1>3, <1>4, <1>5, <1>6 DEF ListNext

\* Every walk is ahead of what it has shown, and misses no more rooms than it was blind.
THEOREM WalkInvariant == ListSpec => []WalkInv
BY WalkInitOK, WalkStepOK, PTL DEF ListSpec

\* A walk that passes a room that was there throughout has shown it, but for one room at
\* most for every cursor whose room was removed before it was used.
THEOREM MissesAreCursors == ListSpec => []MissesAreBlind
<1>1. WalkInv => MissesAreBlind
  BY DEF WalkInv
<1> QED BY <1>1, WalkInvariant, PTL

\* The pages of a walk do not overlap and come in the order of the list.
THEOREM WalksMoveOn == ListSpec => WalkMovesOn
<1>1. WalkInv /\ [ListNext]_listVars =>
        [reader'.reads > reader.reads /\ reader.reads > 0 =>
            \A r \in reader'.page, s \in reader.shown : s < r]_listVars
  <2> SUFFICES ASSUME WalkInv, ListNext, reader'.reads > reader.reads, reader.reads > 0
               PROVE  \A r \in reader'.page, s \in reader.shown : s < r
    OBVIOUS
  <2>1. reader.reads \in Nat
    BY DEF WalkInv, ListTypeOK
  <2>2. ASSUME NEW page, Begin(page) PROVE FALSE
    BY <2>1, <2>2 DEF Begin
  <2>3. CASE ReadNext
    BY <2>2, <2>3, MovesOn DEF ReadNext
  <2>4. ASSUME NEW r \in Rooms, ListRoom(r) \/ RemoveRoom(r) PROVE FALSE
    <3>1. reader'.reads = reader.reads
      BY <2>4 DEF ListRoom, RemoveRoom, WalkInv, ListTypeOK
    <3> QED BY <2>1, <3>1
  <2> QED BY <2>2, <2>3, <2>4 DEF ListNext, ReadFirst, ReadPrev
<1> QED BY <1>1, WalkInvariant, PTL DEF ListSpec, WalkMovesOn

\* The cursor back undoes the cursor forward.
THEOREM BackUndoesNext == ListSpec => []BackIsInverse
<1>1. WalkInv => BackIsInverse
  BY BackFromNext DEF WalkInv, ListTypeOK, BackIsInverse
<1> QED BY <1>1, WalkInvariant, PTL
=============================================================================
