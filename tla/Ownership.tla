------------------------------ MODULE Ownership ------------------------------
(***************************************************************************)
(* Who owns a resource.  Blogs and flash cards (resource service), rooms   *)
(* (live service) and exams (exam service) are created and deleted by      *)
(* their services, which announce both by messages; the authorization      *)
(* service keeps a table of owners from them, and the gateway asks that    *)
(* table before it passes a change of a resource on.                       *)
(*                                                                         *)
(* Creations and deletions travel through queues of their own, and a queue *)
(* has several consumers: messages are handled in any order.  A message is *)
(* on its way from the commit of its row on; one that is not published, or *)
(* whose handler fails (it is not requeued), is lost.                      *)
(***************************************************************************)
EXTENDS Integers

CONSTANTS Resources,
          Creators,       \* users
          NoOwner,
          Guarded,        \* requests that the gateway guards
          MaxCreations,   \* bound: creations, and deletions, of one resource
          MaxLosses       \* bound: lost and repeated messages

ASSUME OwnershipAssumption ==
    /\ NoOwner \notin Creators
    /\ MaxCreations \in Nat /\ MaxLosses \in Nat

\* Blogs and exams are told of in the same way.
ResourceTypes == {"blog", "flashcard", "room"}

VARIABLES resource,   \* the rows of the three services
          owner,      \* resource_ownership
          news,       \* the messages on their way, and what has become of them
          passed,     \* what the guard has let each request do
          losses

ownVars == <<resource, owner, news, passed, losses>>

NoResource == [type |-> "none", live |-> FALSE, by |-> {}, creations |-> 0, deletions |-> 0]

\* late: the last removal was handled although the resource had been created again, or
\* before a registration that was on its way, and no registration has put that right since.
\* faulty: a message was lost or handled twice.
NoNews == [created |-> [u \in Creators |-> 0], deleted |-> 0, late |-> FALSE, faulty |-> FALSE]

NotPassed == [by |-> NoOwner, to |-> {}]

OwnInit ==
    /\ resource = [r \in Resources |-> NoResource]
    /\ owner = [r \in Resources |-> NoOwner]
    /\ news = [r \in Resources |-> NoNews]
    /\ passed = [q \in Guarded |-> NotPassed]
    /\ losses = 0

OnItsWay(r) == {u \in Creators : news[r].created[u] > 0}

(***************************************************************************)
(* The services.  createRoom upserts by name: an old room, or a live one,  *)
(* is created again with its id.  Every other creation has a new id.       *)
(***************************************************************************)
Creates(r, u) ==
    /\ resource[r].creations < MaxCreations
    /\ \E type \in ResourceTypes :
          /\ resource[r].creations = 0 \/ (type = "room" /\ resource[r].type = "room")
          /\ resource' = [resource EXCEPT ![r].type = type, ![r].live = TRUE,
                                          ![r].by = @ \cup {u}, ![r].creations = @ + 1]

\* Variant: an upsert that has found a row announces nothing.
CreateQuietly(r, u) ==
    /\ Creates(r, u)
    /\ news' = [news EXCEPT ![r].created[u] = @ + (IF resource[r].creations = 0 THEN 1 ELSE 0)]
    /\ UNCHANGED <<owner, passed, losses>>

CreateResource(r, u) ==
    /\ Creates(r, u)
    /\ news' = [news EXCEPT ![r].created[u] = @ + 1]
    /\ UNCHANGED <<owner, passed, losses>>

\* removeRoom does not ask whether the room is deleted already; the others do.  The deletion
\* of a flash card is not published.
Delete(r) ==
    /\ resource[r].live \/ resource[r].type = "room"
    /\ resource[r].deletions < MaxCreations
    /\ resource' = [resource EXCEPT ![r].live = FALSE, ![r].deletions = @ + 1]
    /\ news' = [news EXCEPT ![r].deleted = IF resource[r].type = "flashcard" THEN @ ELSE @ + 1]
    /\ UNCHANGED <<owner, losses>>

\* Admins need no ownership, and the cards of a list are deleted with it.
DeleteUnguarded(r) == Delete(r) /\ UNCHANGED passed

(***************************************************************************)
(* The gateway.  The guard asks; the request is passed on afterwards.      *)
(***************************************************************************)
Pass(q, r, u) ==
    /\ passed[q] = NotPassed
    /\ passed' = [passed EXCEPT ![q] = [by |-> u, to |-> {r}]]
    /\ UNCHANGED <<resource, owner, news, losses>>

\* Variant: any owner will do.
CheckAnyOwner(q, r, u) == owner[r] # NoOwner /\ Pass(q, r, u)

CheckOwnership(q, r, u) == owner[r] = u /\ Pass(q, r, u)

DeleteGuarded(q) ==
    /\ \E r \in passed[q].to : Delete(r)
    /\ passed' = [passed EXCEPT ![q] = NotPassed]

\* An update, which changes no owner, or a request that fails.
RequestEnds(q) ==
    /\ passed[q] # NotPassed
    /\ passed' = [passed EXCEPT ![q] = NotPassed]
    /\ UNCHANGED <<resource, owner, news, losses>>

(***************************************************************************)
(* The authorization service.  Two registrations that both find no row:    *)
(* the second is refused by the unique index, and that is swallowed, as if *)
(* it had been handled first.                                              *)
(***************************************************************************)
RegisterOwnership(r, u) ==
    /\ u \in OnItsWay(r)
    /\ owner' = [owner EXCEPT ![r] = u]
    /\ news' = [news EXCEPT ![r].created[u] = @ - 1, ![r].late = @ /\ ~resource[r].live]
    /\ UNCHANGED <<resource, passed, losses>>

Handled(r) ==
    news' = [news EXCEPT ![r].deleted = @ - 1,
                         ![r].late = resource[r].live \/ OnItsWay(r) # {}]

\* Variant: the row stays.
AcknowledgeOnly(r) ==
    /\ news[r].deleted > 0
    /\ Handled(r)
    /\ UNCHANGED <<resource, owner, passed, losses>>

RemoveOwnership(r) ==
    /\ news[r].deleted > 0
    /\ owner' = [owner EXCEPT ![r] = NoOwner]
    /\ Handled(r)
    /\ UNCHANGED <<resource, passed, losses>>

Loss == losses < MaxLosses /\ losses' = losses + 1

\* Not published, or the handler fails: NACK.
CreationLost(r, u) ==
    /\ Loss /\ u \in OnItsWay(r)
    /\ news' = [news EXCEPT ![r].created[u] = @ - 1, ![r].faulty = TRUE]
    /\ UNCHANGED <<resource, owner, passed>>

DeletionLost(r) ==
    /\ Loss /\ news[r].deleted > 0
    /\ news' = [news EXCEPT ![r].deleted = @ - 1, ![r].faulty = TRUE]
    /\ UNCHANGED <<resource, owner, passed>>

\* The service ends before the acknowledgement: the message comes again.
RegisteredTwice(r, u) ==
    /\ Loss /\ u \in OnItsWay(r)
    /\ owner' = [owner EXCEPT ![r] = u]
    /\ news' = [news EXCEPT ![r].faulty = TRUE]
    /\ UNCHANGED <<resource, passed>>

RemovedTwice(r) ==
    /\ Loss /\ news[r].deleted > 0
    /\ owner' = [owner EXCEPT ![r] = NoOwner]
    /\ news' = [news EXCEPT ![r].faulty = TRUE]
    /\ UNCHANGED <<resource, passed>>

OwnNext ==
    \/ \E r \in Resources :
          \/ DeleteUnguarded(r) \/ RemoveOwnership(r) \/ DeletionLost(r) \/ RemovedTwice(r)
          \/ \E u \in Creators :
                \/ CreateResource(r, u) \/ RegisterOwnership(r, u)
                \/ CreationLost(r, u) \/ RegisteredTwice(r, u)
                \/ \E q \in Guarded : CheckOwnership(q, r, u)
    \/ \E q \in Guarded : DeleteGuarded(q) \/ RequestEnds(q)

\* The handlers answer to their queues.
OwnFairness ==
    \A r \in Resources : /\ \A u \in Creators : WF_ownVars(RegisterOwnership(r, u))
                         /\ WF_ownVars(RemoveOwnership(r))

OwnSpec == OwnInit /\ [][OwnNext]_ownVars /\ OwnFairness

(***************************************************************************)
(* Properties.                                                             *)
(***************************************************************************)
Row   == [type : ResourceTypes \cup {"none"}, live : BOOLEAN, by : SUBSET Creators,
          creations : Nat, deletions : Nat]
Story == [created : [Creators -> Nat], deleted : Nat, late : BOOLEAN, faulty : BOOLEAN]

\* The types of the rows, of the table of owners and of what is on its way.
OwnTypeOK ==
    /\ resource \in [Resources -> Row]
    /\ owner \in [Resources -> Creators \cup {NoOwner}]
    /\ news \in [Resources -> Story]
    /\ passed \in [Guarded -> [by : Creators \cup {NoOwner}, to : SUBSET Resources]]
    /\ losses \in Nat

\* Whatever is lost, repeated or overtaken, only somebody who has created a resource is its
\* owner, or has a request for it let through (checkOwnership, registerOwnership).
OwnersAreCreators ==
    /\ \A r \in Resources : owner[r] = NoOwner \/ owner[r] \in resource[r].by
    /\ \A q \in Guarded : \A r \in passed[q].to : passed[q].by \in resource[r].by

\* When all messages of a resource are handled, it has an owner if and only if it is there,
\* however often a room was created again and in whatever order its messages were handled,
\* unless one was lost or repeated, the last removal came late, or it is a deleted flash card
\* (createRoom, RoomCreatedHandler, RoomDeletedHandler).
Settled(r) ==
    /\ OnItsWay(r) = {} /\ news[r].deleted = 0
    /\ ~news[r].faulty /\ ~news[r].late

OwnershipSettles ==
    \A r \in Resources :
        Settled(r) => \/ resource[r].live <=> owner[r] # NoOwner
                      \/ resource[r].type = "flashcard" /\ ~resource[r].live

\* A resource gets its owner in the end, however it was created, unless it is deleted first,
\* one of its messages is lost or repeated, or the last removal came late (RoomCreatedHandler).
Ownerless(r) == resource[r].live /\ owner[r] = NoOwner

CreatedGetOwners ==
    \A r \in Resources :
        Ownerless(r) ~> (~Ownerless(r) \/ news[r].faulty \/ news[r].late)
=============================================================================
