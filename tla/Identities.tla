----------------------------- MODULE Identities -----------------------------
(***************************************************************************)
(* The identities of the auth service, with their roles and credentials.   *)
(* A command loads an identity in three queries (its row, its roles, its   *)
(* credentials), changes the copy in memory, and saves it: in one          *)
(* transaction the row is written if it still has the version the copy was *)
(* loaded with, and the roles and credentials the command added or removed *)
(* are created or deleted.                                                 *)
(*                                                                         *)
(* A credential is known here by its identifier and its login type, which  *)
(* are unique, and an identity has one credential of a type at most: both  *)
(* are constraints of the table.  No command calls softDelete.             *)
(***************************************************************************)
EXTENDS Integers

CONSTANTS Ids,           \* identities
          Nobody,
          Identifiers,   \* mail addresses, Google accounts
          NoIdentifier,
          Roles,
          Student,       \* the role of a new identity
          Commands,      \* command handlers that run at the same time
          MaxSaves       \* bound: the version of an identity

ASSUME IdentitiesAssumption ==
    /\ Nobody \notin Ids /\ NoIdentifier \notin Identifiers
    /\ Student \in Roles
    /\ MaxSaves \in Nat

LoginTypes == {"mail", "google"}

VARIABLES identity,   \* the rows: the identity with its roles and its credentials
          command     \* what each handler has loaded

idVars == <<identity, command>>

NoCreds  == [t \in LoginTypes |-> NoIdentifier]
NoPerson == [version |-> 0, locked |-> FALSE, roles |-> {}, creds |-> NoCreds]
Waiting  == [at |-> "idle", of |-> Nobody, copy |-> NoPerson]

IdInit ==
    /\ identity = [i \in Ids |-> NoPerson]
    /\ command = [c \in Commands |-> Waiting]

Registered(i) == identity[i].version > 0
Kinds(creds)  == {t \in LoginTypes : creds[t] # NoIdentifier}

\* @@unique([identifier, loginType])
Taken(t, x) == \E i \in Ids : identity[i].creds[t] = x

(***************************************************************************)
(* Registration.  crypto.randomUUID gives a new id; the identity, its      *)
(* credential and its role are created in one transaction.  A Google login *)
(* registers when it has found no credential.                              *)
(***************************************************************************)
Created(t, x) == [NoPerson EXCEPT !.version = 1, !.roles = {Student},
                                  !.creds = [NoCreds EXCEPT ![t] = x]]

Register(i, t, x) ==
    /\ ~Registered(i) /\ ~Taken(t, x)
    /\ identity' = [identity EXCEPT ![i] = Created(t, x)]

MailRegister(i, x) == Register(i, "mail", x) /\ UNCHANGED command

FindNoGoogleCredential(c, x) ==
    /\ command[c].at = "idle" /\ ~Taken("google", x)
    /\ command' = [command EXCEPT ![c] =
                     [at |-> "register", of |-> Nobody,
                      copy |-> [NoPerson EXCEPT !.creds = [NoCreds EXCEPT !["google"] = x]]]]
    /\ UNCHANGED identity

GoogleRegister(c, i) ==
    /\ command[c].at = "register"
    /\ Register(i, "google", command[c].copy.creds["google"])
    /\ command' = [command EXCEPT ![c] = Waiting]

(***************************************************************************)
(* findOneById.                                                            *)
(***************************************************************************)
ReadIdentity(c, i) ==
    /\ command[c].at = "idle" /\ Registered(i)
    /\ command' = [command EXCEPT ![c] =
                     [at |-> "roles", of |-> i,
                      copy |-> [identity[i] EXCEPT !.roles = {}, !.creds = NoCreds]]]
    /\ UNCHANGED identity

ReadRoles(c) ==
    /\ command[c].at = "roles"
    /\ LET i == command[c].of
       IN  command' = [command EXCEPT ![c] =
             [at |-> "creds", of |-> i, copy |-> [@.copy EXCEPT !.roles = identity[i].roles]]]
    /\ UNCHANGED identity

ReadCredentials(c) ==
    /\ command[c].at = "creds"
    /\ LET i == command[c].of
       IN  command' = [command EXCEPT ![c] =
             [at |-> "loaded", of |-> i, copy |-> [@.copy EXCEPT !.creds = identity[i].creds]]]
    /\ UNCHANGED identity

(***************************************************************************)
(* save.  The columns of the row are written from the copy; a role or a    *)
(* credential is created or deleted in the tables, not written from it.    *)
(***************************************************************************)
Same == [roles |-> {}, unroles |-> {}, add |-> NoCreds, remove |-> {}]

Saved(now, locked, changes) ==
    [version |-> now.version + 1, locked |-> locked,
     roles |-> (now.roles \cup changes.roles) \ changes.unroles,
     creds |-> [t \in LoginTypes |-> IF t \in changes.remove THEN NoIdentifier
                                     ELSE IF changes.add[t] # NoIdentifier THEN changes.add[t]
                                     ELSE now.creds[t]]]

\* Variant: the row is found by its id alone.
SaveUnversioned(c, locked, changes) ==
    LET i == command[c].of
    IN  /\ command[c].at = "loaded" /\ identity[i].version < MaxSaves
        /\ identity' = [identity EXCEPT ![i] = Saved(identity[i], locked, changes)]
        /\ command' = [command EXCEPT ![c] = Waiting]

\* An update that finds no row of that id and version fails, and so does the transaction.
Save(c, locked, changes) ==
    LET i == command[c].of
    IN  /\ command[c].at = "loaded" /\ identity[i].version < MaxSaves
        /\ identity[i].version = command[c].copy.version
        /\ identity' = [identity EXCEPT ![i] = Saved(identity[i], locked, changes)]
        /\ command' = [command EXCEPT ![c] = Waiting]

Keeping(c, changes) == Save(c, command[c].copy.locked, changes)

\* updateDetails, and updatePassword of a credential: columns that are left out here.
UpdateDetails(c)    == Keeping(c, Same)
UpdateCredential(c) == Kinds(command[c].copy.creds) # {} /\ Keeping(c, Same)

Lock(c)   == ~command[c].copy.locked /\ Save(c, TRUE, Same)
Unlock(c) == command[c].copy.locked /\ Save(c, FALSE, Same)

AddRole(c, r) ==
    r \notin command[c].copy.roles /\ Keeping(c, [Same EXCEPT !.roles = {r}])

RemoveRole(c, r) ==
    r \in command[c].copy.roles /\ Keeping(c, [Same EXCEPT !.unroles = {r}])

\* The table refuses a second credential of a type, and an identifier that is taken.
AddCredential(c, t, x) ==
    /\ command[c].at = "loaded"
    /\ command[c].copy.creds[t] # x
    /\ identity[command[c].of].creds[t] = NoIdentifier /\ ~Taken(t, x)
    /\ Keeping(c, [Same EXCEPT !.add = [NoCreds EXCEPT ![t] = x]])

\* The last one stays.
DeleteCredential(c, t) ==
    /\ t \in Kinds(command[c].copy.creds) /\ Kinds(command[c].copy.creds) # {t}
    /\ Keeping(c, [Same EXCEPT !.remove = {t}])

\* A refusal, a conflict with a constraint or with another save, an error, a crash.
CommandFails(c) ==
    /\ command[c].at # "idle"
    /\ command' = [command EXCEPT ![c] = Waiting]
    /\ UNCHANGED identity

SaveCommand(c) ==
    \/ UpdateDetails(c) \/ Lock(c) \/ Unlock(c) \/ UpdateCredential(c)
    \/ \E r \in Roles : AddRole(c, r) \/ RemoveRole(c, r)
    \/ \E t \in LoginTypes : DeleteCredential(c, t)
    \/ \E t \in LoginTypes, x \in Identifiers : AddCredential(c, t, x)

IdNext ==
    \/ \E i \in Ids, x \in Identifiers : MailRegister(i, x)
    \/ \E c \in Commands :
          \/ \E x \in Identifiers : FindNoGoogleCredential(c, x)
          \/ \E i \in Ids : GoogleRegister(c, i) \/ ReadIdentity(c, i)
          \/ ReadRoles(c) \/ ReadCredentials(c)
          \/ SaveCommand(c) \/ CommandFails(c)

IdSpec == IdInit /\ [][IdNext]_idVars

(***************************************************************************)
(* Properties.                                                             *)
(***************************************************************************)
Creds  == [LoginTypes -> Identifiers \cup {NoIdentifier}]
Person == [version : Nat, locked : BOOLEAN, roles : SUBSET Roles, creds : Creds]

\* The types of the rows and of what the handlers have loaded (identity.entity.ts).
IdTypeOK ==
    /\ identity \in [Ids -> Person]
    /\ command \in [Commands -> [at : {"idle", "register", "roles", "creds", "loaded"},
                                 of : Ids \cup {Nobody}, copy : Person]]

\* Whatever commands overlap, an identity keeps a credential it can be logged in with
\* (deleteCredential looks at the copy: two removals may each leave the other's).
CredentialsKept == \A i \in Ids : Registered(i) => Kinds(identity[i].creds) # {}

\* A save changes the identity its command has loaded: no change made since then is written
\* over, though the copy comes from three queries (findOneById, save).
SavesApplyToCopies ==
    [][\A i \in Ids :
          identity'[i] # identity[i] /\ Registered(i) =>
             \E c \in Commands :
                /\ command[c].at = "loaded" /\ command[c].of = i
                /\ command[c].copy = identity[i]]_idVars
=============================================================================
