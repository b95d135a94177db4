-------------------------- MODULE IdentitiesProofs --------------------------
(***************************************************************************)
(* Safety of the identities, for any number of identities, identifiers and *)
(* overlapping commands.  The invariant that carries the proof: what a     *)
(* command has loaded so far agrees with the row as long as the row has    *)
(* the version that was loaded.                                            *)
(***************************************************************************)
EXTENDS Identities, TLAPS

CopyOK(m) ==
    LET row == identity[m.of]
    IN  m.at \in {"roles", "creds", "loaded"} =>
           /\ m.of \in Ids /\ Registered(m.of)
           /\ m.copy.version <= row.version
           /\ m.copy.version = row.version =>
                 /\ m.copy.locked = row.locked
                 /\ m.at # "roles" => m.copy.roles = row.roles
                 /\ m.at = "loaded" => m.copy.creds = row.creds

\* A handler that registers holds the credential of a Google account.
GoogleOK(m) == m.at = "register" => m.copy.creds["google"] \in Identifiers

IdIInv ==
    /\ IdTypeOK /\ CredentialsKept
    /\ \A c \in Commands : CopyOK(command[c]) /\ GoogleOK(command[c])

\* Two persons are the same when their fields are.
LEMMA PersonFields ==
    ASSUME NEW p \in Person, NEW q \in Person, p.version = q.version, p.locked = q.locked,
           p.roles = q.roles, p.creds = q.creds
    PROVE  p = q
BY DEF Person

LEMMA WaitingOK ==
    /\ Waiting \in [at : {"idle", "register", "roles", "creds", "loaded"},
                    of : Ids \cup {Nobody}, copy : Person]
    /\ CopyOK(Waiting) /\ GoogleOK(Waiting)
    /\ NoPerson \in Person /\ NoCreds \in Creds
BY DEF Waiting, NoPerson, NoCreds, Person, Creds, CopyOK, GoogleOK

LEMMA IdInitOK == IdInit => IdIInv
<1> SUFFICES ASSUME IdInit PROVE IdIInv
  OBVIOUS
<1>1. /\ identity = [i \in Ids |-> NoPerson] /\ command = [c \in Commands |-> Waiting]
  BY DEF IdInit
<1>2. IdTypeOK
  BY <1>1, WaitingOK DEF IdTypeOK
<1>3. ASSUME NEW i \in Ids
      PROVE  ~Registered(i)
  BY <1>1 DEF Registered, NoPerson
<1> QED BY <1>1, <1>2, <1>3, WaitingOK DEF IdIInv, CredentialsKept

(***************************************************************************)
(* A handler reads, waits or gives up: no row changes.                     *)
(***************************************************************************)
LEMMA CommandChange ==
    ASSUME IdIInv, UNCHANGED identity, NEW c \in Commands, NEW m,
           m \in [at : {"idle", "register", "roles", "creds", "loaded"},
                  of : Ids \cup {Nobody}, copy : Person],
           command' = [command EXCEPT ![c] = m], CopyOK(m), GoogleOK(m)
    PROVE  IdIInv'
<1>1. IdTypeOK' /\ CredentialsKept'
  BY DEF IdIInv, IdTypeOK, CredentialsKept, Registered
<1>2. ASSUME NEW d \in Commands
      PROVE  CopyOK(command[d])' /\ GoogleOK(command[d])'
  <2>1. command'[d] = m \/ command'[d] = command[d]
    BY DEF IdIInv, IdTypeOK
  <2> QED BY <2>1 DEF IdIInv, CopyOK, GoogleOK, Registered
<1> QED BY <1>1, <1>2 DEF IdIInv, Registered

LEMMA ReadsOK ==
    ASSUME IdIInv, NEW c \in Commands,
           \/ \E x \in Identifiers : FindNoGoogleCredential(c, x)
           \/ \E i \in Ids : ReadIdentity(c, i)
           \/ ReadRoles(c) \/ ReadCredentials(c) \/ CommandFails(c)
    PROVE  IdIInv'
<1>1. /\ \A i \in Ids : identity[i] \in Person
      /\ command[c] \in [at : {"idle", "register", "roles", "creds", "loaded"},
                         of : Ids \cup {Nobody}, copy : Person]
      /\ CopyOK(command[c])
  BY DEF IdIInv, IdTypeOK
<1>2. CASE \E x \in Identifiers : FindNoGoogleCredential(c, x)
  <2>1. PICK x \in Identifiers : FindNoGoogleCredential(c, x)
    BY <1>2
  <2> DEFINE g == [NoCreds EXCEPT !["google"] = x]
             p == [NoPerson EXCEPT !.creds = g]
             m == [at |-> "register", of |-> Nobody, copy |-> p]
  <2>2. g \in Creds /\ g["google"] = x
    BY DEF NoCreds, Creds, LoginTypes
  <2>3. p \in Person /\ p.creds = g
    <3> HIDE DEF g
    <3> QED BY <2>2 DEF NoPerson, Person
  <2>4. /\ m \in [at : {"idle", "register", "roles", "creds", "loaded"},
                  of : Ids \cup {Nobody}, copy : Person]
        /\ CopyOK(m) /\ GoogleOK(m)
    <3> HIDE DEF p
    <3> QED BY <2>2, <2>3 DEF CopyOK, GoogleOK
  <2>5. UNCHANGED identity /\ command' = [command EXCEPT ![c] = m]
    BY <2>1 DEF FindNoGoogleCredential
  <2> HIDE DEF m
  <2> QED BY <2>4, <2>5, CommandChange
<1>3. CASE \E i \in Ids : ReadIdentity(c, i)
  <2>1. PICK i \in Ids : ReadIdentity(c, i)
    BY <1>3
  <2> DEFINE p == [identity[i] EXCEPT !.roles = {}, !.creds = NoCreds]
             m == [at |-> "roles", of |-> i, copy |-> p]
  <2>2. /\ p \in Person /\ p.version = identity[i].version /\ p.locked = identity[i].locked
    BY <1>1, WaitingOK DEF Person
  <2>3. /\ m \in [at : {"idle", "register", "roles", "creds", "loaded"},
                  of : Ids \cup {Nobody}, copy : Person]
        /\ CopyOK(m) /\ GoogleOK(m)
    <3>1. Registered(i) /\ identity[i].version \in Nat
      BY <1>1, <2>1 DEF ReadIdentity, Person
    <3> HIDE DEF p
    <3> QED BY <2>2, <3>1 DEF CopyOK, GoogleOK
  <2>4. UNCHANGED identity /\ command' = [command EXCEPT ![c] = m]
    BY <2>1 DEF ReadIdentity
  <2> HIDE DEF m
  <2> QED BY <2>3, <2>4, CommandChange
<1>4. CASE ReadRoles(c)
  <2> DEFINE i == command[c].of
             p == [command[c].copy EXCEPT !.roles = identity[i].roles]
             m == [at |-> "creds", of |-> i, copy |-> p]
  <2>1. i \in Ids /\ identity[i] \in Person
    BY <1>1, <1>4 DEF ReadRoles, CopyOK
  <2>2. /\ p \in Person /\ p.version = command[c].copy.version
        /\ p.locked = command[c].copy.locked /\ p.roles = identity[i].roles
    BY <1>1, <2>1 DEF Person
  <2>3. /\ m \in [at : {"idle", "register", "roles", "creds", "loaded"},
                  of : Ids \cup {Nobody}, copy : Person]
        /\ CopyOK(m) /\ GoogleOK(m)
    <3> HIDE DEF p
    <3> QED BY <1>1, <1>4, <2>1, <2>2 DEF ReadRoles, CopyOK, GoogleOK
  <2>4. UNCHANGED identity /\ command' = [command EXCEPT ![c] = m]
    BY <1>4 DEF ReadRoles
  <2> HIDE DEF m
  <2> QED BY <2>3, <2>4, CommandChange
<1>5. CASE ReadCredentials(c)
  <2> DEFINE i == command[c].of
             p == [command[c].copy EXCEPT !.creds = identity[i].creds]
             m == [at |-> "loaded", of |-> i, copy |-> p]
  <2>1. i \in Ids /\ identity[i] \in Person
    BY <1>1, <1>5 DEF ReadCredentials, CopyOK
  <2>2. /\ p \in Person /\ p.version = command[c].copy.version
        /\ p.locked = command[c].copy.locked /\ p.roles = command[c].copy.roles
        /\ p.creds = identity[i].creds
    BY <1>1, <2>1 DEF Person
  <2>3. /\ m \in [at : {"idle", "register", "roles", "creds", "loaded"},
                  of : Ids \cup {Nobody}, copy : Person]
        /\ CopyOK(m) /\ GoogleOK(m)
    <3> HIDE DEF p
    <3> QED BY <1>1, <1>5, <2>1, <2>2 DEF ReadCredentials, CopyOK, GoogleOK
  <2>4. UNCHANGED identity /\ command' = [command EXCEPT ![c] = m]
    BY <1>5 DEF ReadCredentials
  <2> HIDE DEF m
  <2> QED BY <2>3, <2>4, CommandChange
<1>6. CASE CommandFails(c)
  BY <1>6, WaitingOK, CommandChange DEF CommandFails
<1> QED BY <1>2, <1>3, <1>4, <1>5, <1>6

(***************************************************************************)
(* A row changes: its version grows, so what others hold of it is void.    *)
(***************************************************************************)
LEMMA RowChange ==
    ASSUME IdIInv, NEW i \in Ids, NEW p \in Person, p.version > identity[i].version,
           Kinds(p.creds) # {},
           identity' = [identity EXCEPT ![i] = p],
           \/ UNCHANGED command
           \/ \E c \in Commands : command' = [command EXCEPT ![c] = Waiting]
    PROVE  IdIInv'
<1>1. /\ identity \in [Ids -> Person]
      /\ command \in [Commands -> [at : {"idle", "register", "roles", "creds", "loaded"},
                                   of : Ids \cup {Nobody}, copy : Person]]
  BY DEF IdIInv, IdTypeOK
<1>2. identity' \in [Ids -> Person] /\ identity'[i] = p
      /\ \A j \in Ids \ {i} : identity'[j] = identity[j]
  BY <1>1
<1>3. \A d \in Commands : command'[d] = command[d] \/ command'[d] = Waiting
  BY <1>1
<1>4. IdTypeOK'
  BY <1>1, <1>2, WaitingOK DEF IdTypeOK
<1>5. p.version > 0
  BY <1>1 DEF Person
<1>6. CredentialsKept'
  BY <1>2, <1>5 DEF IdIInv, CredentialsKept, Registered
<1>7. ASSUME NEW d \in Commands
      PROVE  CopyOK(command[d])' /\ GoogleOK(command[d])'
  <2>1. CASE command'[d] = Waiting
    BY <2>1 DEF CopyOK, GoogleOK, Waiting
  <2>2. CASE command'[d] = command[d]
    <3>1. CopyOK(command[d]) /\ GoogleOK(command[d]) /\ command[d].copy.version \in Nat
      BY <1>1 DEF IdIInv, Person
    <3>2. CASE command[d].of = i
      <4>1. identity[i].version \in Nat /\ p.version \in Nat
        BY <1>1 DEF Person
      <4> QED BY <1>2, <1>5, <2>2, <3>1, <3>2, <4>1 DEF CopyOK, GoogleOK, Registered
    <3>3. CASE command[d].of # i
      BY <1>2, <2>2, <3>1, <3>3 DEF CopyOK, GoogleOK, Registered
    <3> QED BY <3>2, <3>3
  <2> QED BY <1>3, <2>1, <2>2
<1> QED BY <1>4, <1>6, <1>7 DEF IdIInv

LEMMA RegisterOK ==
    ASSUME IdIInv, NEW i \in Ids, NEW t \in LoginTypes, NEW x \in Identifiers,
           Register(i, t, x),
           \/ UNCHANGED command
           \/ \E c \in Commands : command' = [command EXCEPT ![c] = Waiting]
    PROVE  IdIInv'
<1> DEFINE g == [NoCreds EXCEPT ![t] = x]
           p == [NoPerson EXCEPT !.version = 1, !.roles = {Student}, !.creds = g]
<1>1. /\ g \in Creds /\ g[t] = x
      /\ \A u \in LoginTypes : u # t => g[u] = NoIdentifier
  BY DEF NoCreds, Creds
<1>2. p \in Person /\ p.version = 1 /\ p.creds = g
  <2> HIDE DEF g
  <2> QED BY <1>1, IdentitiesAssumption DEF NoPerson, Person
<1>3. identity' = [identity EXCEPT ![i] = p] /\ ~Registered(i)
  BY DEF Register, Created
<1> HIDE DEF p
<1>4. Kinds(p.creds) # {}
  <2>1. t \in Kinds(p.creds)
    BY <1>1, <1>2, IdentitiesAssumption DEF Kinds
  <2> QED BY <2>1
<1>5. identity[i].version \in Nat
  BY DEF IdIInv, IdTypeOK, Person
<1>6. p.version > identity[i].version
  BY <1>2, <1>3, <1>5 DEF Registered
<1> QED BY <1>2, <1>3, <1>4, <1>6, RowChange

(***************************************************************************)
(* A save.                                                                 *)
(***************************************************************************)
LEMMA SavedPerson ==
    ASSUME NEW now \in Person, NEW locked \in BOOLEAN, NEW ch,
           ch.roles \subseteq Roles, ch.add \in Creds
    PROVE  /\ Saved(now, locked, ch) \in Person
           /\ Saved(now, locked, ch).version > now.version
           /\ ch.remove = {} /\ ch.add = NoCreds => Saved(now, locked, ch).creds = now.creds
<1> DEFINE cr == [t \in LoginTypes |-> IF t \in ch.remove THEN NoIdentifier
                                       ELSE IF ch.add[t] # NoIdentifier THEN ch.add[t]
                                       ELSE now.creds[t]]
<1>1. /\ now.version + 1 \in Nat /\ now.version + 1 > now.version
      /\ (now.roles \cup ch.roles) \ ch.unroles \subseteq Roles
  BY DEF Person
<1>2. cr \in Creds
  BY DEF Person, Creds
<1>3. ch.remove = {} /\ ch.add = NoCreds => cr = now.creds
  BY DEF Person, Creds, NoCreds
<1> HIDE DEF cr
<1>4. Saved(now, locked, ch) =
        [version |-> now.version + 1, locked |-> locked,
         roles |-> (now.roles \cup ch.roles) \ ch.unroles, creds |-> cr]
  BY DEF Saved, cr
<1> QED BY <1>1, <1>2, <1>3, <1>4 DEF Person

\* The copy a save is made from is the row.
LEMMA SaveReadsRow ==
    ASSUME IdIInv, NEW c \in Commands, NEW locked, NEW ch, Save(c, locked, ch)
    PROVE  /\ command[c].of \in Ids /\ command[c].at = "loaded"
           /\ identity[command[c].of] \in Person
           /\ command[c].copy = identity[command[c].of]
<1> DEFINE m == command[c]
<1>1. m.at = "loaded" /\ identity[m.of].version = m.copy.version
  BY DEF Save
<1>2. CopyOK(m) /\ m.copy \in Person /\ identity \in [Ids -> Person]
  BY DEF IdIInv, IdTypeOK
<1>3. m.of \in Ids
  BY <1>1, <1>2 DEF CopyOK
<1>4. /\ m.copy.locked = identity[m.of].locked /\ m.copy.roles = identity[m.of].roles
      /\ m.copy.creds = identity[m.of].creds
  BY <1>1, <1>2 DEF CopyOK
<1> QED BY <1>1, <1>2, <1>3, <1>4, PersonFields

LEMMA SaveOK ==
    ASSUME IdIInv, NEW c \in Commands, NEW locked \in BOOLEAN, NEW ch, Save(c, locked, ch),
           ch.roles \subseteq Roles, ch.add \in Creds,
           Kinds(Saved(identity[command[c].of], locked, ch).creds) # {}
    PROVE  IdIInv'
<1> DEFINE i == command[c].of
           p == Saved(identity[i], locked, ch)
<1>1. i \in Ids /\ identity[i] \in Person
  BY SaveReadsRow
<1>2. p \in Person /\ p.version > identity[i].version
  BY <1>1, SavedPerson
<1>3. identity' = [identity EXCEPT ![i] = p] /\ command' = [command EXCEPT ![c] = Waiting]
  BY DEF Save
<1> HIDE DEF p
<1>4. Kinds(p.creds) # {}
  BY DEF p
<1> QED BY <1>1, <1>2, <1>3, <1>4, RowChange

\* What is saved leaves the credentials alone.
LEMMA SaveOthersOK ==
    ASSUME IdIInv, NEW c \in Commands, NEW locked \in BOOLEAN, NEW ch, Save(c, locked, ch),
           ch.roles \subseteq Roles, ch.add = NoCreds, ch.remove = {}
    PROVE  IdIInv'
<1> DEFINE i == command[c].of
<1>1. i \in Ids /\ identity[i] \in Person
  BY SaveReadsRow
<1>2. Saved(identity[i], locked, ch).creds = identity[i].creds
  BY <1>1, SavedPerson, WaitingOK
<1>3. Registered(i)
  BY DEF IdIInv, CopyOK, Save
<1>4. Kinds(identity[i].creds) # {}
  BY <1>1, <1>3 DEF IdIInv, CredentialsKept
<1> QED BY <1>2, <1>4, SaveOK, WaitingOK

LEMMA SameFields ==
    /\ Same.roles = {} /\ Same.unroles = {} /\ Same.add = NoCreds /\ Same.remove = {}
    /\ \A r : LET ch == [Same EXCEPT !.roles = {r}]
              IN  ch.roles = {r} /\ ch.add = NoCreds /\ ch.remove = {}
    /\ \A r : LET ch == [Same EXCEPT !.unroles = {r}]
              IN  ch.roles = {} /\ ch.add = NoCreds /\ ch.remove = {}
    /\ \A a : LET ch == [Same EXCEPT !.add = a]
              IN  ch.roles = {} /\ ch.add = a /\ ch.remove = {}
    /\ \A t : LET ch == [Same EXCEPT !.remove = {t}]
              IN  ch.roles = {} /\ ch.add = NoCreds /\ ch.remove = {t}
BY DEF Same

LEMMA DeleteCredentialOK ==
    ASSUME IdIInv, NEW c \in Commands, NEW t \in LoginTypes, DeleteCredential(c, t)
    PROVE  IdIInv'
<1> DEFINE i == command[c].of
           ch == [Same EXCEPT !.remove = {t}]
           cr == Saved(identity[i], command[c].copy.locked, ch).creds
<1>1. Save(c, command[c].copy.locked, ch)
  BY DEF DeleteCredential, Keeping
<1>2. /\ i \in Ids /\ identity[i] \in Person /\ command[c].copy = identity[i]
  BY <1>1, SaveReadsRow
<1>3. ch.roles = {} /\ ch.add = NoCreds /\ ch.remove = {t}
  BY SameFields
<1>4. command[c].copy.locked \in BOOLEAN
  BY <1>2 DEF Person
<1> HIDE DEF ch
<1>5. \A u \in LoginTypes : cr[u] = IF u = t THEN NoIdentifier ELSE identity[i].creds[u]
  BY <1>3 DEF Saved, NoCreds
<1>6. PICK u \in LoginTypes : u # t /\ identity[i].creds[u] # NoIdentifier
  BY <1>2 DEF DeleteCredential, Kinds
<1>7. Kinds(cr) # {}
  <2>1. u \in Kinds(cr)
    BY <1>5, <1>6 DEF Kinds
  <2> QED BY <2>1
<1> QED BY <1>1, <1>3, <1>4, <1>7, WaitingOK, SaveOK

LEMMA AddCredentialOK ==
    ASSUME IdIInv, NEW c \in Commands, NEW t \in LoginTypes, NEW x \in Identifiers,
           AddCredential(c, t, x)
    PROVE  IdIInv'
<1> DEFINE i == command[c].of
           g == [NoCreds EXCEPT ![t] = x]
           ch == [Same EXCEPT !.add = g]
           cr == Saved(identity[i], command[c].copy.locked, ch).creds
<1>1. Save(c, command[c].copy.locked, ch)
  BY DEF AddCredential, Keeping
<1>2. /\ i \in Ids /\ identity[i] \in Person /\ command[c].copy = identity[i]
  BY <1>1, SaveReadsRow
<1>3. /\ g \in Creds /\ g[t] = x /\ x # NoIdentifier
      /\ \A u \in LoginTypes : u # t => g[u] = NoIdentifier
  BY IdentitiesAssumption DEF NoCreds, Creds
<1> HIDE DEF g
<1>4. ch.roles = {} /\ ch.add = g /\ ch.remove = {}
  BY SameFields
<1>5. command[c].copy.locked \in BOOLEAN
  BY <1>2 DEF Person
<1> HIDE DEF ch
<1>6. \A u \in LoginTypes : cr[u] = IF u = t THEN x ELSE identity[i].creds[u]
  BY <1>3, <1>4 DEF Saved
<1>7. Kinds(cr) # {}
  <2>1. t \in Kinds(cr)
    BY <1>3, <1>6 DEF Kinds
  <2> QED BY <2>1
<1> QED BY <1>1, <1>3, <1>4, <1>5, <1>7, SaveOK

LEMMA SaveCommandOK ==
    ASSUME IdIInv, NEW c \in Commands, SaveCommand(c)
    PROVE  IdIInv'
<1> DEFINE locked == command[c].copy.locked
<1>1. locked \in BOOLEAN
  BY DEF IdIInv, IdTypeOK, Person
<1>2. CASE UpdateDetails(c) \/ UpdateCredential(c)
  <2>1. Save(c, locked, Same)
    BY <1>2 DEF UpdateDetails, UpdateCredential, Keeping
  <2> QED BY <1>1, <2>1, SameFields, SaveOthersOK
<1>3. CASE Lock(c) \/ Unlock(c)
  <2>1. PICK b \in BOOLEAN : Save(c, b, Same)
    BY <1>3 DEF Lock, Unlock
  <2> QED BY <2>1, SameFields, SaveOthersOK
<1>4. ASSUME NEW r \in Roles, AddRole(c, r)
      PROVE  IdIInv'
  <2> DEFINE ch == [Same EXCEPT !.roles = {r}]
  <2>1. Save(c, locked, ch)
    BY <1>4 DEF AddRole, Keeping
  <2>2. ch.roles \subseteq Roles /\ ch.add = NoCreds /\ ch.remove = {}
    BY SameFields
  <2> QED BY <1>1, <2>1, <2>2, SaveOthersOK
<1>5. ASSUME NEW r \in Roles, RemoveRole(c, r)
      PROVE  IdIInv'
  <2> DEFINE ch == [Same EXCEPT !.unroles = {r}]
  <2>1. Save(c, locked, ch)
    BY <1>5 DEF RemoveRole, Keeping
  <2>2. ch.roles \subseteq Roles /\ ch.add = NoCreds /\ ch.remove = {}
    BY SameFields
  <2> QED BY <1>1, <2>1, <2>2, SaveOthersOK
<1> QED BY <1>2, <1>3, <1>4, <1>5, DeleteCredentialOK, AddCredentialOK DEF SaveCommand

(***************************************************************************)
(* The theorems.                                                           *)
(***************************************************************************)
LEMMA IdStepOK == IdIInv /\ [IdNext]_idVars => IdIInv'
<1> SUFFICES ASSUME IdIInv, [IdNext]_idVars PROVE IdIInv'
  OBVIOUS
<1>1. ASSUME NEW i \in Ids, NEW x \in Identifiers, MailRegister(i, x) PROVE IdIInv'
  BY <1>1, RegisterOK DEF MailRegister, LoginTypes
<1>2. ASSUME NEW c \in Commands, NEW i \in Ids, GoogleRegister(c, i) PROVE IdIInv'
  <2>1. command[c].copy.creds["google"] \in Identifiers
    BY <1>2 DEF IdIInv, GoogleOK, GoogleRegister
  <2> QED BY <1>2, <2>1, RegisterOK DEF GoogleRegister, LoginTypes
<1>3. ASSUME NEW c \in Commands,
             \/ \E x \in Identifiers : FindNoGoogleCredential(c, x)
             \/ \E i \in Ids : ReadIdentity(c, i)
             \/ ReadRoles(c) \/ ReadCredentials(c) \/ CommandFails(c)
      PROVE  IdIInv'
  BY <1>3, ReadsOK
<1>4. ASSUME NEW c \in Commands, SaveCommand(c) PROVE IdIInv'
  BY <1>4, SaveCommandOK
<1>5. CASE UNCHANGED idVars
  BY <1>5 DEF idVars, IdIInv, IdTypeOK, CredentialsKept, Registered,
     CopyOK, GoogleOK
<1> QED BY <1>1, <1>2, <1>3, <1>4, <1>5 DEF IdNext

THEOREM IdInvariant == IdSpec => []IdIInv
BY IdInitOK, IdStepOK, PTL DEF IdSpec

\* The rows and what the handlers have loaded keep their types.
THEOREM IdTypeCorrect == IdSpec => []IdTypeOK
<1>1. IdIInv => IdTypeOK
  BY DEF IdIInv
<1> QED BY <1>1, IdInvariant, PTL

\* An identity keeps a credential, whatever commands overlap.
THEOREM CredentialsStay == IdSpec => []CredentialsKept
<1>1. IdIInv => CredentialsKept
  BY DEF IdIInv
<1> QED BY <1>1, IdInvariant, PTL

LEMMA ChangesAreSaves ==
    IdIInv /\ [IdNext]_idVars =>
       \A i \in Ids :
          identity'[i] # identity[i] /\ Registered(i) =>
             \E c \in Commands :
                /\ command[c].at = "loaded" /\ command[c].of = i
                /\ command[c].copy = identity[i]
<1> SUFFICES ASSUME IdIInv, [IdNext]_idVars, NEW i \in Ids,
                    identity'[i] # identity[i], Registered(i)
             PROVE  \E c \in Commands :
                       /\ command[c].at = "loaded" /\ command[c].of = i
                       /\ command[c].copy = identity[i]
  OBVIOUS
<1>1. identity \in [Ids -> Person]
  BY DEF IdIInv, IdTypeOK
<1>2. PICK c \in Commands : SaveCommand(c)
  <2>1. ~ \E j \in Ids, t \in LoginTypes, x \in Identifiers : Register(j, t, x)
    BY <1>1 DEF Register
  <2>2. ~ \E j \in Ids, x \in Identifiers : MailRegister(j, x)
    BY <2>1 DEF MailRegister, LoginTypes
  <2>3. ~ \E c \in Commands, j \in Ids : GoogleRegister(c, j)
    BY <2>1 DEF GoogleRegister, LoginTypes, IdIInv, GoogleOK
  <2>4. ~ \E c \in Commands : \/ \E x \in Identifiers : FindNoGoogleCredential(c, x)
                              \/ \E j \in Ids : ReadIdentity(c, j)
                              \/ ReadRoles(c) \/ ReadCredentials(c) \/ CommandFails(c)
    BY DEF FindNoGoogleCredential, ReadIdentity, ReadRoles, ReadCredentials, CommandFails
  <2>5. IdNext
    BY DEF idVars
  <2> QED BY <2>2, <2>3, <2>4, <2>5 DEF IdNext
<1>3. PICK locked, ch : Save(c, locked, ch)
  BY <1>2 DEF SaveCommand, UpdateDetails, UpdateCredential, Lock, Unlock, AddRole, RemoveRole,
     AddCredential, DeleteCredential, Keeping
<1>4. command[c].of = i
  BY <1>1, <1>3 DEF Save
<1> QED BY <1>3, <1>4, SaveReadsRow

\* A save changes the identity its command has loaded.
THEOREM NoChangeIsLost == IdSpec => SavesApplyToCopies
BY ChangesAreSaves, IdInvariant, PTL DEF IdSpec, SavesApplyToCopies
=============================================================================
