--------------------------- MODULE StoreLifecycle ---------------------------
(***************************************************************************)
(* How a SQLCipherProtocolStore comes to be and goes away: open resolves   *)
(* the database key, probes the file with it and migrates the schema;      *)
(* initializeLocalIdentity makes the device's identity, once; close and    *)
(* wipe end it.  None of these runs in the queue of protocol operations.   *)
(*                                                                         *)
(* The keychain and the database files survive a kill, which may come      *)
(* between any two awaits; the app may come back with an older or a newer  *)
(* version of the library, or reinstalled: without its files and, on iOS,  *)
(* with the keychain it had.                                               *)
(***************************************************************************)
EXTENDS Naturals, FiniteSets

CONSTANTS Dbs,            \* database names
          Aliases, Alias, \* Alias[d]: the keychain entry database d is opened with
          Keys,           \* database keys
          ProviderKeys,   \* ProviderKeys[d]: what the keyProvider of d may return;
                          \* empty when d is opened without one
          SchemaVersion,  \* the newest schema version of any library version
          Statements,     \* Statements[v]: the number of statements of MIGRATIONS[v]
          Handles,        \* calls of SQLCipherProtocolStore.open
          Inits,          \* calls of initializeIfNeeded or initializeLocalIdentity
          None

ASSUME LifecycleAssumption ==
  /\ Alias \in [Dbs -> Aliases]
  /\ ProviderKeys \in [Dbs -> SUBSET Keys]
  /\ SchemaVersion \in Nat \ {0}
  /\ Statements \in [0 .. (SchemaVersion - 1) -> Nat \ {0}]
  /\ None \notin Keys \cup Dbs \cup Handles \cup Inits

\* MIGRATIONS[v] ?? []: the tables batch v creates, and those of a schema at version n.
BatchSize(v) == IF v \in DOMAIN Statements THEN Statements[v] ELSE 0
Batch(v)  == {v} \X (1 .. BatchSize(v))
Schema(n) == UNION {Batch(v) : v \in 0 .. (n - 1)}

\* What one transaction may change: the tables there are and the version row.
Schemas == [tables : SUBSET Schema(SchemaVersion), version : 0 .. SchemaVersion]

\* A database file: the key its pages are encrypted with, its schema, and the
\* row of local_identity, named for the call that inserted it.
Files == [key : Keys, schema : Schemas, identity : Inits \cup {None}]

ASSUME FileAssumption == None \notin Files \cup Schemas

VARIABLES keychain,  \* by alias
          file,      \* by database name; None when there is no file
          library,   \* SCHEMA_VERSION of the library installed
          pc,        \* pc[h]: the await the handle is at
          db,        \* db[h]: the database it was opened on
          key,       \* key[h]: the key it resolved
          executed,  \* executed[h]: the statements of its current batch executed
          work,      \* work[h]: the schema its open transaction would commit
          store,     \* store[i]: the handle of call i
          step       \* step[i]: where call i is

handleVars == <<pc, db, key, executed, work>>
initVars   == <<store, step>>
vars == <<keychain, file, library, handleVars, initVars>>

Opening == {"getItem", "setItem", "probe", "journal", "version", "migrate", "commit"}
Wiping  == {"deleteDatabase", "deleteKey"}
InitSteps == {"ifNeeded", "check", "insert"}
InitOutcomes == {"returned", "StoreError", "ConstraintError", "rejected"}

TypeOK ==
  /\ keychain \in [Aliases -> Keys \cup {None}]
  /\ file \in [Dbs -> Files \cup {None}]
  /\ library \in 1 .. SchemaVersion
  /\ pc \in [Handles -> {"idle", "open", "closed", "failed", "gone"} \cup Opening \cup Wiping]
  /\ db \in [Handles -> Dbs \cup {None}]
  /\ key \in [Handles -> Keys \cup {None}]
  /\ executed \in [Handles -> Nat]
  /\ work \in [Handles -> Schemas \cup {None}]
  /\ store \in [Inits -> Handles \cup {None}]
  /\ step \in [Inits -> {"idle"} \cup InitSteps \cup InitOutcomes]

-----------------------------------------------------------------------------
(* open *)

\* A handle is on its database from the call of open to the end of close or wipe.
Live(h) == pc[h] \in Opening \cup {"open"} \cup Wiping

At(h, label) == pc[h] = label
Goto(h, label) == pc' = [pc EXCEPT ![h] = label]

\* The documented rule: not two stores on one database file.
Open(h) ==
  /\ At(h, "idle")
  /\ \E d \in Dbs : /\ \A g \in Handles : Live(g) => db[g] # d
                    /\ db' = [db EXCEPT ![h] = d]
  /\ Goto(h, "getItem")
  /\ UNCHANGED <<keychain, file, library, key, executed, work, initVars>>

\* The key of a provider, or the one the keychain holds, or one to be generated.
GetItem(h) ==
  LET d == db[h]
      found == IF ProviderKeys[d] # {} THEN ProviderKeys[d] ELSE {keychain[Alias[d]]} \ {None}
  IN  /\ At(h, "getItem")
      /\ IF found = {}
         THEN Goto(h, "setItem") /\ UNCHANGED key
         ELSE /\ \E k \in found : key' = [key EXCEPT ![h] = k]
              /\ Goto(h, "probe")
      /\ UNCHANGED <<keychain, file, library, db, executed, work, initVars>>

\* 32 random bytes: a key that is not in use.
InUse == {keychain[a] : a \in Aliases} \cup {key[h] : h \in Handles}
           \cup {file[d].key : d \in {e \in Dbs : file[e] # None}}

SetItem(h) ==
  /\ At(h, "setItem")
  /\ \E k \in Keys \ InUse : /\ keychain' = [keychain EXCEPT ![Alias[db[h]]] = k]
                             /\ key' = [key EXCEPT ![h] = k]
  /\ Goto(h, "probe")
  /\ UNCHANGED <<file, library, db, executed, work, initVars>>

\* A failure rolls the open transaction back, closes the connection and throws.
Fail(h) ==
  /\ Goto(h, "failed")
  /\ db' = [db EXCEPT ![h] = None]
  /\ key' = [key EXCEPT ![h] = None]
  /\ executed' = [executed EXCEPT ![h] = 0]
  /\ work' = [work EXCEPT ![h] = None]

\* PRAGMA key and the first read: it fails on a file made with another key.
Probe(h) ==
  /\ At(h, "probe")
  /\ IF file[db[h]] # None /\ file[db[h]].key # key[h]
     THEN Fail(h)
     ELSE Goto(h, "journal") /\ UNCHANGED <<db, key, executed, work>>
  /\ UNCHANGED <<keychain, file, library, initVars>>

\* PRAGMA journal_mode = WAL is the first write of a new file.
Journal(h) ==
  /\ At(h, "journal")
  /\ file' = IF file[db[h]] # None THEN file
             ELSE [file EXCEPT ![db[h]] = [key |-> key[h], identity |-> None,
                                           schema |-> [tables |-> {}, version |-> 0]]]
  /\ Goto(h, "version")
  /\ UNCHANGED <<keychain, library, db, key, executed, work, initVars>>

\* Mutant of ReadVersion: a newer schema is taken for a current one.
ReadVersionTakesNewer(h) ==
  LET schema == file[db[h]].schema
  IN  /\ At(h, "version")
      /\ Goto(h, IF schema.version >= library THEN "open" ELSE "migrate")
      /\ work' = [work EXCEPT ![h] = IF schema.version < library THEN schema ELSE None]
      /\ UNCHANGED <<keychain, file, library, db, key, executed, initVars>>

\* runMigrations reads the version, refuses a newer schema, and begins a
\* transaction for the first batch that is missing.
ReadVersion(h) ==
  LET schema == file[db[h]].schema
  IN  /\ At(h, "version")
      /\ \/ /\ schema.version > library
            /\ Fail(h)
         \/ /\ schema.version = library
            /\ Goto(h, "open")
            /\ UNCHANGED <<db, key, executed, work>>
         \/ /\ schema.version < library
            /\ Goto(h, "migrate")
            /\ work' = [work EXCEPT ![h] = schema]
            /\ UNCHANGED <<db, key, executed>>
      /\ UNCHANGED <<keychain, file, library, initVars>>

WithSchema(f, schema) == [key |-> f.key, schema |-> schema, identity |-> f.identity]

\* Mutant of ExecStatement: no transaction, each statement commits itself.
ExecStatementCommits(h) ==
  LET v == work[h].version
      schema == [tables |-> work[h].tables \cup {<<v, executed[h] + 1>>}, version |-> v]
  IN  /\ At(h, "migrate")
      /\ executed[h] < BatchSize(v)
      /\ work' = [work EXCEPT ![h] = schema]
      /\ file' = [file EXCEPT ![db[h]] = WithSchema(file[db[h]], schema)]
      /\ executed' = [executed EXCEPT ![h] = executed[h] + 1]
      /\ UNCHANGED <<keychain, library, pc, db, key, initVars>>

\* The statements of a batch are CREATE TABLE, and fail on a table that exists.
ExecStatement(h) ==
  LET v == work[h].version
      table == <<v, executed[h] + 1>>
  IN  /\ At(h, "migrate")
      /\ executed[h] < BatchSize(v)
      /\ IF table \in work[h].tables
         THEN Fail(h)
         ELSE /\ work' = [work EXCEPT ![h] = [tables  |-> work[h].tables \cup {table},
                                              version |-> v]]
              /\ executed' = [executed EXCEPT ![h] = executed[h] + 1]
              /\ UNCHANGED <<pc, db, key>>
      /\ UNCHANGED <<keychain, file, library, initVars>>

\* After the last of them the version row is written, in the same transaction.
StampVersion(h) ==
  LET v == work[h].version
  IN  /\ At(h, "migrate")
      /\ executed[h] = BatchSize(v)
      /\ work' = [work EXCEPT ![h] = [tables |-> work[h].tables, version |-> v + 1]]
      /\ Goto(h, "commit")
      /\ executed' = [executed EXCEPT ![h] = 0]
      /\ UNCHANGED <<keychain, file, library, db, key, initVars>>

\* COMMIT, and the next batch when there is more.
CommitThen(h, more) ==
  LET d == db[h]
  IN  /\ At(h, "commit")
      /\ file' = [file EXCEPT ![d] = WithSchema(file[d], work[h])]
      /\ Goto(h, IF more THEN "migrate" ELSE "open")
      /\ work' = [work EXCEPT ![h] = IF more THEN work[h] ELSE None]
      /\ UNCHANGED <<keychain, library, db, key, executed, initVars>>

\* Mutant of Commit: one batch only.
CommitOnce(h) == CommitThen(h, FALSE)

\* for (let v = current; v < SCHEMA_VERSION; v++)
Commit(h) == CommitThen(h, work[h].version < library)

\* An await of open rejects.
OpenFails(h) ==
  /\ pc[h] \in Opening
  /\ Fail(h)
  /\ UNCHANGED <<keychain, file, library, initVars>>

-----------------------------------------------------------------------------
(* close and wipe *)

Close(h) ==
  /\ At(h, "open")
  /\ Goto(h, "closed")
  /\ key' = [key EXCEPT ![h] = None]
  /\ UNCHANGED <<keychain, file, library, db, executed, work, initVars>>

\* wipe closes the connection, and ignores that it may be closed already: it may
\* be tried again, and used on a store that was closed.
WipeFrom(h, label) ==
  /\ pc[h] \in {"open", "closed"}
  /\ \A g \in Handles : g # h /\ Live(g) => db[g] # db[h]
  /\ Goto(h, label)
  /\ key' = [key EXCEPT ![h] = None]
  /\ UNCHANGED <<keychain, file, library, db, executed, work, initVars>>

\* Mutant of Wipe: the key is deleted before the database.
WipeKeyFirst(h) == WipeFrom(h, IF ProviderKeys[db[h]] = {} THEN "deleteKey" ELSE "deleteDatabase")

Wipe(h) == WipeFrom(h, "deleteDatabase")

\* expo-sqlite rejects the deletion of a file that is not there: WipeFails.
DeleteDatabaseThen(h, label) ==
  /\ At(h, "deleteDatabase")
  /\ file[db[h]] # None
  /\ file' = [file EXCEPT ![db[h]] = None]
  /\ Goto(h, label)
  /\ UNCHANGED <<keychain, library, db, key, executed, work, initVars>>

\* Mutant of DeleteDatabase: the key goes with the database of a keyProvider too.
DeleteDatabaseAndKey(h) == DeleteDatabaseThen(h, "deleteKey")

\* The key goes too, unless a keyProvider was used.
DeleteDatabase(h) ==
  DeleteDatabaseThen(h, IF ProviderKeys[db[h]] # {} THEN "closed" ELSE "deleteKey")

DeleteDatabaseKey(h) ==
  /\ At(h, "deleteKey")
  /\ keychain' = [keychain EXCEPT ![Alias[db[h]]] = None]
  /\ Goto(h, "closed")
  /\ UNCHANGED <<file, library, db, key, executed, work, initVars>>

WipeFails(h) ==
  /\ pc[h] \in Wiping
  /\ Goto(h, "closed")
  /\ UNCHANGED <<keychain, file, library, db, key, executed, work, initVars>>

-----------------------------------------------------------------------------
(* The local identity *)

Advance(i, label) == step' = [step EXCEPT ![i] = label]

\* The row of local_identity that call i sees; its handle must still be open.
Row(i) == file[db[store[i]]].identity
Usable(i) == At(store[i], "open")

\* SignalClient.initializeIfNeeded, or initializeLocalIdentity directly.
Initialize(i) ==
  /\ step[i] = "idle"
  /\ \E h \in Handles : At(h, "open") /\ store' = [store EXCEPT ![i] = h]
  /\ \E label \in {"ifNeeded", "check"} : Advance(i, label)
  /\ UNCHANGED <<keychain, file, library, handleVars>>

IfNeeded(i) ==
  /\ step[i] = "ifNeeded"
  /\ Usable(i)
  /\ Advance(i, IF Row(i) # None THEN "returned" ELSE "check")
  /\ UNCHANGED <<keychain, file, library, handleVars, store>>

CheckInitialized(i) ==
  /\ step[i] = "check"
  /\ Usable(i)
  /\ Advance(i, IF Row(i) # None THEN "StoreError" ELSE "insert")
  /\ UNCHANGED <<keychain, file, library, handleVars, store>>

WithIdentity(f, i) == [key |-> f.key, schema |-> f.schema, identity |-> i]

\* Mutant of InsertIdentity: an upsert, as the other tables have.
InsertIdentityUpserts(i) ==
  /\ step[i] = "insert"
  /\ Usable(i)
  /\ Advance(i, "returned")
  /\ file' = [file EXCEPT ![db[store[i]]] = WithIdentity(file[db[store[i]]], i)]
  /\ UNCHANGED <<keychain, library, handleVars, store>>

\* An INSERT with the constant primary key 1: a second one violates it.
InsertIdentity(i) ==
  /\ step[i] = "insert"
  /\ Usable(i)
  /\ IF Row(i) # None
     THEN Advance(i, "ConstraintError") /\ UNCHANGED file
     ELSE /\ Advance(i, "returned")
          /\ file' = [file EXCEPT ![db[store[i]]] = WithIdentity(file[db[store[i]]], i)]
  /\ UNCHANGED <<keychain, library, handleVars, store>>

\* A statement of the call rejects, as all do on a closed connection.
InitFails(i) ==
  /\ step[i] \in InitSteps
  /\ Advance(i, "rejected")
  /\ UNCHANGED <<keychain, file, library, handleVars, store>>

-----------------------------------------------------------------------------

\* The process ends with its connections, and the app starts again: as it was,
\* with another version of the library, or reinstalled, on iOS with its keychain.
Kill ==
  /\ pc' = [h \in Handles |-> IF pc[h] = "idle" THEN "idle" ELSE "gone"]
  /\ step' = [i \in Inits |-> IF step[i] \in InitSteps THEN "rejected" ELSE step[i]]
  /\ db' = [h \in Handles |-> None]
  /\ key' = [h \in Handles |-> None]
  /\ executed' = [h \in Handles |-> 0]
  /\ work' = [h \in Handles |-> None]
  /\ store' = [i \in Inits |-> None]
  /\ library' \in 1 .. SchemaVersion
  /\ \/ UNCHANGED <<keychain, file>>
     \/ /\ file' = [d \in Dbs |-> None]
        /\ keychain' \in {keychain, [a \in Aliases |-> None]}

Init ==
  /\ keychain = [a \in Aliases |-> None]
  /\ file = [d \in Dbs |-> None]
  /\ library \in 1 .. SchemaVersion
  /\ pc = [h \in Handles |-> "idle"]
  /\ db = [h \in Handles |-> None]
  /\ key = [h \in Handles |-> None]
  /\ executed = [h \in Handles |-> 0]
  /\ work = [h \in Handles |-> None]
  /\ store = [i \in Inits |-> None]
  /\ step = [i \in Inits |-> "idle"]

OpenStep(h) == \/ GetItem(h) \/ SetItem(h) \/ Probe(h) \/ Journal(h) \/ ReadVersion(h)
               \/ ExecStatement(h) \/ StampVersion(h) \/ Commit(h)
WipeStep(h) == DeleteDatabase(h) \/ DeleteDatabaseKey(h)
InitStep(i) == IfNeeded(i) \/ CheckInitialized(i) \/ InsertIdentity(i)

Next ==
  \/ \E h \in Handles : \/ Open(h) \/ OpenStep(h) \/ OpenFails(h)
                        \/ Close(h) \/ Wipe(h) \/ WipeStep(h) \/ WipeFails(h)
  \/ \E i \in Inits : Initialize(i) \/ InitStep(i) \/ InitFails(i)
  \/ Kill

Spec == Init /\ [][Next]_vars

-----------------------------------------------------------------------------
(* Safety *)

\* Nobody else opens a database with the keychain entry of d.
OwnAlias(d) ==
  /\ ProviderKeys[d] = {}
  /\ \A e \in Dbs : e # d /\ ProviderKeys[e] = {} => Alias[e] # Alias[d]

\* A database that has a keychain entry to itself can always be opened again: no
\* kill between the steps of an open or a wipe, and no wipe of a database whose
\* keyProvider makes its alias unused, leaves a file whose key is not there.
KeyOpensFile ==
  \A d \in Dbs : OwnAlias(d) /\ file[d] # None => keychain[Alias[d]] = file[d].key

\* What is committed is the schema of some version, all of it and with its
\* version row: a migration that was killed is begun again from there, and its
\* CREATE TABLEs never meet tables an earlier attempt left.
SchemaMatchesVersion ==
  \A d \in Dbs : file[d] # None => file[d].schema.tables = Schema(file[d].schema.version)

\* A store that open has returned has the schema this library expects, and the key
\* it was made with, over upgrades, downgrades and failed migrations before.
OpenedIsMigrated ==
  \A h \in Handles : At(h, "open") =>
    /\ file[db[h]] # None
    /\ file[db[h]].key = key[h]
    /\ file[db[h]].schema.version = library

\* An older library leaves a newer database alone, until the app is reinstalled.
DowngradeIsHarmless ==
  [][\A d \in Dbs :
       file[d] # None /\ file[d].schema.version > library =>
         file'[d] = file[d] \/ \A e \in Dbs : file'[e] = None]_vars

\* The local identity is never replaced while its database lives, although two
\* calls that make it may both have found none.
IdentityIsForGood ==
  [][\A d \in Dbs :
       (file[d] # None /\ file'[d] # None /\ file[d].identity # None) =>
         file'[d].identity = file[d].identity]_vars

-----------------------------------------------------------------------------
(* Refinement *)

\* The files there are, their keys and the open transactions left out.
content == [d \in {e \in Dbs : file[e] # None} |->
              [tables   |-> file[d].schema.tables,
               version  |-> file[d].schema.version,
               identity |-> file[d].identity]]

Promised == INSTANCE DatabaseFiles WITH
  Identities <- Inits,
  Tables     <- [n \in 0 .. SchemaVersion |-> Schema(n)]

\* Over kills, failures, wipes and changes of the library: a file is never seen with
\* part of a migration, skips no version, passes the version of no library that opens
\* it, and has its identity made once, by a store of the library installed.
ImplementsDatabaseFiles == Promised!Spec

-----------------------------------------------------------------------------
(* The inductive invariant of the proofs *)

\* Two stores are never on one database; a store that ended keeps its name for wipe.
HandlesInv ==
  /\ \A g, h \in Handles : g # h /\ Live(g) /\ Live(h) => db[g] # db[h]
  /\ \A h \in Handles : Live(h) \/ At(h, "closed") => db[h] \in Dbs
  /\ \A i \in Inits : step[i] \in InitSteps => store[i] \in Handles

\* The key a handle resolved is the one in the keychain until the handle is done
\* with it, and from the first write on it is the one of the file.
Keyed == {"probe", "journal", "version", "migrate", "commit", "open"}
KeyInv(h) ==
  /\ pc[h] \in Keyed =>
       key[h] \in Keys /\ (OwnAlias(db[h]) => keychain[Alias[db[h]]] = key[h])
  /\ pc[h] \in {"setItem", "deleteKey"} => ProviderKeys[db[h]] = {}
  /\ At(h, "setItem") /\ OwnAlias(db[h]) => file[db[h]] = None
  /\ At(h, "deleteKey") => file[db[h]] = None
  /\ At(h, "journal") => file[db[h]] = None \/ file[db[h]].key = key[h]
  /\ pc[h] \in Keyed \ {"probe", "journal"} =>
       file[db[h]] # None /\ file[db[h]].key = key[h]

\* The open transaction is the committed schema and the statements since.
MigrationInv(h) ==
  /\ At(h, "migrate") =>
       /\ work[h] \in Schemas
       /\ work[h].version < library
       /\ work[h].version = file[db[h]].schema.version
       /\ executed[h] <= BatchSize(work[h].version)
       /\ work[h].tables = Schema(work[h].version) \cup {work[h].version} \X (1 .. executed[h])
  /\ At(h, "commit") =>
       /\ work[h] \in Schemas
       /\ work[h].version <= library
       /\ work[h].version = file[db[h]].schema.version + 1
       /\ work[h].tables = Schema(work[h].version)
  /\ ~At(h, "migrate") => executed[h] = 0
  /\ At(h, "open") => file[db[h]].schema.version = library
  /\ pc[h] \in {"open", "closed", "deleteDatabase"} =>
       file[db[h]] = None \/ file[db[h]].schema.version <= library

\* The keychain, the files, the handles and the calls agree at every step of open,
\* runMigrations, close, wipe and initializeLocalIdentity.
LifecycleInv ==
  /\ TypeOK
  /\ HandlesInv
  /\ KeyOpensFile
  /\ SchemaMatchesVersion
  /\ \A h \in Handles : KeyInv(h) /\ MigrationInv(h)

=============================================================================
