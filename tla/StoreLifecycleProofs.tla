------------------------ MODULE StoreLifecycleProofs ------------------------
(***************************************************************************)
(* Proofs about the life of a store, for any databases, keys, aliases,     *)
(* schema versions and batches.  LifecycleInv is inductive: while a handle *)
(* is on a database no other is, so what it has resolved and read stays    *)
(* true until it acts on it; every theorem follows from it.                *)
(***************************************************************************)
EXTENDS StoreLifecycle, TLAPS

-----------------------------------------------------------------------------
(* Batches and schemas *)

\* One more statement of a batch is one more table.
LEMMA BatchGrows ==
  ASSUME NEW v, NEW n \in Nat
  PROVE  {v} \X (1 .. n) \cup {<<v, n + 1>>} = {v} \X (1 .. (n + 1))
<1>1. 1 .. (n + 1) = (1 .. n) \cup {n + 1}
  OBVIOUS
<1>. QED
  BY <1>1

\* One more batch is one more version.
LEMMA SchemaGrows ==
  ASSUME NEW v \in Nat
  PROVE  Schema(v + 1) = Schema(v) \cup Batch(v)
<1>1. 0 .. (v + 1 - 1) = (0 .. (v - 1)) \cup {v}
  OBVIOUS
<1>. QED
  BY <1>1 DEF Schema

\* The schema of an empty file is that of version 0.
LEMMA SchemaOfNothing == Schema(0) = {}
<1>1. 0 .. (0 - 1) = {}
  OBVIOUS
<1>. QED
  BY <1>1 DEF Schema

\* The size of a batch is a number; a batch there is belongs to the newest schema.
LEMMA BatchTypes ==
  /\ \A v : BatchSize(v) \in Nat
  /\ \A v \in 0 .. (SchemaVersion - 1), n \in Nat :
       n < BatchSize(v) => <<v, n + 1>> \in Schema(SchemaVersion)
<1>1. \A v : BatchSize(v) \in Nat
  BY LifecycleAssumption DEF BatchSize
<1>2. ASSUME NEW v \in 0 .. (SchemaVersion - 1), NEW n \in Nat, n < BatchSize(v)
      PROVE  <<v, n + 1>> \in Schema(SchemaVersion)
  <2>1. <<v, n + 1>> \in Batch(v)
    BY <1>1, <1>2 DEF Batch
  <2>. QED
    BY <2>1 DEF Schema
<1>. QED
  BY <1>1, <1>2

\* A transaction changes the schema of a file and nothing else of it.
LEMMA WithSchemaIs ==
  ASSUME NEW f \in Files, NEW schema \in Schemas
  PROVE  /\ WithSchema(f, schema) \in Files
         /\ WithSchema(f, schema).key = f.key
         /\ WithSchema(f, schema).schema = schema
         /\ WithSchema(f, schema).identity = f.identity
BY DEF WithSchema, Files

\* The INSERT of the local identity changes that row and nothing else of a file.
LEMMA WithIdentityIs ==
  ASSUME NEW f \in Files, NEW i \in Inits
  PROVE  /\ WithIdentity(f, i) \in Files
         /\ WithIdentity(f, i).key = f.key
         /\ WithIdentity(f, i).schema = f.schema
         /\ WithIdentity(f, i).identity = i
BY DEF WithIdentity, Files

-----------------------------------------------------------------------------
(* Steps that leave the keychain and the files alone *)

\* A handle that another handle's step has left alone keeps its invariants.
LEMMA OtherHandle ==
  ASSUME NEW h \in Handles, KeyInv(h), MigrationInv(h),
         UNCHANGED <<pc[h], db[h], key[h], executed[h], work[h], library>>,
         UNCHANGED <<keychain, file>>
  PROVE  (KeyInv(h) /\ MigrationInv(h))'
BY DEF KeyInv, MigrationInv, At, Keyed, OwnAlias

\* A step of an open that only the handle itself can see.
LEMMA LocalStep ==
  ASSUME LifecycleInv, NEW h \in Handles, pc[h] \in Opening,
         NEW label \in Opening \cup {"open"}, Goto(h, label),
         NEW k \in Keys \cup {None}, key' = [key EXCEPT ![h] = k],
         NEW n \in Nat, executed' = [executed EXCEPT ![h] = n],
         NEW w \in Schemas \cup {None}, work' = [work EXCEPT ![h] = w],
         UNCHANGED <<keychain, file, library, db, initVars>>,
         (KeyInv(h) /\ MigrationInv(h))'
  PROVE  LifecycleInv'
<1>. USE DEF At, Goto, Live, Opening, Wiping
<1>1. TypeOK'
  BY DEF LifecycleInv, TypeOK, initVars
<1>2. HandlesInv'
  BY DEF LifecycleInv, TypeOK, HandlesInv, initVars
<1>3. (KeyOpensFile /\ SchemaMatchesVersion)'
  BY DEF LifecycleInv, KeyOpensFile, SchemaMatchesVersion, OwnAlias
<1>4. ASSUME NEW g \in Handles, g # h PROVE (KeyInv(g) /\ MigrationInv(g))'
  BY <1>4, OtherHandle DEF LifecycleInv, TypeOK
<1>. QED
  BY <1>1, <1>2, <1>3, <1>4 DEF LifecycleInv

\* A step that writes the file of the handle's database.  A handle that was closed
\* on this database may still wipe it; all others are on other databases.
LEMMA FileStep ==
  ASSUME LifecycleInv, NEW h \in Handles, Live(h),
         NEW f \in Files \cup {None}, file' = [file EXCEPT ![db[h]] = f],
         f # None => /\ f.schema.version <= library
                     /\ f.schema.tables = Schema(f.schema.version)
                     /\ OwnAlias(db[h]) => keychain[Alias[db[h]]] = f.key,
         NEW label \in Opening \cup Wiping \cup {"open", "closed"}, Goto(h, label),
         NEW w \in Schemas \cup {None}, work' = [work EXCEPT ![h] = w],
         UNCHANGED <<keychain, library, db, key, executed, initVars>>,
         (KeyInv(h) /\ MigrationInv(h))'
  PROVE  LifecycleInv'
<1>. USE DEF At, Goto, Live, Opening, Wiping
<1>1. TypeOK'
  BY DEF LifecycleInv, TypeOK, initVars
<1>2. HandlesInv'
  BY DEF LifecycleInv, TypeOK, HandlesInv, initVars
<1>3. db[h] \in Dbs /\ file'[db[h]] = f /\ \A d \in Dbs : d # db[h] => file'[d] = file[d]
  BY DEF LifecycleInv, TypeOK, HandlesInv
<1>4. (KeyOpensFile /\ SchemaMatchesVersion)'
  BY <1>3 DEF LifecycleInv, KeyOpensFile, SchemaMatchesVersion, OwnAlias
<1>5. ASSUME NEW g \in Handles, g # h PROVE (KeyInv(g) /\ MigrationInv(g))'
  <2>. UNCHANGED <<pc[g], db[g], key[g], executed[g], work[g]>>
    BY <1>5 DEF LifecycleInv, TypeOK
  <2>1. CASE Live(g)
    <3>1. file'[db[g]] = file[db[g]]
      BY <2>1, <1>3, <1>5 DEF LifecycleInv, HandlesInv
    <3>2. KeyInv(g)'
      BY <3>1 DEF LifecycleInv, KeyInv, Keyed, OwnAlias
    <3>3. MigrationInv(g)'
      BY <3>1 DEF LifecycleInv, MigrationInv
    <3>. QED  BY <3>2, <3>3
  <2>2. CASE At(g, "closed")
    <3>1. file'[db[g]] = None \/ file'[db[g]].schema.version <= library
      BY <2>2, <1>3 DEF LifecycleInv, HandlesInv, MigrationInv
    <3>. QED
      BY <2>2, <3>1 DEF LifecycleInv, KeyInv, MigrationInv, Keyed
  <2>3. CASE ~Live(g) /\ ~At(g, "closed")
    BY <2>3 DEF LifecycleInv, KeyInv, MigrationInv, Keyed
  <2>. QED  BY <2>1, <2>2, <2>3
<1>. QED
  BY <1>1, <1>2, <1>4, <1>5 DEF LifecycleInv

\* A step that writes the keychain entry of a database without a keyProvider: nobody
\* else is on a database that has this entry to itself.
LEMMA KeychainStep ==
  ASSUME LifecycleInv, NEW h \in Handles, Live(h),
         ProviderKeys[db[h]] = {}, OwnAlias(db[h]) => file[db[h]] = None,
         NEW x \in Keys \cup {None}, keychain' = [keychain EXCEPT ![Alias[db[h]]] = x],
         NEW k \in Keys \cup {None}, key' = [key EXCEPT ![h] = k],
         NEW label \in Opening \cup {"closed"}, Goto(h, label),
         UNCHANGED <<file, library, db, executed, work, initVars>>,
         (KeyInv(h) /\ MigrationInv(h))'
  PROVE  LifecycleInv'
<1>. USE DEF At, Goto, Live, Opening, Wiping
<1>1. TypeOK'
  BY LifecycleAssumption DEF LifecycleInv, TypeOK, initVars
<1>2. HandlesInv'
  BY DEF LifecycleInv, TypeOK, HandlesInv, initVars
<1>3. db[h] \in Dbs
  BY DEF LifecycleInv, HandlesInv
<1>4. ASSUME NEW d \in Dbs, d # db[h], OwnAlias(d)
      PROVE  keychain'[Alias[d]] = keychain[Alias[d]]
  <2>1. Alias[d] # Alias[db[h]]
    BY <1>3, <1>4 DEF OwnAlias
  <2>. QED
    BY <2>1, LifecycleAssumption DEF LifecycleInv, TypeOK
<1>5. (KeyOpensFile /\ SchemaMatchesVersion)'
  BY <1>4 DEF LifecycleInv, KeyOpensFile, SchemaMatchesVersion, OwnAlias
<1>6. ASSUME NEW g \in Handles, g # h PROVE (KeyInv(g) /\ MigrationInv(g))'
  <2>. UNCHANGED <<pc[g], db[g], key[g], executed[g], work[g]>>
    BY <1>6 DEF LifecycleInv, TypeOK
  <2>1. ASSUME pc[g] \in Keyed PROVE key[g] \in Keys /\ db[g] \in Dbs /\ db[g] # db[h]
    BY <2>1, <1>6 DEF LifecycleInv, HandlesInv, KeyInv, Keyed
  <2>2. ASSUME pc[g] \in Keyed, OwnAlias(db[g]) PROVE keychain'[Alias[db[g]]] = key[g]
    BY <2>1, <2>2, <1>4 DEF LifecycleInv, KeyInv
  <2>3. KeyInv(g)'
    BY <2>1, <2>2 DEF LifecycleInv, KeyInv, OwnAlias
  <2>. QED
    BY <2>3 DEF LifecycleInv, MigrationInv
<1>. QED
  BY <1>1, <1>2, <1>5, <1>6 DEF LifecycleInv

\* A failed open lets its database go.
LEMMA FailPreserves ==
  ASSUME LifecycleInv, NEW h \in Handles, pc[h] \in Opening, Fail(h),
         UNCHANGED <<keychain, file, library, initVars>>
  PROVE  LifecycleInv'
<1>. USE DEF At, Goto, Live, Opening, Wiping, Fail
<1>1. TypeOK'
  BY DEF LifecycleInv, TypeOK, initVars
<1>2. HandlesInv'
  BY DEF LifecycleInv, TypeOK, HandlesInv, initVars
<1>3. (KeyOpensFile /\ SchemaMatchesVersion)'
  BY DEF LifecycleInv, KeyOpensFile, SchemaMatchesVersion, OwnAlias
<1>4. ASSUME NEW g \in Handles PROVE (KeyInv(g) /\ MigrationInv(g))'
  <2>1. CASE g = h
    BY <2>1 DEF LifecycleInv, TypeOK, KeyInv, MigrationInv, Keyed
  <2>2. CASE g # h
    BY <2>2, OtherHandle DEF LifecycleInv, TypeOK
  <2>. QED  BY <2>1, <2>2
<1>. QED
  BY <1>1, <1>2, <1>3, <1>4 DEF LifecycleInv

-----------------------------------------------------------------------------
(* The steps of open *)

\* open takes a database that no other handle is on.
LEMMA OpenPreserves ==
  ASSUME LifecycleInv, NEW h \in Handles, Open(h)
  PROVE  LifecycleInv'
<1>. USE DEF At, Goto, Live, Opening, Wiping
<1>1. TypeOK'
  BY LifecycleAssumption DEF LifecycleInv, TypeOK, Open, initVars
<1>2. HandlesInv'
  BY DEF LifecycleInv, TypeOK, HandlesInv, Open, initVars
<1>3. (KeyOpensFile /\ SchemaMatchesVersion)'
  BY DEF LifecycleInv, KeyOpensFile, SchemaMatchesVersion, Open, OwnAlias
<1>4. ASSUME NEW g \in Handles PROVE (KeyInv(g) /\ MigrationInv(g))'
  <2>1. CASE g = h
    BY <2>1 DEF LifecycleInv, TypeOK, HandlesInv, KeyInv, MigrationInv, Open, Keyed, OwnAlias
  <2>2. CASE g # h
    BY <2>2, OtherHandle DEF LifecycleInv, TypeOK, Open
  <2>. QED  BY <2>1, <2>2
<1>. QED
  BY <1>1, <1>2, <1>3, <1>4 DEF LifecycleInv

\* A database that has its alias to itself and no key yet has no file either.
LEMMA GetItemPreserves ==
  ASSUME LifecycleInv, NEW h \in Handles, GetItem(h)
  PROVE  LifecycleInv'
<1> DEFINE d == db[h]
           missing == ProviderKeys[d] = {} /\ keychain[Alias[d]] = None
<1>1. pc[h] = "getItem" /\ d \in Dbs /\ pc[h] \in Opening /\ executed[h] = 0
  BY DEF GetItem, At, LifecycleInv, HandlesInv, Live, Opening, MigrationInv
<1>2. CASE missing
  <2>1. Goto(h, "setItem") /\ UNCHANGED key
    BY <1>2 DEF GetItem
  <2>2. OwnAlias(d) => file[d] = None
    BY <1>1, <1>2, LifecycleAssumption DEF LifecycleInv, KeyOpensFile, TypeOK, Files
  <2>3. (KeyInv(h) /\ MigrationInv(h))'
    BY <1>1, <1>2, <2>1, <2>2
       DEF GetItem, Goto, At, LifecycleInv, TypeOK, KeyInv, MigrationInv, Keyed, OwnAlias
  <2>. QED
    BY <1>1, <2>1, <2>3, LocalStep DEF GetItem, LifecycleInv, TypeOK, Opening
<1>3. CASE ~missing
  <2>1. PICK k \in Keys : /\ key' = [key EXCEPT ![h] = k]
                          /\ ProviderKeys[d] = {} => k = keychain[Alias[d]]
    BY <1>1, <1>3, LifecycleAssumption DEF GetItem, LifecycleInv, TypeOK
  <2>2. Goto(h, "probe")
    BY <1>1, <1>3, LifecycleAssumption DEF GetItem, LifecycleInv, TypeOK
  <2>3. (KeyInv(h) /\ MigrationInv(h))'
    BY <1>1, <2>1, <2>2
       DEF GetItem, Goto, At, LifecycleInv, TypeOK, KeyInv, MigrationInv, Keyed, OwnAlias
  <2>4. /\ executed[h] \in Nat /\ executed' = [executed EXCEPT ![h] = executed[h]]
        /\ work[h] \in Schemas \cup {None} /\ work' = [work EXCEPT ![h] = work[h]]
        /\ UNCHANGED <<keychain, file, library, db, initVars>>
    BY DEF GetItem, LifecycleInv, TypeOK
  <2>5. "probe" \in Opening \cup {"open"}
    BY DEF Opening
  <2>. QED
    BY <1>1, <2>1, <2>2, <2>3, <2>4, <2>5, LocalStep
<1>. QED  BY <1>2, <1>3

\* A generated key is stored before anything is encrypted with it.
LEMMA SetItemPreserves ==
  ASSUME LifecycleInv, NEW h \in Handles, SetItem(h)
  PROVE  LifecycleInv'
<1>1. /\ pc[h] = "setItem" /\ db[h] \in Dbs /\ Live(h) /\ executed[h] = 0
      /\ ProviderKeys[db[h]] = {} /\ (OwnAlias(db[h]) => file[db[h]] = None)
  BY DEF SetItem, At, LifecycleInv, HandlesInv, Live, Opening, MigrationInv, KeyInv
<1>2. PICK k \in Keys : /\ keychain' = [keychain EXCEPT ![Alias[db[h]]] = k]
                        /\ key' = [key EXCEPT ![h] = k]
  BY DEF SetItem
<1>3. (KeyInv(h) /\ MigrationInv(h))'
  BY <1>1, <1>2, LifecycleAssumption
     DEF SetItem, Goto, At, LifecycleInv, TypeOK, KeyInv, MigrationInv, Keyed, OwnAlias
<1>. QED
  BY <1>1, <1>2, <1>3, KeychainStep DEF SetItem, LifecycleInv, TypeOK, Opening

\* The probe lets a handle on only to a new file or one with its key.
LEMMA ProbePreserves ==
  ASSUME LifecycleInv, NEW h \in Handles, Probe(h)
  PROVE  LifecycleInv'
<1>1. pc[h] = "probe" /\ pc[h] \in Opening
  BY DEF Probe, At, Opening
<1>2. CASE Fail(h)
  BY <1>1, <1>2, FailPreserves DEF Probe
<1>3. CASE ~Fail(h)
  <2>1. /\ file[db[h]] # None => file[db[h]].key = key[h]
        /\ Goto(h, "journal")
        /\ UNCHANGED <<db, key, executed, work>>
    BY <1>3 DEF Probe
  <2>2. (KeyInv(h) /\ MigrationInv(h))'
    BY <1>1, <2>1
       DEF Probe, Goto, At, LifecycleInv, TypeOK, KeyInv, MigrationInv, Keyed, OwnAlias
  <2>. QED
    BY <1>1, <2>1, <2>2, LocalStep DEF Probe, LifecycleInv, TypeOK, Opening
<1>. QED  BY <1>2, <1>3

\* The first write of a new file is encrypted with the key that is in the keychain.
LEMMA JournalPreserves ==
  ASSUME LifecycleInv, NEW h \in Handles, Journal(h)
  PROVE  LifecycleInv'
<1>1. pc[h] = "journal" /\ pc[h] \in Opening /\ Live(h) /\ db[h] \in Dbs /\ executed[h] = 0
  BY DEF Journal, At, Opening, Live, LifecycleInv, HandlesInv, MigrationInv
<1>2. CASE file[db[h]] # None
  <2>1. (KeyInv(h) /\ MigrationInv(h))'
    BY <1>1, <1>2
       DEF Journal, Goto, At, LifecycleInv, TypeOK, KeyInv, MigrationInv, Keyed, OwnAlias
  <2>. QED
    BY <1>1, <1>2, <2>1, LocalStep DEF Journal, LifecycleInv, TypeOK, Opening
<1>3. CASE file[db[h]] = None
  <2> DEFINE empty == [tables |-> {}, version |-> 0]
             f == [key |-> key[h], identity |-> None, schema |-> empty]
  <2>1. empty \in Schemas /\ empty.version = 0 /\ empty.tables = {}
    BY LifecycleAssumption DEF Schemas
  <2>2. /\ f \in Files /\ f.key = key[h] /\ f.schema.version = 0
        /\ f.schema.tables = Schema(0)
    BY <1>1, <2>1, SchemaOfNothing DEF Files, LifecycleInv, KeyInv, Keyed
  <2>3. file' = [file EXCEPT ![db[h]] = f] /\ Goto(h, "version")
    BY <1>3 DEF Journal
  <2>4. f # None
    BY <2>2, FileAssumption
  <2>. HIDE DEF f
  <2>5. OwnAlias(db[h]) => keychain[Alias[db[h]]] = f.key
    BY <1>1, <2>2 DEF LifecycleInv, KeyInv, Keyed
  <2>6. /\ file'[db[h]] = f /\ pc'[h] = "version"
        /\ UNCHANGED <<keychain, library, db, key, executed, work, initVars>>
    BY <1>1, <2>3 DEF Journal, Goto, LifecycleInv, TypeOK
  <2>7. KeyInv(h)'
    BY <1>1, <2>2, <2>4, <2>6 DEF LifecycleInv, At, KeyInv, Keyed, OwnAlias
  <2>8. MigrationInv(h)'
    BY <1>1, <2>6 DEF LifecycleInv, At, MigrationInv
  <2>9. f.schema.version <= library /\ f.schema.tables = Schema(f.schema.version)
    BY <2>2, LifecycleAssumption DEF LifecycleInv, TypeOK
  <2>10. work[h] \in Schemas \cup {None} /\ work' = [work EXCEPT ![h] = work[h]]
    BY <2>6 DEF LifecycleInv, TypeOK
  <2>11. "version" \in Opening \cup Wiping \cup {"open", "closed"}
    BY DEF Opening
  <2>. QED
    BY <1>1, <2>2, <2>3, <2>5, <2>6, <2>7, <2>8, <2>9, <2>10, <2>11, FileStep
<1>. QED  BY <1>2, <1>3

\* A newer schema is refused, a current one is enough, an older one is migrated.
LEMMA ReadVersionPreserves ==
  ASSUME LifecycleInv, NEW h \in Handles, ReadVersion(h)
  PROVE  LifecycleInv'
<1> DEFINE schema == file[db[h]].schema
<1>1. /\ pc[h] = "version" /\ pc[h] \in Opening /\ executed[h] = 0
      /\ db[h] \in Dbs /\ file[db[h]] \in Files
  BY DEF ReadVersion, At, Opening, LifecycleInv, TypeOK, HandlesInv, Live, MigrationInv,
         KeyInv, Keyed
<1>2. /\ schema \in Schemas /\ schema.version \in Nat
      /\ schema.tables = Schema(schema.version)
  BY <1>1, FileAssumption DEF Files, Schemas, LifecycleInv, SchemaMatchesVersion
<1>3. /\ UNCHANGED <<keychain, file, library, initVars>> /\ library \in Nat
      /\ executed[h] \in Nat /\ key[h] \in Keys \cup {None}
      /\ work[h] \in Schemas \cup {None}
      /\ key = [key EXCEPT ![h] = key[h]] /\ executed = [executed EXCEPT ![h] = executed[h]]
      /\ work = [work EXCEPT ![h] = work[h]]
      /\ "migrate" \in Opening \cup {"open"}
  BY LifecycleAssumption DEF ReadVersion, LifecycleInv, TypeOK, Opening
<1>. HIDE DEF schema
<1>4. CASE Fail(h)
  BY <1>1, <1>3, <1>4, FailPreserves
<1>5. CASE schema.version = library /\ Goto(h, "open") /\ UNCHANGED <<db, key, executed, work>>
  <2>1. pc'[h] = "open"
    BY <1>5 DEF Goto, LifecycleInv, TypeOK
  <2>2. KeyInv(h)'
    BY <1>1, <1>3, <1>5, <2>1 DEF At, LifecycleInv, KeyInv, Keyed, OwnAlias
  <2>3. MigrationInv(h)'
    BY <1>1, <1>2, <1>3, <1>5, <2>1 DEF At, MigrationInv, schema
  <2>. QED
    BY <1>1, <1>3, <1>5, <2>2, <2>3, LocalStep
<1>6. CASE /\ schema.version < library /\ Goto(h, "migrate")
           /\ work' = [work EXCEPT ![h] = schema] /\ UNCHANGED <<db, key, executed>>
  <2>1. pc'[h] = "migrate" /\ work'[h] = schema
    BY <1>6 DEF Goto, LifecycleInv, TypeOK
  <2>2. KeyInv(h)'
    BY <1>1, <1>3, <1>6, <2>1 DEF At, LifecycleInv, KeyInv, Keyed, OwnAlias
  <2>3. schema.tables = Schema(schema.version) \cup {schema.version} \X (1 .. 0)
    BY <1>2
  <2>4. BatchSize(schema.version) >= 0
    BY BatchTypes
  <2>5. MigrationInv(h)'
    BY <1>1, <1>2, <1>3, <1>6, <2>1, <2>3, <2>4 DEF At, MigrationInv, schema
  <2>. QED
    BY <1>1, <1>2, <1>3, <1>6, <2>2, <2>5, LocalStep
<1>. QED
  BY <1>4, <1>5, <1>6 DEF ReadVersion, schema

\* A statement is executed in the transaction, or fails it.
LEMMA ExecStatementPreserves ==
  ASSUME LifecycleInv, NEW h \in Handles, ExecStatement(h)
  PROVE  LifecycleInv'
<1> DEFINE v == work[h].version
           table == <<v, executed[h] + 1>>
           w == [tables |-> work[h].tables \cup {table}, version |-> v]
<1>1. pc[h] = "migrate" /\ pc[h] \in Opening /\ executed[h] \in Nat /\ executed[h] < BatchSize(v)
  BY DEF ExecStatement, At, Opening, LifecycleInv, TypeOK
<1>2. /\ work[h] \in Schemas /\ v < library /\ v = file[db[h]].schema.version
      /\ work[h].tables = Schema(v) \cup {v} \X (1 .. executed[h])
  BY <1>1 DEF At, LifecycleInv, MigrationInv
<1>3. v \in 0 .. (SchemaVersion - 1) /\ v \in Nat
  BY <1>2, LifecycleAssumption DEF LifecycleInv, TypeOK, Schemas
<1>4. table \in Schema(SchemaVersion)
  BY <1>1, <1>3, BatchTypes
<1>5. /\ w \in Schemas /\ w.version = v
      /\ w.tables = Schema(v) \cup {v} \X (1 .. (executed[h] + 1))
  <2>1. w.tables = Schema(v) \cup ({v} \X (1 .. executed[h]) \cup {table})
    BY <1>2
  <2>2. {v} \X (1 .. executed[h]) \cup {table} = {v} \X (1 .. (executed[h] + 1))
    BY <1>1, BatchGrows
  <2>3. w \in Schemas
    BY <1>2, <1>4 DEF Schemas
  <2>. QED
    BY <2>1, <2>2, <2>3
<1>6. /\ UNCHANGED <<keychain, file, library, initVars>> /\ library \in Nat
      /\ key[h] \in Keys \cup {None} /\ key = [key EXCEPT ![h] = key[h]]
      /\ "migrate" \in Opening \cup {"open"} /\ pc = [pc EXCEPT ![h] = "migrate"]
  BY <1>1, LifecycleAssumption DEF ExecStatement, LifecycleInv, TypeOK, Opening
<1>7. CASE Fail(h)
  BY <1>1, <1>6, <1>7, FailPreserves
<1>8. CASE /\ work' = [work EXCEPT ![h] = w]
           /\ executed' = [executed EXCEPT ![h] = executed[h] + 1]
           /\ UNCHANGED <<pc, db, key>>
  <2>. HIDE DEF w
  <2>1. work'[h] = w /\ executed'[h] = executed[h] + 1
    BY <1>8 DEF LifecycleInv, TypeOK
  <2>2. KeyInv(h)'
    BY <1>6, <1>8 DEF At, LifecycleInv, KeyInv, OwnAlias
  <2>3. executed[h] + 1 <= BatchSize(v) /\ executed[h] + 1 \in Nat
    BY <1>1, BatchTypes
  <2>. HIDE DEF v
  <2>4. MigrationInv(h)'
    BY <1>1, <1>2, <1>5, <1>6, <1>8, <2>1, <2>3 DEF At, MigrationInv
  <2>. QED
    BY <1>1, <1>5, <1>6, <1>8, <2>2, <2>3, <2>4, LocalStep DEF Goto
<1>. QED
  BY <1>7, <1>8 DEF ExecStatement

\* After the last statement the transaction holds the whole next schema.
LEMMA StampVersionPreserves ==
  ASSUME LifecycleInv, NEW h \in Handles, StampVersion(h)
  PROVE  LifecycleInv'
<1> DEFINE v == work[h].version
           w == [tables |-> work[h].tables, version |-> v + 1]
<1>1. pc[h] = "migrate" /\ pc[h] \in Opening /\ executed[h] = BatchSize(v)
  BY DEF StampVersion, At, Opening
<1>2. /\ work[h] \in Schemas /\ v < library /\ v = file[db[h]].schema.version
      /\ work[h].tables = Schema(v) \cup {v} \X (1 .. executed[h])
  BY <1>1 DEF At, LifecycleInv, MigrationInv
<1>3. v \in Nat /\ v + 1 \in 0 .. SchemaVersion /\ v + 1 <= library
  BY <1>2, LifecycleAssumption DEF LifecycleInv, TypeOK, Schemas
<1>4. work[h].tables = Schema(v + 1)
  BY <1>1, <1>2, <1>3, SchemaGrows DEF Batch
<1>5. w \in Schemas /\ w.version = v + 1 /\ w.tables = Schema(v + 1)
  BY <1>2, <1>3, <1>4 DEF Schemas
<1>6. /\ UNCHANGED <<keychain, file, library, db, key, initVars>>
      /\ work' = [work EXCEPT ![h] = w] /\ work'[h] = w
      /\ executed' = [executed EXCEPT ![h] = 0] /\ executed'[h] = 0
      /\ Goto(h, "commit") /\ pc'[h] = "commit"
  BY DEF StampVersion, Goto, LifecycleInv, TypeOK
<1>7. /\ key[h] \in Keys \cup {None} /\ key = [key EXCEPT ![h] = key[h]]
      /\ "commit" \in Opening \cup {"open"} /\ 0 \in Nat
  BY DEF LifecycleInv, TypeOK, Opening
<1>. HIDE DEF w, v
<1>8. KeyInv(h)'
  BY <1>1, <1>6 DEF At, LifecycleInv, KeyInv, Keyed, OwnAlias
<1>9. MigrationInv(h)'
  BY <1>2, <1>3, <1>5, <1>6 DEF At, MigrationInv
<1>. QED
  BY <1>1, <1>5, <1>6, <1>7, <1>8, <1>9, LocalStep

\* The transaction becomes the file's schema, whole.
LEMMA CommitPreserves ==
  ASSUME LifecycleInv, NEW h \in Handles, Commit(h)
  PROVE  LifecycleInv'
<1> DEFINE more == work[h].version < library
           f == WithSchema(file[db[h]], work[h])
           label == IF more THEN "migrate" ELSE "open"
           w == IF more THEN work[h] ELSE None
<1>1. /\ pc[h] = "commit" /\ Live(h) /\ executed[h] = 0
      /\ db[h] \in Dbs /\ file[db[h]] \in Files /\ file[db[h]].key = key[h]
  BY DEF Commit, CommitThen, At, Opening, Live, LifecycleInv, TypeOK, HandlesInv, MigrationInv, KeyInv, Keyed
<1>2. /\ work[h] \in Schemas /\ work[h].version <= library
      /\ work[h].tables = Schema(work[h].version)
  BY <1>1 DEF At, LifecycleInv, MigrationInv
<1>3. f \in Files /\ f.key = key[h] /\ f.schema = work[h]
  BY <1>1, <1>2, WithSchemaIs
<1>4. f # None
  BY <1>3, FileAssumption
<1>5. /\ UNCHANGED <<keychain, library, db, key, executed, initVars>>
      /\ file' = [file EXCEPT ![db[h]] = f] /\ file'[db[h]] = f
      /\ Goto(h, label) /\ pc'[h] = label
      /\ work' = [work EXCEPT ![h] = w] /\ work'[h] = w
  BY <1>1 DEF Commit, CommitThen, Goto, LifecycleInv, TypeOK
<1>6. /\ w \in Schemas \cup {None} /\ label \in Opening \cup Wiping \cup {"open", "closed"}
      /\ library \in Nat /\ work[h].version \in Nat
  BY <1>2, LifecycleAssumption DEF Opening, LifecycleInv, TypeOK, Schemas
<1>. HIDE DEF f
<1>7. OwnAlias(db[h]) => keychain[Alias[db[h]]] = f.key
  BY <1>1, <1>3 DEF LifecycleInv, KeyInv, Keyed
<1>8. KeyInv(h)'
  BY <1>1, <1>3, <1>4, <1>5 DEF At, LifecycleInv, KeyInv, Keyed, OwnAlias
<1>9. MigrationInv(h)'
  <2>1. work[h].tables = Schema(work[h].version) \cup {work[h].version} \X (1 .. 0)
    BY <1>2
  <2>2. 0 <= BatchSize(work[h].version)
    BY BatchTypes
  <2>3. CASE more
    BY <1>1, <1>2, <1>3, <1>5, <1>6, <2>1, <2>2, <2>3 DEF At, MigrationInv
  <2>4. CASE ~more
    BY <1>1, <1>2, <1>3, <1>5, <1>6, <2>4 DEF At, MigrationInv
  <2>. QED  BY <2>3, <2>4
<1>. QED
  BY <1>1, <1>2, <1>3, <1>5, <1>6, <1>7, <1>8, <1>9, FileStep

\* An await of open may reject.
LEMMA OpenFailsPreserves ==
  ASSUME LifecycleInv, NEW h \in Handles, OpenFails(h)
  PROVE  LifecycleInv'
BY FailPreserves DEF OpenFails

-----------------------------------------------------------------------------
(* The steps of close and wipe *)

\* A closed store keeps the name of its database.
LEMMA ClosePreserves ==
  ASSUME LifecycleInv, NEW h \in Handles, Close(h)
  PROVE  LifecycleInv'
<1>. USE DEF At, Goto, Live, Opening, Wiping
<1>1. TypeOK'
  BY LifecycleAssumption DEF LifecycleInv, TypeOK, Close, initVars
<1>2. HandlesInv'
  BY DEF LifecycleInv, TypeOK, HandlesInv, Close, initVars
<1>3. (KeyOpensFile /\ SchemaMatchesVersion)'
  BY DEF LifecycleInv, KeyOpensFile, SchemaMatchesVersion, Close, OwnAlias
<1>4. ASSUME NEW g \in Handles PROVE (KeyInv(g) /\ MigrationInv(g))'
  <2>1. CASE g = h
    BY <2>1 DEF LifecycleInv, TypeOK, HandlesInv, KeyInv, MigrationInv, Close, Keyed, OwnAlias
  <2>2. CASE g # h
    BY <2>2, OtherHandle DEF LifecycleInv, TypeOK, Close
  <2>. QED  BY <2>1, <2>2
<1>. QED
  BY <1>1, <1>2, <1>3, <1>4 DEF LifecycleInv

\* wipe starts from an open store or from one that was closed.
LEMMA WipePreserves ==
  ASSUME LifecycleInv, NEW h \in Handles, Wipe(h)
  PROVE  LifecycleInv'
<1>. USE DEF At, Goto, Live, Opening, Wiping
<1>1. TypeOK'
  BY LifecycleAssumption DEF LifecycleInv, TypeOK, Wipe, WipeFrom, initVars
<1>2. HandlesInv'
  BY DEF LifecycleInv, TypeOK, HandlesInv, Wipe, WipeFrom, initVars
<1>3. (KeyOpensFile /\ SchemaMatchesVersion)'
  BY DEF LifecycleInv, KeyOpensFile, SchemaMatchesVersion, Wipe, WipeFrom, OwnAlias
<1>4. ASSUME NEW g \in Handles PROVE (KeyInv(g) /\ MigrationInv(g))'
  <2>1. CASE g = h
    BY <2>1 DEF LifecycleInv, TypeOK, HandlesInv, KeyInv, MigrationInv, Wipe, WipeFrom, Keyed, OwnAlias
  <2>2. CASE g # h
    BY <2>2, OtherHandle DEF LifecycleInv, TypeOK, Wipe, WipeFrom
  <2>. QED  BY <2>1, <2>2
<1>. QED
  BY <1>1, <1>2, <1>3, <1>4 DEF LifecycleInv

\* A wipe that is stopped leaves what it has not deleted.
LEMMA WipeFailsPreserves ==
  ASSUME LifecycleInv, NEW h \in Handles, WipeFails(h)
  PROVE  LifecycleInv'
<1>. USE DEF At, Goto, Live, Opening, Wiping
<1>1. TypeOK'
  BY LifecycleAssumption DEF LifecycleInv, TypeOK, WipeFails, initVars
<1>2. HandlesInv'
  BY DEF LifecycleInv, TypeOK, HandlesInv, WipeFails, initVars
<1>3. (KeyOpensFile /\ SchemaMatchesVersion)'
  BY DEF LifecycleInv, KeyOpensFile, SchemaMatchesVersion, WipeFails, OwnAlias
<1>4. ASSUME NEW g \in Handles PROVE (KeyInv(g) /\ MigrationInv(g))'
  <2>1. CASE g = h
    BY <2>1 DEF LifecycleInv, TypeOK, HandlesInv, KeyInv, MigrationInv, WipeFails, Keyed, OwnAlias
  <2>2. CASE g # h
    BY <2>2, OtherHandle DEF LifecycleInv, TypeOK, WipeFails
  <2>. QED  BY <2>1, <2>2
<1>. QED
  BY <1>1, <1>2, <1>3, <1>4 DEF LifecycleInv

\* The file goes first: where the key is deleted next there is none.
LEMMA DeleteDatabasePreserves ==
  ASSUME LifecycleInv, NEW h \in Handles, DeleteDatabase(h)
  PROVE  LifecycleInv'
<1> DEFINE label == IF ProviderKeys[db[h]] # {} THEN "closed" ELSE "deleteKey"
<1>1. pc[h] = "deleteDatabase" /\ Live(h) /\ executed[h] = 0 /\ db[h] \in Dbs
  BY DEF DeleteDatabase, DeleteDatabaseThen, At, Wiping, Live, LifecycleInv, HandlesInv, MigrationInv
<1>2. /\ UNCHANGED <<keychain, library, db, key, executed, work, initVars>>
      /\ file' = [file EXCEPT ![db[h]] = None] /\ file'[db[h]] = None
      /\ Goto(h, label) /\ pc'[h] = label
  BY <1>1 DEF DeleteDatabase, DeleteDatabaseThen, Goto, LifecycleInv, TypeOK
<1>3. /\ label \in Opening \cup Wiping \cup {"open", "closed"}
      /\ work[h] \in Schemas \cup {None} /\ work = [work EXCEPT ![h] = work[h]]
  BY DEF Wiping, LifecycleInv, TypeOK
<1>4. (KeyInv(h) /\ MigrationInv(h))'
  BY <1>1, <1>2 DEF At, KeyInv, MigrationInv, Keyed
<1>. QED
  BY <1>1, <1>2, <1>3, <1>4, FileStep

\* The key that is deleted belongs to no file.
LEMMA DeleteDatabaseKeyPreserves ==
  ASSUME LifecycleInv, NEW h \in Handles, DeleteDatabaseKey(h)
  PROVE  LifecycleInv'
<1>1. /\ pc[h] = "deleteKey" /\ Live(h) /\ executed[h] = 0
      /\ ProviderKeys[db[h]] = {} /\ file[db[h]] = None
  BY DEF DeleteDatabaseKey, At, Wiping, Live, LifecycleInv, KeyInv, MigrationInv
<1>2. /\ UNCHANGED <<file, library, db, key, executed, work, initVars>>
      /\ keychain' = [keychain EXCEPT ![Alias[db[h]]] = None]
      /\ Goto(h, "closed") /\ pc'[h] = "closed"
  BY DEF DeleteDatabaseKey, Goto, LifecycleInv, TypeOK
<1>3. key[h] \in Keys \cup {None} /\ key = [key EXCEPT ![h] = key[h]]
  BY DEF LifecycleInv, TypeOK
<1>4. (KeyInv(h) /\ MigrationInv(h))'
  BY <1>1, <1>2 DEF At, KeyInv, MigrationInv, Keyed
<1>. QED
  BY <1>1, <1>2, <1>3, <1>4, KeychainStep

-----------------------------------------------------------------------------
(* The local identity *)

\* A step of a call that only the call itself can see.
LEMMA CallStep ==
  ASSUME LifecycleInv, UNCHANGED <<keychain, file, library, handleVars>>,
         NEW i \in Inits,
         NEW label \in {"idle"} \cup InitSteps \cup InitOutcomes, Advance(i, label),
         NEW h \in Handles \cup {None}, store' = [store EXCEPT ![i] = h],
         label \in InitSteps => h \in Handles
  PROVE  LifecycleInv'
<1>1. TypeOK'
  BY DEF LifecycleInv, TypeOK, handleVars, Advance
<1>2. HandlesInv'
  BY DEF LifecycleInv, TypeOK, HandlesInv, handleVars, Advance, Live, At
<1>3. (KeyOpensFile /\ SchemaMatchesVersion)'
  BY DEF LifecycleInv, KeyOpensFile, SchemaMatchesVersion, OwnAlias
<1>4. ASSUME NEW g \in Handles PROVE (KeyInv(g) /\ MigrationInv(g))'
  BY OtherHandle DEF LifecycleInv, handleVars
<1>. QED
  BY <1>1, <1>2, <1>3, <1>4 DEF LifecycleInv

\* A call on the local identity starts on an open store.
LEMMA InitializePreserves ==
  ASSUME LifecycleInv, NEW i \in Inits, Initialize(i)
  PROVE  LifecycleInv'
BY CallStep DEF Initialize, InitSteps

\* Looking for the row changes nothing.
LEMMA LookPreserves ==
  ASSUME LifecycleInv, NEW i \in Inits, IfNeeded(i) \/ CheckInitialized(i) \/ InitFails(i)
  PROVE  LifecycleInv'
<1>1. step[i] \in InitSteps /\ UNCHANGED <<keychain, file, library, handleVars, store>>
  BY DEF IfNeeded, CheckInitialized, InitFails, InitSteps
<1>2. store[i] \in Handles /\ store' = [store EXCEPT ![i] = store[i]]
  BY <1>1 DEF LifecycleInv, HandlesInv, TypeOK
<1>3. \E label \in InitSteps \cup InitOutcomes : Advance(i, label)
  BY DEF IfNeeded, CheckInitialized, InitFails, InitSteps, InitOutcomes
<1>. QED
  BY <1>1, <1>2, <1>3, CallStep

\* The row is inserted in the file of an open store, and nothing else changes in it.
LEMMA InsertIdentityWrites ==
  ASSUME LifecycleInv, NEW i \in Inits, InsertIdentity(i)
  PROVE  /\ UNCHANGED <<keychain, library, handleVars, store>>
         /\ store[i] \in Handles /\ pc[store[i]] = "open" /\ db[store[i]] \in Dbs
         /\ file[db[store[i]]] \in Files
         /\ \E label \in InitOutcomes : Advance(i, label)
         /\ \/ UNCHANGED file
            \/ /\ file[db[store[i]]].identity = None
               /\ file' = [file EXCEPT ![db[store[i]]] = WithIdentity(file[db[store[i]]], i)]
<1>1. store[i] \in Handles
  BY DEF InsertIdentity, LifecycleInv, HandlesInv, InitSteps
<1>2. pc[store[i]] = "open"
  BY DEF InsertIdentity, Usable, At
<1>3. db[store[i]] \in Dbs /\ file[db[store[i]]] \in Files
  BY <1>1, <1>2 DEF LifecycleInv, HandlesInv, KeyInv, Keyed, Live, TypeOK
<1>. QED
  BY <1>1, <1>2, <1>3 DEF InsertIdentity, Row, InitOutcomes

\* An inserted row leaves the key and the schema of the file.
LEMMA InsertIdentityPreserves ==
  ASSUME LifecycleInv, NEW i \in Inits, InsertIdentity(i)
  PROVE  LifecycleInv'
<1> DEFINE d == db[store[i]]
           f == WithIdentity(file[d], i)
<1>1. /\ UNCHANGED <<keychain, library, handleVars, store>>
      /\ store[i] \in Handles /\ d \in Dbs /\ file[d] \in Files
      /\ UNCHANGED file \/ file' = [file EXCEPT ![d] = f]
  BY InsertIdentityWrites
<1>2. PICK label \in InitOutcomes : Advance(i, label)
  BY InsertIdentityWrites
<1>3. f \in Files /\ f # None /\ f.key = file[d].key /\ f.schema = file[d].schema
  BY <1>1, WithIdentityIs, FileAssumption
<1>. HIDE DEF f
\* All that the invariant asks of a file stays as it was.
<1>4. ASSUME NEW e \in Dbs
      PROVE  /\ file'[e] \in Files \cup {None}
             /\ (file'[e] = None) = (file[e] = None)
             /\ file[e] # None => file'[e].key = file[e].key /\ file'[e].schema = file[e].schema
  <2>1. CASE UNCHANGED file
    BY <2>1 DEF LifecycleInv, TypeOK
  <2>2. CASE file' = [file EXCEPT ![d] = f]
    <3>1. file[d] # None
      BY <1>1, FileAssumption
    <3>. QED
      BY <2>2, <1>1, <1>3, <3>1 DEF LifecycleInv, TypeOK
  <2>. QED  BY <1>1, <2>1, <2>2
<1>5. TypeOK'
  <2>1. file' \in [Dbs -> Files \cup {None}]
    BY <1>1, <1>3 DEF LifecycleInv, TypeOK
  <2>. QED
    BY <1>1, <1>2, <2>1 DEF LifecycleInv, TypeOK, handleVars, Advance
<1>6. HandlesInv'
  BY <1>1, <1>2
     DEF LifecycleInv, TypeOK, HandlesInv, handleVars, Advance, Live, At, InitSteps, InitOutcomes
<1>7. (KeyOpensFile /\ SchemaMatchesVersion)'
  BY <1>1, <1>4 DEF LifecycleInv, KeyOpensFile, SchemaMatchesVersion, OwnAlias
<1>8. ASSUME NEW g \in Handles PROVE (KeyInv(g) /\ MigrationInv(g))'
  <2>1. UNCHANGED <<pc[g], db[g], key[g], executed[g], work[g], keychain, library>>
    BY <1>1 DEF handleVars
  <2>2. Live(g) \/ At(g, "closed") => db[g] \in Dbs
    BY DEF LifecycleInv, HandlesInv
  <2>3. KeyInv(g)'
    BY <1>4, <2>1, <2>2
       DEF LifecycleInv, KeyInv, Keyed, OwnAlias, At, Live, Opening, Wiping
  <2>4. MigrationInv(g)'
    <3>1. CASE Live(g) \/ At(g, "closed")
      <4>1. /\ (file'[db[g]] = None) = (file[db[g]] = None)
            /\ file[db[g]] # None => file'[db[g]].schema = file[db[g]].schema
        BY <3>1, <2>2, <1>4
      <4>2. pc[g] \in {"migrate", "commit", "open"} => file[db[g]] # None
        BY DEF LifecycleInv, KeyInv, Keyed
      <4>. QED
        BY <2>1, <4>1, <4>2 DEF LifecycleInv, MigrationInv, At
    <3>2. CASE ~(Live(g) \/ At(g, "closed"))
      BY <3>2, <2>1 DEF LifecycleInv, MigrationInv, At, Live, Opening, Wiping
    <3>. QED  BY <3>1, <3>2
  <2>. QED  BY <2>3, <2>4
<1>. QED
  BY <1>5, <1>6, <1>7, <1>8 DEF LifecycleInv

-----------------------------------------------------------------------------
(* The invariant *)

\* A kill leaves every handle without a database, and files as they were or none.
LEMMA KillPreserves ==
  ASSUME LifecycleInv, Kill
  PROVE  LifecycleInv'
<1>1. /\ file' = file /\ keychain' = keychain
      \/ /\ file' = [d \in Dbs |-> None]
         /\ keychain' \in {keychain, [a \in Aliases |-> None]}
  BY DEF Kill
<1>2. TypeOK'
  BY <1>1 DEF LifecycleInv, TypeOK, Kill, InitSteps, InitOutcomes
<1>3. \A h \in Handles : pc'[h] \in {"idle", "gone"}
  BY DEF Kill
<1>4. HandlesInv'
  BY <1>3 DEF HandlesInv, Kill, Live, At, Opening, Wiping, InitSteps
<1>5. (KeyOpensFile /\ SchemaMatchesVersion)'
  BY <1>1 DEF LifecycleInv, KeyOpensFile, SchemaMatchesVersion, OwnAlias
<1>6. ASSUME NEW h \in Handles PROVE (KeyInv(h) /\ MigrationInv(h))'
  BY <1>3 DEF KeyInv, MigrationInv, Keyed, At, Kill
<1>. QED
  BY <1>2, <1>4, <1>5, <1>6 DEF LifecycleInv

\* Nothing changes.
LEMMA StutterPreserves ==
  ASSUME LifecycleInv, UNCHANGED vars
  PROVE  LifecycleInv'
<1>. USE DEF vars, handleVars, initVars
<1>1. TypeOK'
  BY DEF LifecycleInv, TypeOK
<1>2. HandlesInv'
  BY DEF LifecycleInv, HandlesInv, Live, At
<1>3. (KeyOpensFile /\ SchemaMatchesVersion)'
  BY DEF LifecycleInv, KeyOpensFile, SchemaMatchesVersion, OwnAlias
<1>4. ASSUME NEW g \in Handles PROVE (KeyInv(g) /\ MigrationInv(g))'
  BY OtherHandle DEF LifecycleInv
<1>. QED
  BY <1>1, <1>2, <1>3, <1>4 DEF LifecycleInv

\* The invariant holds before the first open.
LEMMA LifecycleInit == Init => LifecycleInv
<1>. SUFFICES ASSUME Init PROVE LifecycleInv
  OBVIOUS
<1>1. TypeOK
  BY DEF Init, TypeOK
<1>2. HandlesInv /\ KeyOpensFile /\ SchemaMatchesVersion
  BY DEF Init, HandlesInv, KeyOpensFile, SchemaMatchesVersion, Live, At, Opening, Wiping, InitSteps
<1>3. \A h \in Handles : KeyInv(h) /\ MigrationInv(h)
  BY DEF Init, KeyInv, MigrationInv, Keyed, At
<1>. QED
  BY <1>1, <1>2, <1>3 DEF LifecycleInv

\* Every step keeps it.
LEMMA LifecycleStep == LifecycleInv /\ [Next]_vars => LifecycleInv'
<1>. SUFFICES ASSUME LifecycleInv, [Next]_vars PROVE LifecycleInv'
  OBVIOUS
<1>1. ASSUME NEW h \in Handles, Open(h) \/ OpenStep(h) \/ OpenFails(h)
      PROVE  LifecycleInv'
  BY <1>1, OpenPreserves, GetItemPreserves, SetItemPreserves, ProbePreserves, JournalPreserves,
     ReadVersionPreserves, ExecStatementPreserves, StampVersionPreserves, CommitPreserves,
     OpenFailsPreserves DEF OpenStep
<1>2. ASSUME NEW h \in Handles, Close(h) \/ Wipe(h) \/ WipeStep(h) \/ WipeFails(h)
      PROVE  LifecycleInv'
  BY <1>2, ClosePreserves, WipePreserves, DeleteDatabasePreserves, DeleteDatabaseKeyPreserves,
     WipeFailsPreserves DEF WipeStep
<1>3. ASSUME NEW i \in Inits, Initialize(i) \/ InitStep(i) \/ InitFails(i)
      PROVE  LifecycleInv'
  BY <1>3, InitializePreserves, LookPreserves, InsertIdentityPreserves DEF InitStep
<1>4. ASSUME Kill PROVE LifecycleInv'
  BY <1>4, KillPreserves
<1>5. ASSUME UNCHANGED vars PROVE LifecycleInv'
  BY <1>5, StutterPreserves
<1>. QED
  BY <1>1, <1>2, <1>3, <1>4, <1>5 DEF Next

\* What open, migrations, wipe and the local identity keep true of the keychain, the
\* files and the handles, over kills, upgrades, downgrades and reinstalls.
THEOREM LifecycleInvariant == Spec => []LifecycleInv
<1>. QED
  BY LifecycleInit, LifecycleStep, PTL DEF Spec

\* The keychain, the files and the local variables of the calls keep their types; a
\* schema is never past the newest version.
THEOREM LifecycleTypes == Spec => []TypeOK
<1>1. LifecycleInv => TypeOK
  BY DEF LifecycleInv
<1>. QED
  BY <1>1, LifecycleInvariant, PTL

\* The key in the keychain is the key of the file, for a database with an alias of its
\* own: whatever step resolveDatabaseKey, open or wipe is killed at.
THEOREM LifecycleKeyOpensFile == Spec => []KeyOpensFile
<1>1. LifecycleInv => KeyOpensFile
  BY DEF LifecycleInv
<1>. QED
  BY <1>1, LifecycleInvariant, PTL

\* runMigrations commits a batch and its version row or neither.
THEOREM LifecycleSchemaMatchesVersion == Spec => []SchemaMatchesVersion
<1>1. LifecycleInv => SchemaMatchesVersion
  BY DEF LifecycleInv
<1>. QED
  BY <1>1, LifecycleInvariant, PTL

\* open returns only stores whose database is at the version of the library.
THEOREM LifecycleOpenedIsMigrated == Spec => []OpenedIsMigrated
<1>1. LifecycleInv => OpenedIsMigrated
  BY DEF LifecycleInv, OpenedIsMigrated, KeyInv, MigrationInv, Keyed, At
<1>. QED
  BY <1>1, LifecycleInvariant, PTL

-----------------------------------------------------------------------------
(* What no step does *)

\* A file that is there changes only by a transaction of a migration, which a handle at
\* "commit" is in; by the row an open store inserts; or by being deleted.
LEMMA FileChanges ==
  ASSUME LifecycleInv, [Next]_vars, NEW d \in Dbs, file[d] # None, file'[d] # file[d]
  PROVE  \/ \E h \in Handles : /\ pc[h] = "commit" /\ db[h] = d
                               /\ file'[d] = WithSchema(file[d], work[h])
         \/ \E h \in Handles : pc[h] = "open" /\ db[h] = d /\ file[d].identity = None
         \/ \E h \in Handles : pc[h] = "deleteDatabase" /\ db[h] = d /\ file'[d] = None
         \/ \A e \in Dbs : file'[e] = None
<1> DEFINE Changes ==
  \/ \E h \in Handles : /\ pc[h] = "commit" /\ db[h] = d
                        /\ file'[d] = WithSchema(file[d], work[h])
  \/ \E h \in Handles : pc[h] = "open" /\ db[h] = d /\ file[d].identity = None
  \/ \E h \in Handles : pc[h] = "deleteDatabase" /\ db[h] = d /\ file'[d] = None
  \/ \A e \in Dbs : file'[e] = None
<1>1. file \in [Dbs -> Files \cup {None}]
  BY DEF LifecycleInv, TypeOK
<1>2. ASSUME NEW h \in Handles, Journal(h) PROVE Changes
  BY <1>1, <1>2 DEF Journal
<1>3. ASSUME NEW h \in Handles, Commit(h) PROVE Changes
  BY <1>1, <1>3 DEF Commit, CommitThen, At
<1>4. ASSUME NEW h \in Handles, DeleteDatabase(h) PROVE Changes
  BY <1>1, <1>4 DEF DeleteDatabase, DeleteDatabaseThen, At
<1>5. ASSUME NEW i \in Inits, InsertIdentity(i) PROVE Changes
  <2>1. \/ UNCHANGED file
        \/ /\ file[db[store[i]]].identity = None
           /\ file' = [file EXCEPT ![db[store[i]]] = WithIdentity(file[db[store[i]]], i)]
    BY <1>5, InsertIdentityWrites
  <2>2. store[i] \in Handles /\ pc[store[i]] = "open"
    BY <1>5, InsertIdentityWrites
  <2>. QED
    BY <1>1, <2>1, <2>2
<1>6. ASSUME Kill PROVE Changes
  BY <1>6 DEF Kill
<1>7. ASSUME NEW h \in Handles,
             \/ Open(h) \/ GetItem(h) \/ SetItem(h) \/ Probe(h) \/ ReadVersion(h)
             \/ ExecStatement(h) \/ StampVersion(h) \/ OpenFails(h)
             \/ Close(h) \/ Wipe(h) \/ DeleteDatabaseKey(h) \/ WipeFails(h)
      PROVE  UNCHANGED file
  BY <1>7 DEF Open, GetItem, SetItem, Probe, ReadVersion, ExecStatement, StampVersion, OpenFails,
              Close, Wipe, WipeFrom, DeleteDatabaseKey, WipeFails
<1>8. ASSUME NEW i \in Inits,
             Initialize(i) \/ IfNeeded(i) \/ CheckInitialized(i) \/ InitFails(i)
      PROVE  UNCHANGED file
  BY <1>8 DEF Initialize, IfNeeded, CheckInitialized, InitFails
<1>9. UNCHANGED vars => UNCHANGED file
  BY DEF vars
<1>. HIDE DEF Changes
<1>10. Changes
  BY <1>2, <1>3, <1>4, <1>5, <1>6, <1>7, <1>8, <1>9 DEF Next, OpenStep, WipeStep, InitStep
<1>. QED
  BY <1>10 DEF Changes

\* An older library refuses a newer database before it writes to it.
THEOREM LifecycleDowngradeIsHarmless == Spec => DowngradeIsHarmless
<1> DEFINE A == \A d \in Dbs : file[d] # None /\ file[d].schema.version > library =>
                  file'[d] = file[d] \/ \A e \in Dbs : file'[e] = None
<1>1. LifecycleInv /\ [Next]_vars => [A]_vars
  <2>. SUFFICES ASSUME LifecycleInv, [Next]_vars, NEW d \in Dbs,
                       file[d] # None, file[d].schema.version > library, file'[d] # file[d]
                PROVE  \A e \in Dbs : file'[e] = None
    OBVIOUS
  <2>1. library \in Nat /\ file[d].schema.version \in Nat
    BY LifecycleAssumption DEF LifecycleInv, TypeOK, Files, Schemas
  <2>2. ASSUME NEW h \in Handles, db[h] = d
        PROVE  pc[h] \notin {"commit", "open", "deleteDatabase"}
    <3>1. pc[h] = "commit" => work[h] \in Schemas /\ work[h].version <= library
                              /\ work[h].version = file[d].schema.version + 1
      BY <2>2 DEF LifecycleInv, MigrationInv, At
    <3>2. pc[h] \in {"open", "deleteDatabase"} => file[d].schema.version <= library
      BY <2>2 DEF LifecycleInv, MigrationInv
    <3>. QED
      BY <2>1, <3>1, <3>2
  <2>. QED
    BY <2>2, FileChanges
<1>. QED
  BY <1>1, LifecycleInvariant, PTL DEF Spec, DowngradeIsHarmless

\* A migration keeps the row of local_identity, and a second INSERT is refused.
THEOREM LifecycleIdentityIsForGood == Spec => IdentityIsForGood
<1> DEFINE A == \A d \in Dbs :
                  (file[d] # None /\ file'[d] # None /\ file[d].identity # None) =>
                    file'[d].identity = file[d].identity
<1>1. LifecycleInv /\ [Next]_vars => [A]_vars
  <2>. SUFFICES ASSUME LifecycleInv, [Next]_vars, NEW d \in Dbs, file'[d] # file[d],
                       file[d] # None, file'[d] # None, file[d].identity # None
                PROVE  file'[d].identity = file[d].identity
    OBVIOUS
  <2>1. PICK h \in Handles : pc[h] = "commit" /\ file'[d] = WithSchema(file[d], work[h])
    BY FileChanges
  <2>2. work[h] \in Schemas /\ file[d] \in Files
    BY <2>1 DEF LifecycleInv, TypeOK, MigrationInv, At
  <2>. QED
    BY <2>1, <2>2, WithSchemaIs
<1>. QED
  BY <1>1, LifecycleInvariant, PTL DEF Spec, IdentityIsForGood

-----------------------------------------------------------------------------
(* The refinement of DatabaseFiles *)

\* A database of the specification has the tables of its version.
LEMMA DatabaseIs ==
  ASSUME NEW n \in 0 .. SchemaVersion, NEW identity
  PROVE  Promised!Database(n, identity) =
           [tables |-> Schema(n), version |-> n, identity |-> identity]
BY DEF Promised!Database

\* A file is replaced or made by a step that leaves the library: it is the same of the
\* content of the files.
LEMMA FileBecomes ==
  ASSUME file \in [Dbs -> Files \cup {None}], UNCHANGED library,
         NEW d \in Dbs, NEW f \in Files, file' = [file EXCEPT ![d] = f]
  PROVE  Promised!Becomes(d, [tables |-> f.schema.tables, version |-> f.schema.version,
                              identity |-> f.identity])
<1>1. f # None
  BY FileAssumption
<1>2. \A e \in Dbs : file'[e] = IF e = d THEN f ELSE file[e]
  OBVIOUS
<1>3. {e \in Dbs : file'[e] # None} = {e \in Dbs : file[e] # None} \cup {d}
  BY <1>1, <1>2
<1>. QED
  BY <1>2, <1>3 DEF Promised!Becomes, content

\* The first write of a new file creates an empty database.
LEMMA JournalCreates ==
  ASSUME LifecycleInv, NEW h \in Handles, Journal(h), file' # file
  PROVE  Promised!Next
<1> DEFINE empty == [tables |-> {}, version |-> 0]
           f == [key |-> key[h], identity |-> None, schema |-> empty]
<1>1. /\ db[h] \in Dbs /\ key[h] \in Keys /\ file[db[h]] = None
      /\ file' = [file EXCEPT ![db[h]] = f] /\ UNCHANGED library
  BY DEF Journal, At, Live, Opening, LifecycleInv, HandlesInv, KeyInv, Keyed
<1>2. empty \in Schemas
  BY LifecycleAssumption DEF Schemas
<1>3. f \in Files
  BY <1>1, <1>2 DEF Files
<1>4. f.schema.tables = Schema(0) /\ f.schema.version = 0 /\ f.identity = None
  BY SchemaOfNothing
<1>. HIDE DEF f
<1>5. Promised!Becomes(db[h], Promised!Database(0, None))
  <2>1. 0 \in 0 .. SchemaVersion
    BY LifecycleAssumption
  <2>. QED
    BY <1>1, <1>3, <1>4, <2>1, DatabaseIs, FileBecomes DEF LifecycleInv, TypeOK
<1>6. db[h] \notin DOMAIN content
  BY <1>1 DEF content
<1>. QED
  BY <1>1, <1>5, <1>6 DEF Promised!Next, Promised!Create

\* The commit of a batch is an upgrade by one version, to one the library knows.
LEMMA CommitUpgrades ==
  ASSUME LifecycleInv, NEW h \in Handles, Commit(h)
  PROVE  Promised!Next
<1> DEFINE d == db[h]
           f == WithSchema(file[d], work[h])
           v == file[d].schema.version
<1>1. /\ pc[h] = "commit" /\ d \in Dbs /\ file[d] \in Files
      /\ file' = [file EXCEPT ![d] = f] /\ UNCHANGED library
  BY DEF Commit, CommitThen, At, Opening, Live, LifecycleInv, TypeOK, HandlesInv, KeyInv, Keyed
<1>2. /\ work[h] \in Schemas /\ work[h].version <= library /\ work[h].version = v + 1
      /\ work[h].tables = Schema(v + 1)
  BY <1>1 DEF At, LifecycleInv, MigrationInv
<1>3. f \in Files /\ f.schema = work[h] /\ f.identity = file[d].identity
  BY <1>1, <1>2, WithSchemaIs
<1>4. v \in Nat /\ library \in Nat /\ library <= SchemaVersion /\ SchemaVersion \in Nat
  BY <1>1, LifecycleAssumption DEF LifecycleInv, TypeOK, Files, Schemas
<1>. HIDE DEF f
<1>5. Promised!Database(v + 1, file[d].identity) =
        [tables |-> f.schema.tables, version |-> f.schema.version, identity |-> f.identity]
  <2>1. v + 1 \in 0 .. SchemaVersion
    BY <1>2, <1>4
  <2>. QED
    BY <1>2, <1>3, <2>1, DatabaseIs
<1>6. Promised!Becomes(d, Promised!Database(v + 1, file[d].identity))
  BY <1>1, <1>3, <1>5, FileBecomes DEF LifecycleInv, TypeOK
<1>7. /\ d \in DOMAIN content /\ content[d].version = v
      /\ content[d].identity = file[d].identity
  BY <1>1, FileAssumption DEF content
<1>8. content[d].version < library
  BY <1>2, <1>4, <1>7
<1>9. Promised!Upgrade(d)
  BY <1>6, <1>7, <1>8 DEF Promised!Upgrade
<1>. QED
  BY <1>1, <1>9 DEF Promised!Next

\* The row is inserted in a database without one, at the version of the library.
LEMMA InsertIdentifies ==
  ASSUME LifecycleInv, NEW i \in Inits, InsertIdentity(i), file' # file
  PROVE  Promised!Next
<1> DEFINE h == store[i]
           d == db[h]
           f == WithIdentity(file[d], i)
<1>1. /\ UNCHANGED library /\ h \in Handles /\ pc[h] = "open" /\ d \in Dbs
      /\ file[d] \in Files /\ file[d].identity = None /\ file' = [file EXCEPT ![d] = f]
  BY InsertIdentityWrites
<1>2. file[d].schema.version = library /\ file[d] # None
  BY <1>1, FileAssumption DEF At, LifecycleInv, MigrationInv
<1>3. file[d].schema.tables = Schema(library)
  BY <1>1, <1>2 DEF LifecycleInv, SchemaMatchesVersion
<1>4. f \in Files /\ f.schema = file[d].schema /\ f.identity = i
  BY <1>1, WithIdentityIs
<1>5. library \in 0 .. SchemaVersion
  BY LifecycleAssumption DEF LifecycleInv, TypeOK
<1>. HIDE DEF f
<1>6. Promised!Database(library, i) =
        [tables |-> f.schema.tables, version |-> f.schema.version, identity |-> f.identity]
  BY <1>2, <1>3, <1>4, <1>5, DatabaseIs
<1>7. Promised!Becomes(d, Promised!Database(library, i))
  BY <1>1, <1>4, <1>6, FileBecomes DEF LifecycleInv, TypeOK
<1>8. d \in DOMAIN content /\ content[d].version = library /\ content[d].identity = None
  BY <1>1, <1>2 DEF content
<1>9. Promised!Identify(d, i)
  BY <1>7, <1>8 DEF Promised!Identify
<1>. QED
  BY <1>1, <1>9 DEF Promised!Next

\* wipe deletes a file whose version its own library could open.
LEMMA DeleteDatabaseDeletes ==
  ASSUME LifecycleInv, NEW h \in Handles, DeleteDatabase(h)
  PROVE  Promised!Next
<1> DEFINE d == db[h]
<1>1. /\ d \in Dbs /\ file[d] # None /\ file[d].schema.version <= library
      /\ file' = [file EXCEPT ![d] = None] /\ UNCHANGED library
  BY DEF DeleteDatabase, DeleteDatabaseThen, At, Wiping, Live, LifecycleInv, HandlesInv, MigrationInv
<1>2. \A e \in Dbs : file'[e] = IF e = d THEN None ELSE file[e]
  BY <1>1 DEF LifecycleInv, TypeOK
<1>3. {e \in Dbs : file'[e] # None} = {e \in Dbs : file[e] # None} \ {d}
  BY <1>2
<1>4. Promised!Delete(d)
  BY <1>1, <1>2, <1>3 DEF Promised!Delete, content
<1>. QED
  BY <1>1, <1>4 DEF Promised!Next

\* After a kill there are the files there were, or none.
LEMMA KillRestarts ==
  ASSUME Kill
  PROVE  Promised!Next
<1>1. library' \in 1 .. SchemaVersion /\ (file' = file \/ file' = [d \in Dbs |-> None])
  BY DEF Kill
<1>2. file' = file => content' = content
  BY DEF content
<1>3. file' = [d \in Dbs |-> None] => content' = Promised!NoFiles
  <2>. SUFFICES ASSUME file' = [d \in Dbs |-> None] PROVE content' = Promised!NoFiles
    OBVIOUS
  <2>1. {e \in Dbs : file'[e] # None} = {}
    OBVIOUS
  <2>. QED
    BY <2>1 DEF content, Promised!NoFiles
<1>. QED
  BY <1>1, <1>2, <1>3 DEF Promised!Next, Promised!Restart

\* The stores of a device, over every interleaving of their steps with kills, failures
\* and changes of the library, do to the files what DatabaseFiles allows (open,
\* runMigrations, initializeLocalIdentity and wipe of SQLCipherProtocolStore).
THEOREM LifecycleImplementsDatabaseFiles == Spec => ImplementsDatabaseFiles
<1>1. Init => Promised!Init
  <2>. SUFFICES ASSUME Init PROVE Promised!Init
    OBVIOUS
  <2>1. {e \in Dbs : file[e] # None} = {}
    BY DEF Init
  <2>. QED
    BY <2>1 DEF Init, content, Promised!Init, Promised!NoFiles
<1>2. LifecycleInv /\ [Next]_vars => [Promised!Next]_<<content, library>>
  <2>. SUFFICES ASSUME LifecycleInv, [Next]_vars
                PROVE  Promised!Next \/ UNCHANGED <<file, library>>
    BY DEF content
  <2>1. ASSUME NEW h \in Handles,
               \/ Open(h) \/ GetItem(h) \/ SetItem(h) \/ Probe(h) \/ ReadVersion(h)
               \/ ExecStatement(h) \/ StampVersion(h) \/ OpenFails(h)
               \/ Close(h) \/ Wipe(h) \/ DeleteDatabaseKey(h) \/ WipeFails(h)
        PROVE  UNCHANGED <<file, library>>
    BY <2>1 DEF Open, GetItem, SetItem, Probe, ReadVersion, ExecStatement, StampVersion,
                OpenFails, Close, Wipe, WipeFrom, DeleteDatabaseKey, WipeFails
  <2>2. ASSUME NEW i \in Inits,
               Initialize(i) \/ IfNeeded(i) \/ CheckInitialized(i) \/ InitFails(i)
        PROVE  UNCHANGED <<file, library>>
    BY <2>2 DEF Initialize, IfNeeded, CheckInitialized, InitFails
  <2>3. ASSUME NEW h \in Handles, Journal(h) PROVE UNCHANGED library
    BY <2>3 DEF Journal
  <2>4. ASSUME NEW i \in Inits, InsertIdentity(i) PROVE UNCHANGED library
    BY <2>4 DEF InsertIdentity
  <2>5. UNCHANGED vars => UNCHANGED <<file, library>>
    BY DEF vars
  <2>. QED
    BY <2>1, <2>2, <2>3, <2>4, <2>5, JournalCreates, CommitUpgrades, InsertIdentifies,
       DeleteDatabaseDeletes, KillRestarts DEF Next, OpenStep, WipeStep, InitStep
<1>. QED
  BY <1>1, <1>2, LifecycleInvariant, PTL DEF Spec, ImplementsDatabaseFiles, Promised!Spec
=============================================================================
