--------------------------- MODULE DatabaseFiles ---------------------------
(***************************************************************************)
(* What the stores promise about the database files of a device, with no   *)
(* handles, keys or transactions: a file has every table of the version it *)
(* is stamped with and no other; it goes one version up at a time, to the  *)
(* version of the library that is installed and never past it; only at     *)
(* that version does it get its local identity, once; and it is deleted    *)
(* by a library that can read it, or by a reinstallation of the app.       *)
(* StoreLifecycle implements this specification.                           *)
(***************************************************************************)
EXTENDS Naturals

CONSTANTS Dbs, Identities, None,
          SchemaVersion,  \* the newest version
          Tables          \* Tables[n]: the tables of a database at version n

VARIABLES content,  \* a function on the databases that have a file
          library   \* the version of the library installed

Database(n, identity) == [tables |-> Tables[n], version |-> n, identity |-> identity]

Becomes(d, database) ==
  /\ content' = [e \in DOMAIN content \cup {d} |-> IF e = d THEN database ELSE content[e]]
  /\ UNCHANGED library

Create(d) ==
  /\ d \notin DOMAIN content
  /\ Becomes(d, Database(0, None))

Upgrade(d) ==
  /\ d \in DOMAIN content
  /\ content[d].version < library
  /\ Becomes(d, Database(content[d].version + 1, content[d].identity))

Identify(d, identity) ==
  /\ d \in DOMAIN content
  /\ content[d].version = library
  /\ content[d].identity = None
  /\ Becomes(d, Database(library, identity))

Delete(d) ==
  /\ d \in DOMAIN content
  /\ content[d].version <= library
  /\ content' = [e \in DOMAIN content \ {d} |-> content[e]]
  /\ UNCHANGED library

NoFiles == [d \in {} |-> None]

\* The app starts with another version of the library, or newly installed.
Restart ==
  /\ library' \in 1 .. SchemaVersion
  /\ content' \in {content, NoFiles}

Init ==
  /\ content = NoFiles
  /\ library \in 1 .. SchemaVersion

Next ==
  \/ \E d \in Dbs : \/ Create(d) \/ Upgrade(d) \/ Delete(d)
                    \/ \E identity \in Identities : Identify(d, identity)
  \/ Restart

Spec == Init /\ [][Next]_<<content, library>>
=============================================================================
