--------------------------- MODULE DataMigration ---------------------------
(* A launch, from the first file operation to a usable database: migration.rs *)
(* as lib.rs calls it, then Storage::open with its quarantine and its schema  *)
(* upgrades. The program can be stopped between any two file operations and   *)
(* launched again; each of them can fail.                                     *)
EXTENDS Naturals, Sequences

CONSTANTS None, Garbage, \* of DataAdoption
          Accounts,   \* providers that can hold a saved API key (API_KEY_ACCOUNTS)
          Schemas,    \* columns that databases of earlier programs have, "tables" and "logs" among them
          Items       \* files below the copied directories (DATA_DIRECTORY_ITEMS)

VARIABLES fs,         \* fs[place][kind]: the database files
          items,      \* items[i]: a file of the copied directories, at the destination
          pc,         \* the next step of the launch
          moved,      \* moved_sidecars of this launch
          keys,       \* keys[service][account]: the credential store
          marker,     \* LEGACY_KEY_MIGRATION_MARKER is on disk
          left,       \* accounts that this pass has not looked at
          source,     \* <<service, account>> to be deleted: its replacement was written
          torn,       \* history: a copy of the foreign database was cut short
          claim,      \* history: the key the user last had for an account
          unmarked,   \* history: the marker could not be written once
          asked       \* history: passes that read an entry of an earlier program (up to 2)

files == <<fs, items, moved, torn>>
secrets == <<keys, marker, left, source, claim, unmarked, asked>>
vars == <<fs, items, pc, moved, keys, marker, left, source, torn, claim, unmarked, asked>>

Places == {"foreign", "old", "new"}      \* legacy directory; LEGACY_DATABASE_FILE and
                                         \* DATABASE_FILE in the application's directory
Sidecars == {"wal", "shm"}
Kinds == {"db"} \cup Sidecars
Txns == {"base", "tail", "later"}        \* checkpointed, in the log, committed by this program
Columns == {"tables", "logs", "nanos", "identity", "width", "mode"}
Origins == {"foreign", "old", "new", "empty", "half"}
File == [of : Origins, txns : SUBSET Txns, cols : SUBSET Columns]
NoFile == [of |-> "none", txns |-> {}, cols |-> {}]
Services == {"UsageDeck", "prior", "legacy"}
NoKey == "none"
KeyValues == Services \cup {"typed", NoKey}

Empty == [of |-> "empty", txns |-> {}, cols |-> {}]
Half == [of |-> "half", txns |-> {}, cols |-> {}]

TypeOK ==
  /\ fs \in [Places -> [Kinds -> File \cup {NoFile}]]
  /\ items \in [Items -> {"absent", "part", "whole"}]
  /\ pc \in {"off", "rename", "wal", "shm", "db", "rollback", "copy", "copy_wal", "copy_shm",
             "tree", "keys", "key", "cleanup", "open", "aside_wal", "aside_shm", "fresh",
             "create", "rebuild", "recreate", "add", "running"}
  /\ moved \subseteq Sidecars
  /\ keys \in [Services -> [Accounts -> KeyValues]]
  /\ marker \in BOOLEAN /\ left \subseteq Accounts /\ source \in (Services \X Accounts) \cup {<<>>}
  /\ torn \in BOOLEAN /\ unmarked \in BOOLEAN /\ asked \in 0..2
  /\ claim \in [Accounts -> KeyValues]

Has(place, kind) == fs[place][kind] # NoFile
Fits(log, db) == log.of = db.of
\* SQLite replays a log onto the database that has its name, whichever it was written for.
Readable(d) == d["db"].of # "half" /\ (d["wal"] = NoFile \/ Fits(d["wal"], d["db"]))
Visible(d) == d["db"].txns \cup d["wal"].txns

\* What earlier programs left: a database that was closed, or one with its log and index.
Left(o, cols) ==
  [k \in Kinds |-> [of |-> o,
                    txns |-> CASE k = "db" -> {"base"} [] k = "wal" -> {"tail"} [] k = "shm" -> {},
                    cols |-> IF k = "db" THEN cols ELSE {}]]
Absent == [k \in Kinds |-> NoFile]
Leftovers(o) ==
  {Absent} \cup UNION {{Left(o, cols), [Left(o, cols) EXCEPT !["wal"] = NoFile, !["shm"] = NoFile]} :
                       cols \in Schemas}

\* The key the user had last: a key of this program, otherwise that of whichever earlier program
\* the user worked with last, which is not the order in which the pass looks.
HadLast(k, a) ==
  LET kept == {k[s][a] : s \in Services} \ {NoKey} IN
  IF k["UsageDeck"][a] # NoKey THEN {k["UsageDeck"][a]} ELSE IF kept = {} THEN {NoKey} ELSE kept

Init ==
  /\ \E f \in Leftovers("foreign"), o \in Leftovers("old"), n \in Leftovers("new") :
       fs = [p \in Places |-> CASE p = "foreign" -> f [] p = "old" -> o [] p = "new" -> n]
  /\ items = [i \in Items |-> "absent"]
  /\ pc = "off" /\ moved = {}
  /\ \E with \in SUBSET (Services \X Accounts) :
       keys = [s \in Services |-> [a \in Accounts |-> IF <<s, a>> \in with THEN s ELSE NoKey]]
  /\ claim \in {c \in [Accounts -> KeyValues] : \A a \in Accounts : c[a] \in HadLast(keys, a)}
  /\ marker = FALSE /\ left = {} /\ source = <<>>
  /\ torn = FALSE /\ unmarked = FALSE /\ asked = 0

Goto(label) == pc' = label
-----------------------------------------------------------------------------
(* rename_legacy_database *)

Launch ==
  /\ pc = "off" /\ Goto("rename") /\ moved' = {}
  /\ UNCHANGED <<fs, items, torn, secrets>>

NothingToRename ==
  /\ pc = "rename"
  /\ ~Has("old", "db") \/ Has("new", "db")
  /\ Goto("copy") /\ UNCHANGED <<files, secrets>>

RenameBegins ==
  /\ pc = "rename"
  /\ Has("old", "db") /\ ~Has("new", "db")
  /\ Goto("wal") /\ UNCHANGED <<files, secrets>>

After(kind) == CASE kind = "wal" -> "shm" [] kind = "shm" -> "db" [] kind = "db" -> "copy"

Moved(from, to, kind) ==
  [fs EXCEPT ![to][kind] = fs[from][kind], ![from][kind] = NoFile]

SkipSidecar(kind) ==
  /\ pc = kind /\ ~Has("old", kind)
  /\ Goto(After(kind)) /\ UNCHANGED <<files, secrets>>

MoveSidecar(kind) ==
  /\ pc = kind /\ Has("old", kind)
  /\ fs' = Moved("old", "new", kind)
  /\ moved' = moved \cup {kind}
  /\ Goto(After(kind)) /\ UNCHANGED <<items, torn, secrets>>

MoveDatabase ==
  /\ pc = "db"
  /\ fs' = Moved("old", "new", "db")
  /\ Goto("copy") /\ UNCHANGED <<items, moved, torn, secrets>>

MoveFails ==
  /\ pc \in Kinds /\ Has("old", pc)
  /\ Goto("rollback") /\ UNCHANGED <<files, secrets>>

\* Undone last first; a move back that fails is only logged. The launch then ends with an error.
RollBack ==
  /\ pc = "rollback" /\ moved # {}
  /\ LET kind == IF "shm" \in moved THEN "shm" ELSE "wal" IN
       /\ moved' = moved \ {kind}
       /\ fs' \in {fs, Moved("new", "old", kind)}
  /\ UNCHANGED <<items, pc, torn, secrets>>

\* Faulty variant of RolledBack: the launch goes on after a failed rename.
RolledBackAndOn ==
  /\ pc = "rollback" /\ moved = {}
  /\ Goto("copy") /\ UNCHANGED <<files, secrets>>

RolledBack ==
  /\ pc = "rollback" /\ moved = {}
  /\ Goto("off") /\ UNCHANGED <<files, secrets>>
-----------------------------------------------------------------------------
(* migrate_app_data: a copy never overwrites, and the sidecars follow only a database
   that this launch has copied. *)

CopyDatabase ==
  /\ pc = "copy"
  /\ IF Has("foreign", "db") /\ ~Has("new", "db")
     THEN \/ fs' = [fs EXCEPT !["new"]["db"] = fs["foreign"]["db"]] /\ Goto("copy_wal") /\ UNCHANGED torn
          \/ \E rest \in {NoFile, Empty, Half} :
               /\ fs' = [fs EXCEPT !["new"]["db"] = rest]
               /\ Goto("tree") /\ torn' = TRUE
     ELSE Goto("tree") /\ UNCHANGED <<fs, torn>>
  /\ UNCHANGED <<items, moved, secrets>>

\* A log that is cut off holds fewer transactions.
Partly(kind) == [fs EXCEPT !["new"][kind] = [fs["foreign"][kind] EXCEPT !.txns = {}]]

CopySidecar(kind) ==
  /\ pc = IF kind = "wal" THEN "copy_wal" ELSE "copy_shm"
  /\ Goto(IF kind = "wal" THEN "copy_shm" ELSE "tree")
  /\ IF Has("foreign", kind) /\ ~Has("new", kind)
     THEN \/ fs' = [fs EXCEPT !["new"][kind] = fs["foreign"][kind]] /\ UNCHANGED torn
          \/ fs' \in {fs, Partly(kind)} /\ torn' = TRUE
     ELSE UNCHANGED <<fs, torn>>
  /\ UNCHANGED <<items, moved, secrets>>

\* copy_tree_if_absent: every file that is not there yet, each with its own error.
CopyTree ==
  /\ pc = "tree"
  /\ items' \in {c \in [Items -> {"absent", "part", "whole"}] :
                   \A i \in Items : items[i] # "absent" => c[i] = items[i]}
  /\ Goto("keys") /\ left' = Accounts
  /\ UNCHANGED <<fs, moved, torn, keys, marker, source, claim, unmarked, asked>>
-----------------------------------------------------------------------------
(* migrate_api_keys: the marker goes to disk before an entry of an earlier program is read. *)

LegacyKeys(a) == {s \in {"legacy", "prior"} : keys[s][a] # NoKey}
NoLegacyKeys == \A a \in Accounts : LegacyKeys(a) = {}
\* Reading an entry of another program asks the user.
Asks == \E a \in Accounts : keys["UsageDeck"][a] = NoKey /\ LegacyKeys(a) # {}

\* Faulty variant of KeysBegin: the marker is left to the end of a pass that found something.
KeysBeginUnmarked ==
  /\ pc = "keys"
  /\ IF marker
     THEN Goto("open") /\ left' = {} /\ UNCHANGED <<marker, unmarked, asked>>
     ELSE /\ UNCHANGED unmarked
          /\ \/ NoLegacyKeys /\ Goto("open") /\ left' = {} /\ marker' = TRUE /\ UNCHANGED asked
             \/ Goto("key") /\ left' = Accounts /\ UNCHANGED marker
                /\ asked' = IF Asks /\ asked < 2 THEN asked + 1 ELSE asked
  /\ UNCHANGED <<files, keys, source, claim>>

\* With the marker the pass is over before it began; without it the marker is written, or not.
KeysBegin ==
  /\ pc = "keys"
  /\ IF marker
     THEN Goto("open") /\ left' = {} /\ UNCHANGED <<marker, unmarked, asked>>
     ELSE /\ \/ marker' = TRUE /\ UNCHANGED unmarked
             \/ unmarked' = TRUE /\ UNCHANGED marker
          \* service_exists answers "no" for certain only when there is nothing.
          /\ \/ NoLegacyKeys /\ Goto("open") /\ left' = {} /\ UNCHANGED asked
             \/ Goto("key") /\ left' = Accounts
                /\ asked' = IF Asks /\ asked < 2 THEN asked + 1 ELSE asked
  /\ UNCHANGED <<files, keys, source, claim>>

\* A key under the current service, no key at all, or a read or write that fails.
KeyStays(a) ==
  /\ pc = "key" /\ a \in left
  /\ left' = left \ {a}
  /\ UNCHANGED <<files, pc, keys, marker, source, claim, unmarked, asked>>

\* Faulty variant of KeyWritten: the entry is deleted although its replacement was not written.
KeyPerhapsWritten(a) ==
  /\ pc = "key" /\ a \in left /\ keys["UsageDeck"][a] = NoKey
  /\ \E s \in LegacyKeys(a) :
       /\ s = "prior" => keys["legacy"][a] = NoKey
       /\ keys' \in {keys, [keys EXCEPT !["UsageDeck"][a] = keys[s][a]]}
       /\ source' = <<s, a>>
  /\ left' = left \ {a}
  /\ Goto("cleanup")
  /\ UNCHANGED <<files, marker, claim, unmarked, asked>>

\* The first hit, in the order of LEGACY_API_KEY_SERVICES, is written under the current service.
KeyWritten(a) ==
  /\ pc = "key" /\ a \in left /\ keys["UsageDeck"][a] = NoKey
  /\ \E s \in LegacyKeys(a) :
       /\ s = "prior" => keys["legacy"][a] = NoKey
       /\ keys' = [keys EXCEPT !["UsageDeck"][a] = keys[s][a]]
       /\ source' = <<s, a>>
  /\ left' = left \ {a}
  /\ Goto("cleanup")
  /\ UNCHANGED <<files, marker, claim, unmarked, asked>>

\* The source entry goes only now; when it cannot be deleted it stays for good.
KeyCleanedUp ==
  /\ pc = "cleanup"
  /\ keys' \in {keys, [keys EXCEPT ![source[1]][source[2]] = NoKey]}
  /\ source' = <<>> /\ Goto("key")
  /\ UNCHANGED <<files, marker, left, claim, unmarked, asked>>

KeysEnd ==
  /\ pc = "key" /\ left = {}
  /\ Goto("open") /\ UNCHANGED <<files, secrets>>
-----------------------------------------------------------------------------
(* Storage::open *)

Served(d) == pc' = "create" /\ fs' = [fs EXCEPT !["new"] = d]

\* A database that is not there, or is empty, is created; SQLite drops its stray log.
OpenEmpty ==
  /\ pc \in {"open", "fresh"} /\ fs["new"]["db"] \in {NoFile, Empty}
  /\ Served([Absent EXCEPT !["db"] = Empty])
  /\ UNCHANGED <<items, moved, torn, secrets>>

OpenDatabase ==
  /\ pc = "open" /\ fs["new"]["db"] \notin {NoFile, Empty} /\ Readable(fs["new"])
  /\ Served(fs["new"])
  /\ UNCHANGED <<items, moved, torn, secrets>>

\* Corruption that SQLite reports; locked files, a full disk and the like end the launch instead.
OpenCorrupt ==
  /\ pc = "open" /\ fs["new"]["db"] \notin {NoFile, Empty} /\ ~Readable(fs["new"])
  /\ \/ fs' = [fs EXCEPT !["new"]["db"] = NoFile] /\ Goto("aside_wal")
     \/ UNCHANGED fs /\ Goto("off")
  /\ UNCHANGED <<items, moved, torn, secrets>>

OpenFails ==
  /\ pc \in {"open", "fresh", "create", "rebuild", "recreate", "add"}
  /\ Goto("off") /\ UNCHANGED <<files, secrets>>

\* A sidecar that can be neither moved nor deleted stays.
AsideSidecar(kind) ==
  /\ pc = IF kind = "wal" THEN "aside_wal" ELSE "aside_shm"
  /\ fs' \in {fs, [fs EXCEPT !["new"][kind] = NoFile]}
  /\ Goto(IF kind = "wal" THEN "aside_shm" ELSE "fresh")
  /\ UNCHANGED <<items, moved, torn, secrets>>

Cols == fs["new"]["db"].cols
SetCols(c) == fs' = [fs EXCEPT !["new"]["db"].cols = c]

\* CREATE TABLE IF NOT EXISTS: a table that is new has today's columns, but for panel_state's.
CreateTables ==
  /\ pc = "create"
  /\ SetCols(Cols \cup {"tables", "logs"}
               \cup (IF "tables" \in Cols THEN {} ELSE {"identity"})
               \cup (IF "logs" \in Cols THEN {} ELSE {"nanos"}))
  /\ Goto("rebuild") /\ UNCHANGED <<items, moved, torn, secrets>>

\* Faulty variant of DropLogs: it asks for the table and not for its new column.
DropLogsByTable ==
  /\ pc = "rebuild"
  /\ IF "logs" \in Cols
     THEN Goto("add") /\ UNCHANGED fs
     ELSE Goto("recreate") /\ SetCols(Cols \ {"logs"})
  /\ UNCHANGED <<items, moved, torn, secrets>>

\* DROP and CREATE are two statements of a batch without a transaction.
DropLogs ==
  /\ pc = "rebuild"
  /\ IF "nanos" \in Cols
     THEN Goto("add") /\ UNCHANGED fs
     ELSE Goto("recreate") /\ SetCols(Cols \ {"logs"})
  /\ UNCHANGED <<items, moved, torn, secrets>>
RecreateLogs ==
  /\ pc = "recreate"
  /\ SetCols(Cols \cup {"logs", "nanos"}) /\ Goto("add")
  /\ UNCHANGED <<items, moved, torn, secrets>>

Added == <<"identity", "width", "mode">>
AddColumn ==
  /\ pc = "add"
  /\ \E i \in 1..Len(Added) :
       /\ Added[i] \notin Cols
       /\ \A j \in 1..(i - 1) : Added[j] \in Cols
       /\ SetCols(Cols \cup {Added[i]})
  /\ UNCHANGED <<items, pc, moved, torn, secrets>>
Opened ==
  /\ pc = "add" /\ {"identity", "width", "mode"} \subseteq Cols
  /\ Goto("running") /\ UNCHANGED <<files, secrets>>
-----------------------------------------------------------------------------
(* The program at work, and what happens to it. *)

Commit ==
  /\ pc = "running"
  /\ LET db == fs["new"]["db"]
         log == fs["new"]["wal"]
         before == IF log = NoFile THEN {} ELSE log.txns IN
       fs' = [fs EXCEPT !["new"]["wal"] = [of |-> db.of, txns |-> before \cup {"later"}, cols |-> {}],
                        !["new"]["shm"] = [of |-> db.of, txns |-> {}, cols |-> {}]]
  /\ UNCHANGED <<items, pc, moved, torn, secrets>>

\* A clean close moves the log into the database and deletes it.
Close ==
  /\ pc = "running"
  /\ fs' = [fs EXCEPT !["new"] = [Absent EXCEPT !["db"] =
                        [fs["new"]["db"] EXCEPT !.txns = Visible(fs["new"])]]]
  /\ Goto("off") /\ UNCHANGED <<items, moved, torn, secrets>>

\* ApiKeyStore::save and delete.
UserSetsKey(a) ==
  /\ pc = "running"
  /\ \E v \in {"typed", NoKey} :
       /\ keys' = [keys EXCEPT !["UsageDeck"][a] = v]
       /\ claim' = [claim EXCEPT ![a] = v]
  /\ UNCHANGED <<files, pc, marker, left, source, unmarked, asked>>

\* Stopped at any point; a copy that was under way is partial and counts as done.
Crash ==
  /\ pc # "off" /\ Goto("off")
  /\ CASE pc = "copy" /\ Has("foreign", "db") /\ ~Has("new", "db") ->
            \/ UNCHANGED <<fs, torn>>
            \/ /\ fs' \in {[fs EXCEPT !["new"]["db"] = rest] : rest \in {Empty, Half}}
               /\ torn' = TRUE
       [] pc = "copy_wal" ->
            /\ fs' \in {fs} \cup (IF Has("foreign", "wal") /\ ~Has("new", "wal")
                                 THEN {Partly("wal")} ELSE {})
            /\ torn' = TRUE
       [] OTHER -> UNCHANGED <<fs, torn>>
  /\ moved' = {} /\ left' = {} /\ source' = <<>>
  /\ UNCHANGED <<items, keys, marker, claim, unmarked, asked>>

\* The disk damages the database; its log is then a log of something else.
Damage ==
  /\ pc = "off" /\ Has("new", "db")
  /\ fs' = [fs EXCEPT !["new"]["db"] = Half,
                      !["new"]["wal"] = IF @ = NoFile THEN @ ELSE [@ EXCEPT !.of = "half"]]
  /\ UNCHANGED <<items, pc, moved, torn, secrets>>

Rename ==
  \/ NothingToRename \/ RenameBegins \/ MoveDatabase \/ MoveFails \/ RollBack \/ RolledBack
  \/ \E kind \in Sidecars : SkipSidecar(kind) \/ MoveSidecar(kind)
Copy == CopyDatabase \/ CopyTree \/ \E kind \in Sidecars : CopySidecar(kind)
MigrateKeys ==
  \/ KeysBegin \/ KeyCleanedUp \/ KeysEnd
  \/ \E a \in Accounts : KeyStays(a) \/ KeyWritten(a)
Open ==
  \/ OpenEmpty \/ OpenDatabase \/ OpenCorrupt \/ OpenFails
  \/ \E kind \in Sidecars : AsideSidecar(kind)
  \/ CreateTables \/ DropLogs \/ RecreateLogs \/ AddColumn \/ Opened
Work == Commit \/ Close \/ \E a \in Accounts : UserSetsKey(a)

Next == Launch \/ Rename \/ Copy \/ MigrateKeys \/ Open \/ Work \/ Crash \/ Damage
Spec == Init /\ [][Next]_vars
-----------------------------------------------------------------------------
(* The refinement *)

\* The transactions of the old database, its log perhaps moved ahead of it.
AdoptionOld ==
  IF ~Has("old", "db") THEN None
  ELSE Visible(fs["old"]) \cup
       (IF ~Has("new", "db") /\ Has("new", "wal") /\ Fits(fs["new"]["wal"], fs["old"]["db"])
        THEN fs["new"]["wal"].txns ELSE {})
\* A copy counts when it is over, an unreadable database until it is replaced.
AdoptionCurrent ==
  IF pc \in {"aside_wal", "aside_shm", "fresh"} THEN Garbage
  ELSE IF pc \in {"copy_wal", "copy_shm"} \/ ~Has("new", "db") THEN None
  ELSE IF Readable(fs["new"]) THEN Visible(fs["new"]) ELSE Garbage
AdoptionStale ==
  AdoptionCurrent = None /\ fs["new"]["wal"].of = "half"

Adoption == INSTANCE DataAdoption WITH
  old <- AdoptionOld, current <- AdoptionCurrent, stale <- AdoptionStale,
  foreign <- IF Has("foreign", "db") THEN Visible(fs["foreign"]) ELSE None

\* The launch implements the atomic adoption: whatever is interrupted or fails, no
\* transaction of the user's own database is lost or seen in part, and no new database
\* takes its place (rename_legacy_database, lib.rs:303).
AdoptsAtomically == Adoption!Spec

\* What the user can be given for the key they had last. The pass takes the oldest service
\* first (migration.rs:41, 368), so where both earlier programs left a key and the user had that
\* of the later one last, it is the older key that comes back.
GivenFor(key) == {NoKey, key} \cup (IF key = "prior" THEN {"legacy"} ELSE {})

\* The key the user last had is never lost on its way between the services: it is in this
\* program's or still where it was. This program holds no other, except for the one case that
\* GivenFor names, and a key the user has deleted does not come back (unless the marker could
\* not be written). The user is asked for the entries of an earlier program by one launch at
\* most, crashes included (migration.rs:15).
KeyFollowsUser ==
  /\ unmarked \/ asked <= 1
  /\ \A a \in Accounts :
       /\ claim[a] # NoKey => \E s \in Services : keys[s][a] = claim[a]
       /\ ~unmarked => keys["UsageDeck"][a] \in GivenFor(claim[a])

\* Whenever the program works, its database has every table and column, wherever an
\* earlier upgrade was cut off.
SchemaComplete == pc = "running" => Cols = Columns
=============================================================================
