------------------------------- MODULE Startup -------------------------------
(***************************************************************************)
(* How the processes of one machine start on a database that an older      *)
(* version left: each completes the schema (Store.init_schema), and the    *)
(* bridges among them then import the skills of the legacy registry file   *)
(* and rename it (server.py, build_server).  Bridges that are up register  *)
(* the skills their agents announce.  There is no lock around any of it    *)
(* but the database's own: an action is one transaction on the shared      *)
(* database, or one operation on the legacy file.                          *)
(***************************************************************************)
EXTENDS Integers, Sequences

CONSTANTS
    Processes,     \* processes that open the database
    Bridges,       \* those that are bridges; the others only init_schema
    Mortal,        \* processes that may be killed
    Legacy,        \* rows of the legacy registry: skills, each of one agent
    Offered,       \* the skills agents announce since
    LockTimeouts   \* whether a statement may find the database locked for 5 s

ASSUME StartupAssumption ==
    /\ Bridges \subseteq Processes /\ Mortal \subseteq Processes
    /\ LockTimeouts \in BOOLEAN

Skills == Legacy \union Offered

VARIABLES
    tables,        \* the tables "messages" and "capabilities" that exist
    columns,       \* those of the migrated columns that messages has
    capabilities,  \* from registered skills to who wrote the row
    legacy,        \* the legacy file: "full", "empty" (no table in it), "gone"
    backup,        \* the file it was renamed to
    pc,            \* where each process is in its start or its call
    column,        \* which column it adds, and
    tries,         \* how many attempts at it have failed
    todo,          \* skills a process has yet to register
    announced,     \* history: skills announced since the upgrade
    skipped        \* history: skills whose import met a lock and was skipped

vars == <<tables, columns, capabilities, legacy, backup, pc, column, tries, todo, announced, skipped>>
database == <<tables, columns, capabilities>>
files == <<legacy, backup>>
migration == <<column, tries>>
history == <<announced, skipped>>

(***************************************************************************)
(* The schema.                                                             *)
(***************************************************************************)
Tables == {"messages", "capabilities"}

\* The columns added since v0.4, in the order of _migrate_schema.
Columns == <<"sender_session_id", "intent">>
AllColumns == {Columns[i] : i \in DOMAIN Columns}

MaxTries == 3

\* What an older version may have left: no tables, messages as of v0.4, v0.5
\* or v0.6, or everything.
Init ==
    /\ \/ tables = {} /\ columns = {}
       \/ tables = {"messages"} /\ columns \in {{}, {"sender_session_id"}, AllColumns}
       \/ tables = Tables /\ columns = AllColumns
    /\ capabilities = [s \in {} |-> "legacy"]
    /\ legacy = "full" /\ backup = "gone"
    /\ pc = [p \in Processes |-> "down"]
    /\ column = [p \in Processes |-> 1]
    /\ tries = [p \in Processes |-> 0]
    /\ todo = [p \in Processes |-> {}]
    /\ announced = {} /\ skipped = {}

Go(p, from, to) == pc[p] = from /\ pc' = [pc EXCEPT ![p] = to]

\* Store(): opening the file creates nothing that matters here.
Start(p) ==
    /\ Go(p, "down", "messages")
    /\ UNCHANGED <<database, files, migration, todo, history>>

\* CREATE TABLE IF NOT EXISTS messages, with every column of today.
CreateMessages(p) ==
    /\ Go(p, "messages", "capabilities")
    /\ columns' = IF "messages" \in tables THEN columns ELSE AllColumns
    /\ tables' = tables \union {"messages"}
    /\ UNCHANGED <<capabilities, files, migration, todo, history>>

\* CREATE TABLE IF NOT EXISTS capabilities.  Each statement of the script
\* commits by itself.
CreateCapabilities(p) ==
    /\ Go(p, "capabilities", "probe")
    /\ tables' = tables \union {"capabilities"}
    /\ UNCHANGED <<columns, capabilities, files, migration, todo, history>>

\* Mutant: the probe sees no column, as if it looked at another table.
SeesNone(c) == TRUE

\* PRAGMA table_info, by the probe and again inside the transaction.
Missing(c) == c \notin columns

\* Mutant: the migration stops after the first column.
OneColumn(p) ==
    /\ pc' = [pc EXCEPT ![p] = IF p \in Bridges THEN "upsert" ELSE "up"]
    /\ column' = column /\ tries' = tries

\* The current column is there: the next one, or what follows init_schema.
NextColumn(p) ==
    /\ tries' = [tries EXCEPT ![p] = 0]
    /\ IF column[p] < Len(Columns)
       THEN /\ column' = [column EXCEPT ![p] = @ + 1]
            /\ pc' = [pc EXCEPT ![p] = "probe"]
       ELSE /\ column' = [column EXCEPT ![p] = 1]
            /\ pc' = [pc EXCEPT ![p] = IF p \in Bridges THEN "upsert" ELSE "up"]

\* _add_column_if_missing, the probe outside the transaction.
Probe(p) ==
    /\ pc[p] = "probe"
    /\ IF Missing(Columns[column[p]])
       THEN pc' = [pc EXCEPT ![p] = "add"] /\ UNCHANGED migration
       ELSE NextColumn(p)
    /\ UNCHANGED <<database, files, todo, history>>

\* SQLite refuses to add a column twice.
Duplicate(c) == Missing(c) /\ c \in columns

\* The transaction: probe again, ALTER TABLE if the column is still missing.
AddColumn(p) ==
    /\ pc[p] = "add"
    /\ ~ Duplicate(Columns[column[p]])
    /\ columns' = columns \union {Columns[column[p]]}
    /\ NextColumn(p)
    /\ UNCHANGED <<tables, capabilities, files, todo, history>>

\* A start that raises ends the process.
Fail(p) ==
    /\ pc' = [pc EXCEPT ![p] = "down"]
    /\ column' = [column EXCEPT ![p] = 1]
    /\ tries' = [tries EXCEPT ![p] = 0]
    /\ todo' = [todo EXCEPT ![p] = {}]

\* Mutant: off by one.
MayRetryOnceMore(p) == tries[p] < MaxTries

MayRetry(p) == tries[p] + 1 < MaxTries

\* BEGIN IMMEDIATE or ALTER TABLE raises: tenacity tries again, from the first
\* probe, MaxTries times in all.
AddFails(p) ==
    /\ pc[p] = "add"
    /\ LockTimeouts \/ Duplicate(Columns[column[p]])
    /\ \/ /\ MayRetry(p)
          /\ tries' = [tries EXCEPT ![p] = @ + 1]
          /\ pc' = [pc EXCEPT ![p] = "probe"]
          /\ UNCHANGED <<column, todo>>
       \/ ~ MayRetry(p) /\ Fail(p)
    /\ UNCHANGED <<database, files, history>>

\* Any other statement of the start that finds the database locked.
Busy(p) ==
    /\ LockTimeouts
    /\ pc[p] \in {"messages", "capabilities", "upsert"}
    /\ Fail(p)
    /\ UNCHANGED <<database, files, history>>

Upsert(p) ==
    /\ Go(p, "upsert", "exists")
    /\ UNCHANGED <<database, files, migration, todo, history>>

(***************************************************************************)
(* The import of the legacy registry.                                      *)
(***************************************************************************)
LegacyExists(p) ==
    /\ Go(p, "exists", IF legacy = "gone" THEN "up" ELSE "read")
    /\ UNCHANGED <<database, files, migration, todo, history>>

\* sqlite3.connect and SELECT.  Connecting creates an empty file if another
\* bridge has renamed the file since; without the table the SELECT raises, and
\* the bridge starts without an import.
ReadLegacy(p) ==
    /\ Go(p, "read", IF legacy = "full" THEN "import" ELSE "up")
    /\ legacy' = IF legacy = "gone" THEN "empty" ELSE legacy
    /\ todo' = [todo EXCEPT ![p] = IF legacy = "full" THEN Legacy ELSE {}]
    /\ UNCHANGED <<database, backup, migration, history>>

\* A file that cannot be read, whatever is in it, is left for the next start.
ReadFails(p) ==
    /\ Go(p, "read", "up")
    /\ UNCHANGED <<database, files, migration, todo, history>>

\* INSERT OR REPLACE.
Write(s, who) ==
    [k \in DOMAIN capabilities \union {s} |-> IF k = s THEN who ELSE capabilities[k]]

\* One row of those it read, whatever the table says of that skill by now.
ImportRow(p) ==
    /\ pc[p] = "import"
    /\ \E s \in todo[p] :
        /\ capabilities' = Write(s, "legacy")
        /\ todo' = [todo EXCEPT ![p] = @ \ {s}]
    /\ UNCHANGED <<tables, columns, files, pc, migration, history>>

\* A row whose INSERT times out: contextlib.suppress(Exception).  A row the table
\* refuses ends the same way.
SkipRow(p) ==
    /\ LockTimeouts
    /\ pc[p] = "import"
    /\ \E s \in todo[p] :
        /\ skipped' = skipped \union {s}
        /\ todo' = [todo EXCEPT ![p] = @ \ {s}]
    /\ UNCHANGED <<database, files, pc, migration, announced>>

\* Mutant: the file is renamed when it has been read.
RenamesFirst(p) == pc[p] = "import" /\ todo[p] = Legacy

\* All rows are done with.
Imported(p) == pc[p] = "import" /\ todo[p] = {}

\* rename replaces a backup that is there, and fails if the file is gone, which
\* is logged.
Rename(p) ==
    /\ Imported(p)
    /\ pc' = [pc EXCEPT ![p] = "up"]
    /\ todo' = [todo EXCEPT ![p] = {}]
    /\ legacy' = "gone"
    /\ backup' = IF legacy = "gone" THEN backup ELSE legacy
    /\ UNCHANGED <<database, migration, history>>

(***************************************************************************)
(* A bridge that is up.                                                    *)
(***************************************************************************)
\* capability_announce, which registers the skills of a call one by one,
Announce(p) ==
    /\ p \in Bridges
    /\ Go(p, "up", "announce")
    /\ \E skills \in SUBSET Offered \ {{}} : todo' = [todo EXCEPT ![p] = skills]
    /\ UNCHANGED <<database, files, migration, history>>

\* each in a transaction of its own,
RegisterCapability(p) ==
    /\ pc[p] = "announce"
    /\ \E s \in todo[p] :
        /\ capabilities' = Write(s, "agent")
        /\ announced' = announced \union {s}
        /\ todo' = [todo EXCEPT ![p] = @ \ {s}]
    /\ pc' = [pc EXCEPT ![p] = IF todo'[p] = {} THEN "up" ELSE "announce"]
    /\ UNCHANGED <<tables, columns, files, migration, skipped>>

\* and leaves those it has registered if the next one times out.
AnnounceFails(p) ==
    /\ LockTimeouts
    /\ Go(p, "announce", "up")
    /\ todo' = [todo EXCEPT ![p] = {}]
    /\ UNCHANGED <<database, files, migration, history>>

\* A process is killed, or exits.
Crash(p) ==
    /\ p \in Mortal /\ pc[p] # "down"
    /\ Fail(p)
    /\ UNCHANGED <<database, files, history>>

InitSchema(p) ==
    \/ CreateMessages(p) \/ CreateCapabilities(p) \/ Probe(p) \/ AddColumn(p)

ImportLegacy(p) ==
    \/ LegacyExists(p) \/ ReadLegacy(p) \/ ReadFails(p)
    \/ ImportRow(p) \/ SkipRow(p) \/ Rename(p)

Step(p) ==
    \/ Start(p) \/ InitSchema(p) \/ AddFails(p) \/ Busy(p) \/ Upsert(p) \/ ImportLegacy(p)
    \/ Announce(p) \/ RegisterCapability(p) \/ AnnounceFails(p) \/ Crash(p)

Next == \E p \in Processes : Step(p)

Spec == Init /\ [][Next]_vars

\* A process that is not killed is started again when its start has failed, and
\* its statements get the lock in the end; nothing is assumed of mortal ones.
FairSpec ==
    /\ Spec
    /\ \A p \in Processes \ Mortal :
        /\ WF_vars(Start(p)) /\ WF_vars(Probe(p)) /\ WF_vars(ImportLegacy(p))
        /\ SF_vars(CreateMessages(p)) /\ SF_vars(CreateCapabilities(p))
        /\ SF_vars(AddColumn(p)) /\ SF_vars(Upsert(p))

(***************************************************************************)
(* Properties.                                                             *)
(***************************************************************************)
Stages ==
    {"down", "messages", "capabilities", "probe", "add", "upsert", "exists", "read", "import",
     "up", "announce"}

\* Types; tries stay below the limit of _add_column_if_missing, and only a call
\* or an import has skills left to register.
TypeOK ==
    /\ tables \subseteq Tables /\ columns \subseteq AllColumns
    /\ DOMAIN capabilities \subseteq Skills
    /\ \A s \in DOMAIN capabilities : capabilities[s] \in {"legacy", "agent"}
    /\ legacy \in {"full", "empty", "gone"} /\ backup \in {"full", "empty", "gone"}
    /\ pc \in [Processes -> Stages]
    /\ column \in [Processes -> DOMAIN Columns]
    /\ tries \in [Processes -> 0..(MaxTries - 1)]
    /\ todo \in [Processes -> SUBSET Skills]
    /\ \A p \in Processes : todo[p] # {} => pc[p] \in {"import", "announce"}
    /\ announced \subseteq Skills /\ skipped \subseteq Legacy

\* Whatever version left the database, whoever else starts, dies halfway or
\* holds the lock: a process that is past init_schema finds both tables and
\* every column it will use.
ReadyIsMigrated ==
    \A p \in Processes :
        pc[p] \in {"upsert", "exists", "read", "import", "up", "announce"} =>
            tables = Tables /\ columns = AllColumns

\* The legacy file is renamed only when its skills are in the database, by this
\* bridge's import or another's, except those whose INSERT timed out.
NoRowIsLost ==
    legacy # "full" => Legacy \subseteq DOMAIN capabilities \union skipped

\* A process that is not killed gets up in the end, though others add the same
\* columns at the same time, or died while they did, and though its attempts
\* at the lock may fail: "the loser eventually succeeds" (store.py).
EventuallyUp ==
    \A p \in Processes \ Mortal : <>(pc[p] = "up")

\* What an agent has announced, the import of an older registry leaves alone:
\* the comment in _migrate_legacy_registry calls it INSERT OR IGNORE.
AnnouncementStands ==
    \A s \in announced : capabilities[s] = "agent"
=============================================================================
