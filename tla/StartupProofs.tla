---------------------------- MODULE StartupProofs ----------------------------
(***************************************************************************)
(* What TLAPS proves of Startup, for any processes, bridges and skills and *)
(* any legacy registry, whoever may be killed and whether or not           *)
(* statements may time out.  The schema only grows (SchemaGrows), which    *)
(* keeps what a process knows of it true while others migrate; likewise    *)
(* the skills that are in the table or were skipped (ImportGrows).         *)
(***************************************************************************)
EXTENDS Startup, TLAPS

-----------------------------------------------------------------------------
(* The type invariant.                                                     *)

\* Only rows of the legacy file are imported.
ImportsLegacy ==
    \A p \in Processes : pc[p] = "import" => todo[p] \subseteq Legacy

TypeInv == TypeOK /\ ImportsLegacy

\* INSERT OR REPLACE leaves a table of skills with their writers.
LEMMA WriteType ==
    ASSUME TypeOK, NEW s \in Skills, NEW who \in {"legacy", "agent"}
    PROVE  /\ DOMAIN Write(s, who) \subseteq Skills
           /\ \A k \in DOMAIN Write(s, who) : Write(s, who)[k] \in {"legacy", "agent"}
BY DEF Write, TypeOK

\* There are two columns, and a process is at one of them.
LEMMA ColumnsAre ==
    /\ DOMAIN Columns = {1, 2} /\ Len(Columns) = 2
    /\ AllColumns = {Columns[1], Columns[2]}
BY DEF Columns, AllColumns

\* Going on to the next column, or past the last one.
LEMMA NextColumnType ==
    ASSUME TypeOK, NEW p \in Processes, NextColumn(p)
    PROVE  /\ pc' \in [Processes -> Stages]
           /\ column' \in [Processes -> DOMAIN Columns]
           /\ tries' \in [Processes -> 0..(MaxTries - 1)]
           /\ \A q \in Processes \ {p} : pc'[q] = pc[q] /\ column'[q] = column[q]
           /\ \/ column[p] = 1 /\ column'[p] = 2 /\ pc'[p] = "probe"
              \/ column[p] = 2 /\ column'[p] = 1 /\ pc'[p] \in {"upsert", "up"}
<1>1. column[p] \in {1, 2} /\ pc[p] \in Stages
  BY ColumnsAre DEF TypeOK
<1>2. tries' \in [Processes -> 0..(MaxTries - 1)]
  BY DEF TypeOK, NextColumn, MaxTries
<1>3. CASE column[p] = 1
  <2>1. column' = [column EXCEPT ![p] = 2] /\ pc' = [pc EXCEPT ![p] = "probe"]
    BY <1>3, ColumnsAre DEF NextColumn
  <2> QED
    BY <2>1, <1>2, <1>3, ColumnsAre DEF TypeOK, Stages
<1>4. CASE column[p] = 2
  <2>1. /\ column' = [column EXCEPT ![p] = 1]
        /\ pc' = [pc EXCEPT ![p] = IF p \in Bridges THEN "upsert" ELSE "up"]
    BY <1>4, ColumnsAre DEF NextColumn
  <2> QED
    BY <2>1, <1>2, <1>4, ColumnsAre DEF TypeOK, Stages
<1> QED
  BY <1>1, <1>3, <1>4

\* A start that fails leaves nothing behind.
LEMMA FailType ==
    ASSUME TypeOK, NEW p \in Processes, Fail(p)
    PROVE  /\ pc' \in [Processes -> Stages] /\ pc'[p] = "down"
           /\ column' \in [Processes -> DOMAIN Columns]
           /\ tries' \in [Processes -> 0..(MaxTries - 1)]
           /\ todo' \in [Processes -> SUBSET Skills] /\ todo'[p] = {}
           /\ \A q \in Processes \ {p} :
                pc'[q] = pc[q] /\ column'[q] = column[q] /\ todo'[q] = todo[q]
BY ColumnsAre DEF Fail, TypeOK, Stages, MaxTries

\* The tables, the files and the processes keep their shape, the attempts at a
\* column stay below their limit, and only rows of the legacy file are skipped.
THEOREM TypeCorrect == Spec => []TypeOK
<1>1. ASSUME Init
      PROVE  TypeInv
  <2>1. /\ tables \subseteq Tables /\ columns \subseteq AllColumns
        /\ DOMAIN capabilities = {}
    BY <1>1, ColumnsAre DEF Init, Tables, Columns
  <2>2. /\ column \in [Processes -> DOMAIN Columns]
        /\ tries \in [Processes -> 0..(MaxTries - 1)]
        /\ pc \in [Processes -> Stages] /\ todo \in [Processes -> SUBSET Skills]
        /\ \A p \in Processes : todo[p] = {} /\ pc[p] = "down"
    BY <1>1, ColumnsAre DEF Init, Stages, MaxTries
  <2> QED
    BY <1>1, <2>1, <2>2 DEF Init, TypeInv, TypeOK, ImportsLegacy
<1>2. ASSUME TypeInv, [Next]_vars
      PROVE  TypeInv'
  <2> USE <1>2, StartupAssumption DEF TypeInv
  <2>1. ASSUME NEW p \in Processes, Start(p)
        PROVE  TypeInv'
    BY <2>1 DEF Start, Go, database, files, migration, history, TypeOK, ImportsLegacy, Stages
  <2>2. ASSUME NEW p \in Processes, CreateMessages(p)
        PROVE  TypeInv'
    BY <2>2 DEF CreateMessages, Go, Tables, files, migration, history, TypeOK, ImportsLegacy,
       Stages
  <2>3. ASSUME NEW p \in Processes, CreateCapabilities(p)
        PROVE  TypeInv'
    BY <2>3 DEF CreateCapabilities, Go, Tables, files, migration, history, TypeOK,
       ImportsLegacy, Stages
  <2>4. ASSUME NEW p \in Processes, Probe(p)
        PROVE  TypeInv'
    <3>1. CASE Missing(Columns[column[p]])
      BY <2>4, <3>1 DEF Probe, database, files, migration, history, TypeOK, ImportsLegacy,
         Stages
    <3>2. CASE ~ Missing(Columns[column[p]])
      BY <2>4, <3>2, NextColumnType DEF Probe, database, files, history, TypeOK, ImportsLegacy
    <3> QED
      BY <3>1, <3>2
  <2>5. ASSUME NEW p \in Processes, AddColumn(p)
        PROVE  TypeInv'
    <3>1. Columns[column[p]] \in AllColumns
      BY ColumnsAre DEF TypeOK
    <3> QED
      BY <2>5, <3>1, NextColumnType DEF AddColumn, files, history, TypeOK, ImportsLegacy
  <2>6. ASSUME NEW p \in Processes, AddFails(p)
        PROVE  TypeInv'
    <3>1. CASE MayRetry(p) /\ tries' = [tries EXCEPT ![p] = @ + 1]
               /\ pc' = [pc EXCEPT ![p] = "probe"] /\ UNCHANGED <<column, todo>>
      <4>1. tries[p] + 1 \in 0..(MaxTries - 1)
        BY <3>1 DEF MayRetry, MaxTries, TypeOK
      <4> QED
        BY <2>6, <3>1, <4>1 DEF AddFails, database, files, history, TypeOK, ImportsLegacy, Stages
    <3>2. CASE Fail(p)
      BY <2>6, <3>2, FailType DEF AddFails, database, files, history, TypeOK, ImportsLegacy
    <3> QED
      BY <2>6, <3>1, <3>2 DEF AddFails
  <2>7. ASSUME NEW p \in Processes, Busy(p) \/ Crash(p)
        PROVE  TypeInv'
    BY <2>7, FailType DEF Busy, Crash, database, files, history, TypeOK, ImportsLegacy
  <2>8. ASSUME NEW p \in Processes, Upsert(p) \/ LegacyExists(p) \/ ReadFails(p)
        PROVE  TypeInv'
    BY <2>8 DEF Upsert, LegacyExists, ReadFails, Go, database, files, migration, history, TypeOK,
       ImportsLegacy, Stages
  <2>9. ASSUME NEW p \in Processes, ReadLegacy(p)
        PROVE  TypeInv'
    BY <2>9 DEF ReadLegacy, Go, database, migration, history, TypeOK, ImportsLegacy, Stages, Skills
  <2>10. ASSUME NEW p \in Processes, ImportRow(p)
         PROVE  TypeInv'
    <3>1. PICK s \in todo[p] :
            capabilities' = Write(s, "legacy") /\ todo' = [todo EXCEPT ![p] = @ \ {s}]
      BY <2>10 DEF ImportRow
    <3>2. s \in Skills
      BY <3>1 DEF TypeOK
    <3>3. /\ DOMAIN capabilities' \subseteq Skills
          /\ \A k \in DOMAIN capabilities' : capabilities'[k] \in {"legacy", "agent"}
      BY <3>1, <3>2, WriteType DEF TypeOK
    <3> QED
      BY <2>10, <3>1, <3>3 DEF ImportRow, files, migration, history, TypeOK, ImportsLegacy
  <2>11. ASSUME NEW p \in Processes, SkipRow(p)
         PROVE  TypeInv'
    BY <2>11 DEF SkipRow, database, files, migration, TypeOK, ImportsLegacy
  <2>12. ASSUME NEW p \in Processes, Rename(p)
         PROVE  TypeInv'
    BY <2>12 DEF Rename, database, migration, history, TypeOK, ImportsLegacy, Stages
  <2>13. ASSUME NEW p \in Processes, Announce(p)
         PROVE  TypeInv'
    BY <2>13 DEF Announce, Go, database, files, migration, history, TypeOK, ImportsLegacy,
       Stages, Skills
  <2>14. ASSUME NEW p \in Processes, RegisterCapability(p)
         PROVE  TypeInv'
    <3>1. PICK s \in todo[p] :
            /\ capabilities' = Write(s, "agent")
            /\ announced' = announced \union {s}
            /\ todo' = [todo EXCEPT ![p] = @ \ {s}]
      BY <2>14 DEF RegisterCapability
    <3>2. s \in Skills
      BY <3>1 DEF TypeOK
    <3>3. /\ DOMAIN capabilities' \subseteq Skills
          /\ \A k \in DOMAIN capabilities' : capabilities'[k] \in {"legacy", "agent"}
      BY <3>1, <3>2, WriteType DEF TypeOK
    <3> QED
      BY <2>14, <3>1, <3>2, <3>3 DEF RegisterCapability, files, migration, TypeOK,
         ImportsLegacy, Stages
  <2>15. ASSUME NEW p \in Processes, AnnounceFails(p)
         PROVE  TypeInv'
    BY <2>15 DEF AnnounceFails, Go, database, files, migration, history, TypeOK,
       ImportsLegacy, Stages
  <2>16. CASE UNCHANGED vars
    BY <2>16 DEF vars, TypeOK, ImportsLegacy
  <2> QED
    BY <2>1, <2>2, <2>3, <2>4, <2>5, <2>6, <2>7, <2>8, <2>9, <2>10, <2>11, <2>12, <2>13,
       <2>14, <2>15, <2>16 DEF Next, Step, InitSchema, ImportLegacy
<1>3. TypeInv => TypeOK
  BY DEF TypeInv
<1> QED
  BY <1>1, <1>2, <1>3, PTL DEF Spec

-----------------------------------------------------------------------------
(* The schema a process relies on.                                         *)

\* What a process has seen to of the schema, by the stage it is at.
Relies(p) ==
    /\ pc[p] = "capabilities" => "messages" \in tables
    /\ pc[p] \notin {"probe", "add"} => column[p] = 1
    /\ pc[p] \in {"probe", "add"} => tables = Tables
    /\ pc[p] \in {"probe", "add"} /\ column[p] = 2 => Columns[1] \in columns
    /\ pc[p] \in {"upsert", "exists", "read", "import", "up", "announce"} =>
         tables = Tables /\ columns = AllColumns

MigrationInv == \A p \in Processes : Relies(p)

\* Nothing drops a table or a column: messages comes with all its columns only
\* where there was none.
LEMMA SchemaGrows ==
    ASSUME TypeOK, NEW p \in Processes, Step(p)
    PROVE  tables \subseteq tables' /\ columns \subseteq columns'
<1>1. CASE InitSchema(p)
  BY <1>1 DEF InitSchema, CreateMessages, CreateCapabilities, Probe, AddColumn, database, TypeOK
<1>2. CASE ImportLegacy(p)
  BY <1>2 DEF ImportLegacy, LegacyExists, ReadLegacy, ReadFails, ImportRow, SkipRow, Rename, database
<1> QED
  BY <1>1, <1>2 DEF Step, Start, AddFails, Busy, Upsert, Announce, RegisterCapability,
     AnnounceFails, Crash, database

\* A step of one process moves no other one.
LEMMA OthersStay ==
    ASSUME TypeOK, NEW p \in Processes, Step(p), NEW q \in Processes \ {p}
    PROVE  pc'[q] = pc[q] /\ column'[q] = column[q] /\ todo'[q] = todo[q]
<1>1. CASE Probe(p) \/ AddColumn(p)
  BY <1>1, NextColumnType DEF Probe, AddColumn, migration, TypeOK
<1>2. CASE CreateMessages(p) \/ CreateCapabilities(p) \/ Start(p) \/ Upsert(p)
  BY <1>2 DEF CreateMessages, CreateCapabilities, Start, Upsert, Go, migration, TypeOK
<1>3. CASE AddFails(p) \/ Busy(p) \/ Crash(p)
  <2>1. CASE Fail(p)
    BY <2>1, FailType
  <2>2. CASE pc' = [pc EXCEPT ![p] = "probe"] /\ UNCHANGED <<column, todo>>
    BY <2>2 DEF TypeOK
  <2> QED
    BY <1>3, <2>1, <2>2 DEF AddFails, Busy, Crash
<1>4. CASE ImportLegacy(p)
  BY <1>4 DEF ImportLegacy, LegacyExists, ReadLegacy, ReadFails, ImportRow, SkipRow, Rename, Go, migration,
     TypeOK
<1>5. CASE Announce(p) \/ RegisterCapability(p) \/ AnnounceFails(p)
  BY <1>5 DEF Announce, RegisterCapability, AnnounceFails, Go, migration, TypeOK
<1> QED
  BY <1>1, <1>2, <1>3, <1>4, <1>5 DEF Step, InitSchema

\* The process that moves relies on no more than it has seen to.
LEMMA MoverRelies ==
    ASSUME TypeOK, TypeOK', NEW p \in Processes, Relies(p), Step(p)
    PROVE  Relies(p)'
<1>1. CASE Start(p)
  BY <1>1 DEF Start, Go, TypeOK, Relies, migration
<1>2. CASE CreateMessages(p)
  BY <1>2 DEF CreateMessages, Go, TypeOK, Relies, migration
<1>3. CASE CreateCapabilities(p)
  <2>1. tables' = Tables
    <3>1. "messages" \in tables /\ tables' = tables \union {"capabilities"}
      BY <1>3 DEF CreateCapabilities, Go, Relies
    <3>2. tables \subseteq {"messages", "capabilities"}
      BY DEF TypeOK, Tables
    <3> QED
      BY <3>1, <3>2 DEF Tables
  <2>2. pc'[p] = "probe" /\ column'[p] = 1
    BY <1>3 DEF CreateCapabilities, Go, TypeOK, Relies, migration
  <2> QED
    BY <2>1, <2>2 DEF Relies
<1>4. CASE Probe(p)
  <2>1. CASE Missing(Columns[column[p]])
    <3>1. /\ pc[p] = "probe" /\ pc'[p] = "add" /\ column'[p] = column[p]
          /\ tables' = tables /\ columns' = columns
      BY <1>4, <2>1 DEF Probe, TypeOK, database, migration
    <3> QED
      BY <3>1 DEF Relies
  <2>2. CASE ~ Missing(Columns[column[p]])
    <3>1. Columns[column[p]] \in columns' /\ tables' = Tables /\ columns' = columns
      BY <1>4, <2>2 DEF Probe, Missing, Relies, database
    <3> QED
      BY <1>4, <2>2, <3>1, NextColumnType, ColumnsAre DEF Probe, TypeOK, Relies
  <2> QED
    BY <2>1, <2>2
<1>5. CASE AddColumn(p)
  <2>1. /\ Columns[column[p]] \in columns' /\ columns \subseteq columns'
        /\ tables' = Tables
    BY <1>5 DEF AddColumn, Relies
  <2> QED
    BY <1>5, <2>1, NextColumnType, ColumnsAre DEF AddColumn, TypeOK, Relies
<1>6. CASE AddFails(p) \/ Busy(p) \/ Crash(p)
  <2>1. CASE Fail(p)
    <3>1. pc'[p] = "down" /\ column'[p] = 1
      BY <2>1, FailType DEF Fail, TypeOK
    <3> QED
      BY <3>1 DEF Relies
  <2>2. CASE AddFails(p) /\ pc' = [pc EXCEPT ![p] = "probe"] /\ UNCHANGED <<column, todo>>
    BY <2>2 DEF AddFails, TypeOK, Relies, database
  <2> QED
    BY <1>6, <2>1, <2>2 DEF AddFails, Busy, Crash
<1>7. CASE \/ Upsert(p) \/ LegacyExists(p) \/ ReadLegacy(p) \/ ReadFails(p)
           \/ ImportRow(p) \/ SkipRow(p) \/ Rename(p)
  BY <1>7 DEF Upsert, LegacyExists, ReadLegacy, ReadFails, ImportRow, SkipRow, Rename, Imported, Go,
     TypeOK, Relies, database, migration
<1>8. CASE Announce(p) \/ RegisterCapability(p) \/ AnnounceFails(p)
  BY <1>8 DEF Announce, RegisterCapability, AnnounceFails, Go, TypeOK, Relies, database, migration
<1> QED
  BY <1>1, <1>2, <1>3, <1>4, <1>5, <1>6, <1>7, <1>8 DEF Step, InitSchema, ImportLegacy

\* A process that is past init_schema finds both tables and every column it
\* will use, whoever else starts, dies halfway or holds the lock.
THEOREM ReadyProcessIsMigrated == Spec => []ReadyIsMigrated
<1>1. Init => MigrationInv
  BY DEF Init, MigrationInv, Relies
<1>2. ASSUME TypeOK, TypeOK', MigrationInv, [Next]_vars
      PROVE  MigrationInv'
  <2>1. ASSUME NEW p \in Processes, Step(p), NEW q \in Processes
        PROVE  Relies(q)'
    <3>1. CASE q = p
      BY <1>2, <2>1, <3>1, MoverRelies DEF MigrationInv
    <3>2. CASE q # p
      <4>1. pc'[q] = pc[q] /\ column'[q] = column[q]
        BY <1>2, <2>1, <3>2, OthersStay
      <4>2. tables \subseteq tables' /\ columns \subseteq columns'
        BY <1>2, <2>1, SchemaGrows
      <4>3. tables' \subseteq Tables /\ columns' \subseteq AllColumns
        BY <1>2 DEF TypeOK
      <4> QED
        BY <1>2, <4>1, <4>2, <4>3 DEF MigrationInv, Relies
    <3> QED
      BY <3>1, <3>2
  <2>2. CASE UNCHANGED vars
    BY <1>2, <2>2 DEF vars, MigrationInv, Relies
  <2> QED
    BY <1>2, <2>1, <2>2 DEF Next, MigrationInv
<1>3. MigrationInv => ReadyIsMigrated
  BY DEF MigrationInv, Relies, ReadyIsMigrated
<1> QED
  BY <1>1, <1>2, <1>3, TypeCorrect, PTL DEF Spec

-----------------------------------------------------------------------------
(* The import of the legacy registry.                                      *)

\* The skills that are accounted for.
Accounted == DOMAIN capabilities \union skipped

\* A bridge that imports has accounted for all but its todo.
ImportInv ==
    /\ \A p \in Processes : pc[p] = "import" => Legacy \ todo[p] \subseteq Accounted
    /\ NoRowIsLost

\* Nothing deletes a registration.
LEMMA ImportGrows ==
    ASSUME NEW p \in Processes, Step(p)
    PROVE  Accounted \subseteq Accounted'
<1>1. CASE ImportRow(p) \/ RegisterCapability(p)
  <2>1. PICK s, who : capabilities' = Write(s, who) /\ skipped' = skipped
    BY <1>1 DEF ImportRow, RegisterCapability, history
  <2>2. DOMAIN capabilities \subseteq DOMAIN capabilities'
    BY <2>1 DEF Write
  <2> QED
    BY <2>1, <2>2 DEF Accounted
<1>2. CASE InitSchema(p)
  BY <1>2 DEF InitSchema, CreateMessages, CreateCapabilities, Probe, AddColumn, database, history,
     Accounted
<1>3. CASE LegacyExists(p) \/ ReadLegacy(p) \/ ReadFails(p) \/ SkipRow(p) \/ Rename(p)
  BY <1>3 DEF LegacyExists, ReadLegacy, ReadFails, SkipRow, Rename, database, history, Accounted
<1> QED
  BY <1>1, <1>2, <1>3 DEF Step, ImportLegacy, Start, AddFails, Busy, Upsert, Announce,
     AnnounceFails, Crash, database, history, Accounted

\* A bridge enters the import with every row to do, and a row leaves todo only
\* when it is accounted for.
LEMMA ImporterAccounts ==
    ASSUME TypeOK, NEW p \in Processes, Step(p), pc'[p] = "import",
           pc[p] = "import" => Legacy \ todo[p] \subseteq Accounted
    PROVE  Legacy \ todo'[p] \subseteq Accounted'
<1>1. CASE ReadLegacy(p)
  BY <1>1 DEF ReadLegacy, Go, TypeOK
<1>2. CASE ImportRow(p)
  <2>1. PICK s \in todo[p] :
          capabilities' = Write(s, "legacy") /\ todo' = [todo EXCEPT ![p] = @ \ {s}]
    BY <1>2 DEF ImportRow
  <2>2. s \in DOMAIN capabilities' /\ Accounted \subseteq Accounted'
    BY <2>1, ImportGrows DEF Write
  <2> QED
    BY <1>2, <2>1, <2>2 DEF ImportRow, TypeOK, Accounted
<1>3. CASE SkipRow(p)
  <2>1. PICK s \in todo[p] :
          skipped' = skipped \union {s} /\ todo' = [todo EXCEPT ![p] = @ \ {s}]
    BY <1>3 DEF SkipRow
  <2>2. s \in Accounted' /\ Accounted \subseteq Accounted'
    BY <2>1, ImportGrows DEF Accounted
  <2> QED
    BY <1>3, <2>1, <2>2 DEF SkipRow, TypeOK
<1>4. CASE Probe(p) \/ AddColumn(p)
  BY <1>4, NextColumnType DEF Probe, AddColumn, TypeOK
<1>5. CASE AddFails(p) \/ Busy(p) \/ Crash(p)
  BY <1>5, FailType DEF AddFails, Busy, Crash, TypeOK
<1> QED
  BY <1>1, <1>2, <1>3, <1>4, <1>5 DEF Step, InitSchema, ImportLegacy, Start, CreateMessages,
     CreateCapabilities, Upsert, LegacyExists, ReadFails, Rename, Announce, RegisterCapability,
     AnnounceFails, Go, TypeOK

\* The legacy file goes only once all of its rows are accounted for.
LEMMA RenamedWhenDone ==
    ASSUME NEW p \in Processes, Step(p), legacy = "full", legacy' # "full"
    PROVE  pc[p] = "import" /\ todo[p] = {}
<1>1. ~ ReadLegacy(p)
  BY DEF ReadLegacy
<1>2. CASE Rename(p)
  BY <1>2 DEF Rename, Imported
<1> QED
  BY <1>1, <1>2 DEF Step, InitSchema, ImportLegacy, Start, CreateMessages, CreateCapabilities,
     Probe, AddColumn, AddFails, Busy, Upsert, LegacyExists, ReadFails, ImportRow, SkipRow, Announce,
     RegisterCapability, AnnounceFails, Crash, files

\* No skill of the legacy registry is lost when its file is renamed, except those
\* whose INSERT timed out, however many bridges import it and whoever dies.
THEOREM ImportLosesNoRow == Spec => []NoRowIsLost
<1>1. Init => ImportInv
  BY DEF Init, ImportInv, NoRowIsLost
<1>2. ASSUME TypeOK, ImportInv, [Next]_vars
      PROVE  ImportInv'
  <2>1. ASSUME NEW p \in Processes, Step(p)
        PROVE  ImportInv'
    <3>1. Accounted \subseteq Accounted'
      BY <2>1, ImportGrows
    <3>2. ASSUME NEW q \in Processes, pc'[q] = "import"
          PROVE  Legacy \ todo'[q] \subseteq Accounted'
      <4>1. CASE q = p
        BY <1>2, <2>1, <3>2, <4>1, ImporterAccounts DEF ImportInv
      <4>2. CASE q # p
        BY <1>2, <2>1, <3>1, <3>2, <4>2, OthersStay DEF ImportInv
      <4> QED
        BY <4>1, <4>2
    <3>3. NoRowIsLost'
      <4>1. CASE legacy = "full" /\ legacy' # "full"
        <5>1. Legacy \subseteq Accounted
          BY <1>2, <2>1, <4>1, RenamedWhenDone DEF ImportInv
        <5> QED
          BY <3>1, <5>1 DEF NoRowIsLost, Accounted
      <4>2. CASE legacy # "full"
        BY <1>2, <3>1, <4>2 DEF ImportInv, NoRowIsLost, Accounted
      <4> QED
        BY <4>1, <4>2 DEF NoRowIsLost
    <3> QED
      BY <3>2, <3>3 DEF ImportInv
  <2>2. CASE UNCHANGED vars
    BY <1>2, <2>2 DEF vars, ImportInv, NoRowIsLost, Accounted
  <2> QED
    BY <1>2, <2>1, <2>2 DEF Next
<1>3. ImportInv => NoRowIsLost
  BY DEF ImportInv
<1> QED
  BY <1>1, <1>2, <1>3, TypeCorrect, PTL DEF Spec
=============================================================================
