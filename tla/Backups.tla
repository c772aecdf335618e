------------------------------ MODULE Backups ------------------------------
(***************************************************************************)
(* Backups and restores of a panel on SQLite, made by requests while the   *)
(* panel goes on writing (migrate/backup.go, BackupService,                *)
(* api/handler_migrate.go).  Both work on files: a backup checkpoints the  *)
(* write-ahead log and copies the database file into a zip, a restore      *)
(* saves the file as .before-restore, removes the log and renames the      *)
(* extracted file over it, under the connections the panel has open.       *)
(*                                                                         *)
(* The content of a database is the number of the last transaction it      *)
(* holds: 0 for the first, one more for each.  A copy during which the     *)
(* file was written is Torn.  A file with a log beside it reads as the     *)
(* log says (SQLite).  Connections are not replaced while the panel runs.  *)
(***************************************************************************)
EXTENDS Naturals, FiniteSets

CONSTANTS
  Makers,      \* requests that may make a backup at the same time
  Zips,        \* names of backup files, one for each second
  NoFile,      \* no such file
  Torn,        \* a copy of a file that was written meanwhile
  Broken,      \* a zip that does not open or does not extract
  MaxCommits,  \* bound: transactions
  MaxRestores, \* bound: restores begun
  MaxMishaps   \* bound: failures and crashes

ASSUME BackupBounds == {MaxCommits, MaxRestores, MaxMishaps} \subseteq Nat
ASSUME BackupValues ==
  /\ NoFile # Torn /\ NoFile # Broken /\ {NoFile, Torn} \cap Nat = {}
  /\ {NoFile, Broken} \cap [data : Nat \cup {Torn}, asked : Nat \cup {Torn}, sure : BOOLEAN] = {}

VARIABLES
  content,  \* what each file (inode) holds
  at, wal,  \* the file at database-path, the log beside it
  mine, own, logged, \* the file the panel has open, what it sees, whether
            \*   its log is the one beside the file
  latest,     \* the last transaction
  listed,   \* the backups table as of each transaction
  zips,     \* the backup files
  maker, restore, \* the requests under way
  before,   \* the .before-restore file and its log
  reused,   \* history: names given to more than one backup
  restores, mishaps \* bounds

panelFiles == <<content, at, wal, mine, own, logged, latest, listed>>
backupVars == <<content, at, wal, mine, own, logged, latest, listed, zips, maker,
                restore, before, reused, restores, mishaps>>

Adding(f, key, value) == [k \in DOMAIN f \cup {key} |-> IF k = key THEN value ELSE f[k]]
Read(main, log) == IF log # NoFile THEN log ELSE main
OnDisk == Read(content[at], wal) \* what a panel started now would see

NoMaker == [pc |-> "idle"]
NoRestore == [pc |-> "idle", sure |-> TRUE]

InitBackups ==
  /\ content = [file \in {0} |-> 0] /\ at = 0 /\ wal = NoFile
  /\ mine = 0 /\ own = 0 /\ logged = TRUE /\ latest = 0
  /\ listed = [c \in {0} |-> {}]
  /\ zips = [z \in Zips |-> NoFile]
  /\ maker = [m \in Makers |-> NoMaker] /\ restore = NoRestore
  /\ before = [main |-> NoFile, log |-> NoFile]
  /\ reused = {} /\ restores = 0 /\ mishaps = 0

---------------------------------------------------------------------------
\* The database

\* A transaction of the panel, which leaves `list` in the backups table.
Commit(list) ==
  /\ latest < MaxCommits
  /\ latest' = latest + 1 /\ own' = latest + 1
  /\ listed' = Adding(listed, latest + 1, list)
  /\ wal' = IF logged THEN latest + 1 ELSE wal
  /\ UNCHANGED <<content, at, mine, logged>>

\* What becomes of a copy of the file at database-path when that is written.
Disturbed(copy, i, written) ==
  IF written /\ copy.pc \in {"copying", "saving"} /\ copy.file = i
  THEN [copy EXCEPT !.data = Torn, !.sure = FALSE] ELSE copy

\* Backups under way when the database is replaced.
Overtaken == [m \in Makers |-> IF maker[m].pc \in {"opened", "copying", "copied"}
                                THEN [maker[m] EXCEPT !.sure = FALSE] ELSE maker[m]]

PanelWorks ==
  /\ Commit(listed[own])
  /\ restore' = IF logged /\ restore.pc \in {"begun", "saving"}
                THEN [restore EXCEPT !.sure = FALSE] ELSE restore
  /\ UNCHANGED <<zips, maker, before, reused, restores, mishaps>>

\* The panel's own connections move their log into the file they have open, even
\* one that was removed into a database that was overwritten where it was.
Spoils == ~logged /\ mine = at
AutoCheckpoint ==
  /\ content[mine] # own
  /\ content' = [content EXCEPT ![mine] = own]
  /\ maker' = [m \in Makers |-> Disturbed(IF Spoils THEN Overtaken[m] ELSE maker[m], mine, TRUE)]
  /\ restore' = IF Spoils /\ restore.pc = "begun" THEN [restore EXCEPT !.sure = FALSE]
                ELSE Disturbed(restore, mine, TRUE)
  /\ UNCHANGED <<at, wal, mine, own, logged, latest, listed, zips, before, reused,
                 restores, mishaps>>

\* checkpointSQLite: a connection of its own empties the log into the file
\* at database-path.  It may fail, and nobody looks.
Emptied == content' = [content EXCEPT ![at] = OnDisk] /\ wal' = NoFile

---------------------------------------------------------------------------
\* CreateBackup and RegisterBackup

Makes(m, state) == maker' = [maker EXCEPT ![m] = state]
At(m, pc) == maker[m].pc = pc

\* The file is created, or emptied if it exists; "mixed" when somebody else is
\* writing it too.
OpenZip(m, z) ==
  LET named == {k \in Makers \ {m} : ~At(k, "idle") /\ maker[k].zip = z}
      also == {k \in named : ~At(k, "made")} IN
  /\ At(m, "idle")
  /\ zips' = [zips EXCEPT ![z] = Broken]
  /\ reused' = IF zips[z] # NoFile \/ named # {} \/ z \in UNION {listed[c] : c \in DOMAIN listed}
               THEN reused \cup {z} ELSE reused
  /\ maker' = [k \in Makers |->
       IF k = m THEN [pc |-> "opened", zip |-> z, mixed |-> also # {}, asked |-> OnDisk,
                        sure |-> OnDisk # Torn]
       ELSE IF k \in also THEN [maker[k] EXCEPT !.mixed = TRUE] ELSE maker[k]]
  /\ UNCHANGED <<panelFiles, restore, before, restores, mishaps>>

\* The log is emptied if that works; then the file is copied, from here to
\* Copied.
writeSQLiteEntry(m) ==
  \E works \in BOOLEAN :
    /\ At(m, "opened")
    /\ works \/ mishaps < MaxMishaps
    /\ mishaps' = mishaps + IF works THEN 0 ELSE 1
    /\ IF works THEN Emptied ELSE UNCHANGED <<content, wal>>
    /\ maker' = [k \in Makers |->
         IF k = m THEN [pc |-> "copying", zip |-> maker[m].zip, mixed |-> maker[m].mixed,
                        asked |-> maker[m].asked, file |-> at, data |-> content'[at],
                        sure |-> maker[m].sure /\ works]
         ELSE Disturbed(maker[k], at, content'[at] # content[at])]
    /\ restore' = Disturbed(restore, at, wal' # wal)
    /\ UNCHANGED <<at, mine, own, logged, latest, listed, zips, before, reused, restores>>

Copied(m) ==
  /\ At(m, "copying") /\ Makes(m, [maker[m] EXCEPT !.pc = "copied"])
  /\ UNCHANGED <<panelFiles, zips, restore, before, reused, restores, mishaps>>

\* Rows are counted, the configuration and the manifest written and the zip
\* closed, unless another request has removed it.
CloseZip(m) ==
  LET z == maker[m].zip IN
  /\ At(m, "copied")
  /\ IF zips[z] = NoFile THEN Makes(m, NoMaker) /\ zips' = zips
     ELSE /\ Makes(m, [pc |-> "made", zip |-> z])
          /\ zips' = [zips EXCEPT ![z] =
               IF maker[m].mixed THEN Broken
               ELSE [data |-> maker[m].data, asked |-> maker[m].asked, sure |-> maker[m].sure]]
  /\ UNCHANGED <<panelFiles, restore, before, reused, restores, mishaps>>

\* A step fails: what there is of the file is removed.
RemoveZip(m) ==
  /\ ~At(m, "idle") /\ ~At(m, "made") /\ mishaps < MaxMishaps
  /\ mishaps' = mishaps + 1
  /\ zips' = [zips EXCEPT ![maker[m].zip] = NoFile] /\ Makes(m, NoMaker)
  /\ UNCHANGED <<panelFiles, restore, before, reused, restores>>

\* The record replaces those of the same file; one that cannot be written
\* leaves the zip unlisted.
RegisterBackup(m) ==
  LET z == maker[m].zip IN
  /\ At(m, "made") /\ Makes(m, NoMaker)
  /\ \/ zips[z] # NoFile /\ Commit(listed[own] \cup {z}) /\ mishaps' = mishaps
     \/ zips[z] = NoFile /\ UNCHANGED <<panelFiles, mishaps>>
     \/ mishaps < MaxMishaps /\ mishaps' = mishaps + 1 /\ UNCHANGED panelFiles
  /\ restore' = IF latest' # latest /\ logged /\ restore.pc \in {"begun", "saving"}
                THEN [restore EXCEPT !.sure = FALSE] ELSE restore
  /\ UNCHANGED <<zips, before, reused, restores>>

\* DeleteBackup: the file first, then the record (which may fail).
DeleteBackup(z) ==
  /\ z \in listed[own]
  /\ zips' = [zips EXCEPT ![z] = NoFile]
  /\ \/ Commit(listed[own] \ {z}) /\ mishaps' = mishaps
     \/ mishaps < MaxMishaps /\ mishaps' = mishaps + 1 /\ UNCHANGED panelFiles
  /\ restore' = IF latest' # latest /\ logged /\ restore.pc \in {"begun", "saving"}
                THEN [restore EXCEPT !.sure = FALSE] ELSE restore
  /\ UNCHANGED <<maker, before, reused, restores>>

---------------------------------------------------------------------------
\* RestoreBackup

Stays == UNCHANGED <<at, mine, own, latest, listed, zips, reused>>

\* A listed file that is there; a zip without a manifest is refused unread.
BeginRestore(z) ==
  /\ restore.pc \in {"idle", "done"} /\ restores < MaxRestores
  /\ z \in listed[own] /\ zips[z] # NoFile /\ zips[z] # Broken
  /\ restores' = restores + 1
  /\ restore' = [pc |-> "begun", zip |-> z, data |-> NoFile, file |-> at,
                 old |-> OnDisk, sure |-> TRUE]
  /\ UNCHANGED <<content, wal, logged, maker, before, mishaps>> /\ Stays

\* The log is emptied if that works and the file is copied, from here to
\* Saved.
CopyBefore(works) ==
  /\ restore.pc = "begun"
  /\ works \/ mishaps < MaxMishaps
  /\ mishaps' = mishaps + IF works THEN 0 ELSE 1
  /\ IF works THEN Emptied ELSE UNCHANGED <<content, wal>>
  /\ restore' = [restore EXCEPT !.pc = "saving", !.data = content'[at]]
  /\ maker' = [m \in Makers |-> Disturbed(maker[m], at, content'[at] # content[at])]
  /\ UNCHANGED <<logged, before, restores>> /\ Stays

LogThere == wal # NoFile \/ (logged /\ mine = at)
LogLeft == ~LogThere /\ before.log # NoFile
\* Mutant: the log is not kept.
BeforeSaved_FileOnly ==
  /\ restore.pc = "saving"
  /\ before' = [before EXCEPT !.main = restore.data]
  /\ restore' = [restore EXCEPT !.pc = "saved"]
  /\ UNCHANGED <<content, wal, logged, maker, restores, mishaps>> /\ Stays
\* The log, if there is one, is copied beside it; one an earlier restore left
\* there is not removed.  An emptied log of the running panel is a file of no
\* length.
BeforeSaved ==
  /\ restore.pc = "saving"
  /\ before' = [main |-> restore.data,
                log  |-> IF LogThere THEN wal ELSE before.log]
  /\ restore' = [restore EXCEPT !.pc = "saved", !.sure = @ /\ ~LogLeft]
  /\ UNCHANGED <<content, wal, logged, maker, restores, mishaps>> /\ Stays

\* The extraction fails: only the temporary file is lost.
ExtractFails ==
  /\ restore.pc = "saved"
  /\ zips[restore.zip] \in {NoFile, Broken} \/ mishaps < MaxMishaps
  /\ mishaps' = IF zips[restore.zip] \in {NoFile, Broken} THEN mishaps ELSE mishaps + 1
  /\ restore' = NoRestore
  /\ UNCHANGED <<content, wal, logged, maker, before, restores>> /\ Stays

\* Extracted; the log beside the file is removed under the panel.
RemoveWal ==
  /\ restore.pc = "saved" /\ zips[restore.zip] \notin {NoFile, Broken}
  /\ wal' = NoFile /\ logged' = FALSE
  /\ restore' = [restore EXCEPT !.pc = "ready", !.data = zips[restore.zip].data]
  /\ maker' = Overtaken
  /\ UNCHANGED <<content, before, restores, mishaps>> /\ Stays

\* The extracted file takes the place of the database, whose connections stay
\* with the file that is no longer there; a second checkpoint and removal of
\* the log find nothing.
Replace ==
  /\ restore.pc = "ready"
  /\ at' = Cardinality(DOMAIN content)
  /\ content' = Adding(content, at', restore.data)
  /\ restore' = [restore EXCEPT !.pc = "done"]
  /\ maker' = Overtaken
  /\ UNCHANGED <<wal, mine, own, logged, latest, listed, zips, before, reused,
                 restores, mishaps>>

\* The rename fails: the database is overwritten where it is.
Overwrite ==
  /\ \/ /\ restore.pc = "ready" /\ mishaps < MaxMishaps /\ mishaps' = mishaps + 1
        /\ content' = [content EXCEPT ![at] = Torn]
        /\ restore' = [restore EXCEPT !.pc = "writing"]
     \/ /\ restore.pc = "writing" /\ mishaps' = mishaps
        /\ content' = [content EXCEPT ![at] = restore.data]
        /\ restore' = [restore EXCEPT !.pc = "done"]
  /\ maker' = [m \in Makers |-> Disturbed(Overtaken[m], at, TRUE)]
  /\ UNCHANGED <<wal, logged, before, restores>> /\ Stays

---------------------------------------------------------------------------

\* The panel dies, or is restarted, and opens what is there.
Restart ==
  /\ mishaps < MaxMishaps /\ mishaps' = mishaps + 1
  /\ content[at] # Torn /\ OnDisk # Torn
  /\ mine' = at /\ own' = OnDisk /\ logged' = TRUE
  /\ maker' = [m \in Makers |-> NoMaker]
  /\ restore' = IF restore.pc = "done" THEN restore ELSE NoRestore
  /\ UNCHANGED <<content, at, wal, latest, listed, zips, before, reused, restores>>

NextBackups ==
  \/ PanelWorks \/ AutoCheckpoint \/ Restart
  \/ \E m \in Makers :
       \/ \E z \in Zips : OpenZip(m, z)
       \/ writeSQLiteEntry(m) \/ Copied(m) \/ CloseZip(m) \/ RemoveZip(m) \/ RegisterBackup(m)
  \/ \E z \in Zips : DeleteBackup(z) \/ BeginRestore(z)
  \/ \E works \in BOOLEAN : CopyBefore(works)
  \/ BeforeSaved \/ ExtractFails \/ RemoveWal \/ Replace \/ Overwrite

BackupSpec == InitBackups /\ [][NextBackups]_backupVars

---------------------------------------------------------------------------
\* Properties

\* From the moment a restore touches the database, .before-restore reads as
\* the database did when it began, whatever fails afterwards and wherever the
\* process dies, unless the panel wrote, or a backup emptied the log, before it
\* was copied, or the log of an earlier copy was left beside it; until then the
\* database itself is what it was.
RestoreUndoable ==
  restore.pc # "idle" /\ restore.sure =>
    CASE restore.pc \in {"begun", "saving"} -> OnDisk = restore.old
      [] OTHER -> Read(before.main, before.log) = restore.old

\* A backup holds everything that was committed when it was asked for, unless
\* the log could not be emptied, the file was written during the copy, or a
\* restore was replacing it, or the panel was writing to what had replaced it.
BackupComplete ==
  \A z \in Zips : zips[z] \notin {NoFile, Broken} /\ zips[z].sure => zips[z].data >= zips[z].asked

\* A file in the list, unless its name was given twice, is a whole backup or
\* has been removed: none is the remains of one that failed.
ListedWhole ==
  \A z \in listed[own] \ reused : zips[z] # Broken

\* A backup that is offered can be relied on, and so can the copy a restore makes
\* of what it replaces.
BackupsWhole == RestoreUndoable /\ BackupComplete /\ ListedWhole
=============================================================================
