---------------------------- MODULE DatabaseInit ----------------------------
(***************************************************************************)
(* initialize_database: the integrity check, setting a file aside that     *)
(* fails it, creating the tables and adding the columns older versions     *)
(* lack.  It runs when the application starts and again at the head of     *)
(* every scheduler job, while other threads hold connections: a connection *)
(* is to a file, not to a name, and follows the file when it is renamed.   *)
(*                                                                         *)
(* An operator marked "Fault" distorts the one after it.                   *)
(***************************************************************************)
EXTENDS Naturals, FiniteSets

CONSTANTS
    Boot,           \* lifespan
    Jobs,           \* threads of the scheduler's jobs
    Writers,        \* connections of requests and of the jobs' own work
    Tables,
    ColumnsOf,      \* the columns MIGRATIONS names, of each table
    Old,            \* what the file holds at the beginning
    MaxFiles,       \* BOUND: files there are at one time
    MaxClock,       \* BOUND: seconds in which there are backups
    MaxFaults,      \* BOUND: crashes, damages to the file, and exceptions of
                    \* a sound one
    None

Threads == {Boot} \cup Jobs
Files == 1 .. MaxFiles
Seconds == 0 .. MaxClock
Columns == UNION {ColumnsOf[table] : table \in Tables}

ASSUME DatabaseAssumption ==
    /\ Boot \notin Jobs
    /\ Old \notin Writers
    /\ MaxFiles \in Nat \ {0}
    /\ MaxClock \in Nat /\ MaxFaults \in Nat
    /\ None \notin Files

VARIABLES
    file,       \* the contents of each file
    path,       \* the file that has the configured name
    aside,      \* the file that has the name .corrupt-<second>
    clock,      \* the second of the latest backup
    up,         \* has lifespan got past initialize_database?
    thread,     \* initialize_database, per thread
    writer,     \* the other connections
    written,    \* rows committed (history)
    collided,   \* has a second backup of one second replaced the first? (history)
    faults

vars == <<file, path, aside, clock, up, thread, writer, written, collided, faults>>

File == [state   : {"sound", "corrupt"},
         tables  : SUBSET Tables,
         columns : SUBSET Columns,
         rows    : SUBSET (Writers \cup {Old})]

Thread == [pc      : {"idle", "check", "aside", "create", "inspect", "alter"},
           conn    : Files \cup {None},
           missing : SUBSET Columns]    \* those not in table_info's answer

(* Types; and no file has two names. *)
TypeOK ==
    /\ file \in [Files -> File]
    /\ path \in Files \cup {None}
    /\ aside \in [Seconds -> Files \cup {None}]
    /\ clock \in Seconds
    /\ up \in BOOLEAN
    /\ thread \in [Threads -> Thread]
    /\ writer \in [Writers -> [pc : {"idle", "open", "writing"}, conn : Files \cup {None}]]
    /\ written \subseteq Writers \cup {Old}
    /\ collided \in BOOLEAN
    /\ faults \in 0 .. MaxFaults
    /\ \A r, s \in Seconds : aside[r] # None /\ aside[r] = aside[s] => r = s
    /\ path # None => \A s \in Seconds : aside[s] # path

-----------------------------------------------------------------------------

Empty == [state |-> "sound", tables |-> {}, columns |-> {}, rows |-> {}]

(* Files that have no name and no connection. *)
Unused == {f \in Files : /\ f # path
                         /\ \A s \in Seconds : aside[s] # f
                         /\ \A t \in Threads : thread[t].conn # f
                         /\ \A w \in Writers : writer[w].conn # f}

(* connect: the file of that name, or a new and empty one. *)
Connect(f) ==
    IF path # None
    THEN f = path /\ UNCHANGED <<file, path>>
    ELSE /\ f \in Unused /\ \A g \in Unused : f <= g
         /\ file' = [file EXCEPT ![f] = Empty]
         /\ path' = f

Resting == [pc |-> "idle", conn |-> None, missing |-> {}]

Goto(t, pc) == thread' = [thread EXCEPT ![t].pc = pc]

Leave(t) == thread' = [thread EXCEPT ![t] = Resting]

Fault ==
    /\ faults < MaxFaults
    /\ faults' = faults + 1

history == <<written, collided, faults>>

Start(t) ==
    /\ thread[t].pc = "idle"
    /\ up = (t # Boot)
    /\ thread' = [thread EXCEPT ![t] = [Resting EXCEPT !.pc = "check"]]
    /\ UNCHANGED <<file, path, aside, clock, up, writer, history>>

CheckPasses(t) ==
    /\ thread[t].pc = "check"
    /\ path # None => file[path].state = "sound"
    /\ Goto(t, "create")
    /\ UNCHANGED <<file, path, aside, clock, up, writer, history>>

(* Fault: the exception is not caught. *)
CheckFailsUncaught(t) ==
    /\ thread[t].pc = "check"
    /\ path # None /\ file[path].state = "corrupt"
    /\ Leave(t)
    /\ UNCHANGED <<file, path, aside, clock, up, writer, history>>

CheckFails(t) ==
    /\ thread[t].pc = "check"
    /\ path # None /\ file[path].state = "corrupt"
    /\ Goto(t, "aside")
    /\ UNCHANGED <<file, path, aside, clock, up, writer, history>>

(* The check of a sound file: "database is locked", "unable to open         *)
(* database file", "disk I/O error" and all others are DatabaseErrors too.  *)
CheckErrs(t) ==
    /\ thread[t].pc = "check"
    /\ path # None
    /\ Fault
    /\ Goto(t, "aside")
    /\ UNCHANGED <<file, path, aside, clock, up, writer, written, collided>>

(* The backup is made in the second of the one before, or in a later one.   *)
BackUp(f, s) ==
    /\ s \in {clock, clock + 1} \cap Seconds
    /\ clock' = s
    /\ aside' = [aside EXCEPT ![s] = f]
    /\ collided' = (collided \/ aside[s] # None)

(* Fault: the file is copied. *)
SetAsideCopied(t) ==
    /\ thread[t].pc = "aside"
    /\ path # None
    /\ \E s \in Seconds : BackUp(path, s)
    /\ Goto(t, "create")
    /\ UNCHANGED <<file, path, up, writer, written, faults>>

(* Fault: the file is removed. *)
SetAsideRemoved(t) ==
    /\ thread[t].pc = "aside"
    /\ path # None
    /\ path' = None
    /\ Goto(t, "create")
    /\ UNCHANGED <<file, aside, clock, up, writer, history>>

SetAside(t) ==
    /\ thread[t].pc = "aside"
    /\ path # None
    /\ \E s \in Seconds : BackUp(path, s)
    /\ path' = None
    /\ Goto(t, "create")
    /\ UNCHANGED <<file, up, writer, written, faults>>

(* Another thread was faster: FileNotFoundError, which nothing catches. *)
AlreadyAside(t) ==
    /\ thread[t].pc = "aside"
    /\ path = None
    /\ Leave(t)
    /\ UNCHANGED <<file, path, aside, clock, up, writer, history>>

Open(t) ==
    /\ thread[t].pc = "create"
    /\ thread[t].conn = None
    /\ \E f \in Files :
          Connect(f) /\ thread' = [thread EXCEPT ![t].conn = f]
    /\ UNCHANGED <<aside, clock, up, writer, history>>

(* One CREATE TABLE IF NOT EXISTS; each is committed by itself. *)
CreateTable(t) ==
    LET f == thread[t].conn
    IN  /\ thread[t].pc = "create"
        /\ f # None /\ file[f].state = "sound"
        /\ \E table \in Tables \ file[f].tables :
              file' = [file EXCEPT ![f].tables = @ \cup {table},
                                   ![f].columns = @ \cup ColumnsOf[table]]
        /\ UNCHANGED <<path, aside, clock, up, thread, writer, history>>

SchemaComplete(t) ==
    LET f == thread[t].conn
    IN  /\ thread[t].pc = "create"
        /\ f # None /\ file[f].state = "sound"
        /\ file[f].tables = Tables
        /\ Goto(t, "inspect")
        /\ UNCHANGED <<file, path, aside, clock, up, writer, history>>

(* Fault: the columns are added without a look at what is there. *)
InspectNothing(t) ==
    /\ thread[t].pc = "inspect"
    /\ file[thread[t].conn].state = "sound"
    /\ thread' = [thread EXCEPT ![t].pc = "alter", ![t].missing = Columns]
    /\ UNCHANGED <<file, path, aside, clock, up, writer, history>>

(* PRAGMA table_info.  The tables are migrated one by one; here their       *)
(* columns are read at once, for only one thread ever finds some missing.   *)
Inspect(t) ==
    /\ thread[t].pc = "inspect"
    /\ file[thread[t].conn].state = "sound"
    /\ thread' = [thread EXCEPT ![t].pc = "alter",
                                ![t].missing = Columns \ file[thread[t].conn].columns]
    /\ UNCHANGED <<file, path, aside, clock, up, writer, history>>

(* One ALTER TABLE; each is committed by itself. *)
AddColumn(t) ==
    LET f == thread[t].conn
    IN  /\ thread[t].pc = "alter"
        /\ file[f].state = "sound"
        /\ \E c \in thread[t].missing \ file[f].columns :
              /\ file' = [file EXCEPT ![f].columns = @ \cup {c}]
              /\ thread' = [thread EXCEPT ![t].missing = @ \ {c}]
        /\ UNCHANGED <<path, aside, clock, up, writer, history>>

(* Fault: lifespan does not wait for the columns. *)
InitializedEarly(t) ==
    /\ thread[t].pc = "alter"
    /\ up' = TRUE
    /\ Leave(t)
    /\ UNCHANGED <<file, path, aside, clock, writer, history>>

Initialized(t) ==
    /\ thread[t].pc = "alter"
    /\ thread[t].missing = {}
    /\ up' = TRUE
    /\ Leave(t)
    /\ UNCHANGED <<file, path, aside, clock, writer, history>>

(* A damaged file, or a column there already: an exception, which ends the  *)
(* job or keeps the application from starting.                              *)
Broken(t) ==
    /\ thread[t].pc \in {"create", "inspect", "alter"}
    /\ thread[t].conn # None
    /\ \/ file[thread[t].conn].state = "corrupt"
       \/ thread[t].missing \cap file[thread[t].conn].columns # {}
    /\ Leave(t)
    /\ UNCHANGED <<file, path, aside, clock, up, writer, history>>

(* Any other exception, at whatever statement: of SQLite, or an OSError of  *)
(* mkdir or of the rename.                                                  *)
Raises(t) ==
    /\ thread[t].pc # "idle"
    /\ Fault
    /\ Leave(t)
    /\ UNCHANGED <<file, path, aside, clock, up, writer, written, collided>>

InitializeStep(t) ==
    \/ CheckPasses(t) \/ CheckFails(t) \/ SetAside(t) \/ AlreadyAside(t)
    \/ Open(t) \/ CreateTable(t) \/ SchemaComplete(t)
    \/ Inspect(t) \/ AddColumn(t) \/ Initialized(t) \/ Broken(t)

-----------------------------------------------------------------------------
(* The other connections. *)

OpenWriter(w) ==
    /\ up
    /\ writer[w].pc = "idle"
    /\ w \notin written
    /\ \E f \in Files : /\ Connect(f)
                        /\ writer' = [writer EXCEPT ![w] = [pc |-> "open", conn |-> f]]
    /\ UNCHANGED <<aside, clock, up, thread, history>>

(* A statement takes the lock, until the commit. *)
Write(w) ==
    LET f == writer[w].conn
    IN  /\ writer[w].pc = "open"
        /\ file[f].state = "sound"
        /\ file[f].tables = Tables
        /\ \A v \in Writers : writer[v] # [pc |-> "writing", conn |-> f]
        /\ writer' = [writer EXCEPT ![w].pc = "writing"]
        /\ UNCHANGED <<file, path, aside, clock, up, thread, history>>

Commit(w) ==
    LET f == writer[w].conn
    IN  /\ writer[w].pc = "writing"
        /\ file[f].state = "sound"
        /\ file' = [file EXCEPT ![f].rows = @ \cup {w}]
        /\ written' = written \cup {w}
        /\ writer' = [writer EXCEPT ![w] = [pc |-> "idle", conn |-> None]]
        /\ UNCHANGED <<path, aside, clock, up, thread, collided, faults>>

(* No such table, a damaged file or a lock: the request is given up. *)
CloseWriter(w) ==
    /\ writer[w].pc # "idle"
    /\ writer' = [writer EXCEPT ![w] = [pc |-> "idle", conn |-> None]]
    /\ UNCHANGED <<file, path, aside, clock, up, thread, history>>

WriterStep(w) == OpenWriter(w) \/ Write(w) \/ Commit(w) \/ CloseWriter(w)

-----------------------------------------------------------------------------

Corrupt ==
    /\ Fault
    /\ path # None /\ file[path].state = "sound"
    /\ file' = [file EXCEPT ![path].state = "corrupt"]
    /\ UNCHANGED <<path, aside, clock, up, thread, writer, written, collided>>

(* The process ends; connections and threads with it. *)
Crash ==
    /\ Fault
    /\ up' = FALSE
    /\ thread' = [t \in Threads |-> Resting]
    /\ writer' = [w \in Writers |-> [pc |-> "idle", conn |-> None]]
    /\ UNCHANGED <<file, path, aside, clock, written, collided>>

(* No file, or one this or an older version has left. *)
Init ==
    /\ \E first \in [state : {"sound", "corrupt"}, tables : SUBSET Tables,
                     columns : SUBSET Columns, rows : SUBSET {Old}] :
          /\ first.columns \subseteq UNION {ColumnsOf[table] : table \in first.tables}
          /\ first.rows # {} => first.tables # {}
          /\ file = [f \in Files |-> IF f = 1 THEN first ELSE Empty]
          /\ path = 1 \/ (path = None /\ first = Empty)
          /\ written = first.rows
    /\ aside = [s \in Seconds |-> None]
    /\ clock = 0
    /\ up = FALSE
    /\ thread = [t \in Threads |-> Resting]
    /\ writer = [w \in Writers |-> [pc |-> "idle", conn |-> None]]
    /\ collided = FALSE
    /\ faults = 0

Next ==
    \/ \E t \in Threads : Start(t) \/ InitializeStep(t) \/ CheckErrs(t) \/ Raises(t)
    \/ \E w \in Writers : WriterStep(w)
    \/ Corrupt \/ Crash

Spec == Init /\ [][Next]_vars

(* docker restarts the application, the scheduler runs its jobs, a thread   *)
(* that is in initialize_database goes on, and requests end.                *)
FairSpec ==
    /\ Spec
    /\ \A t \in Threads : WF_vars(Start(t)) /\ WF_vars(InitializeStep(t))
    /\ \A w \in Writers : WF_vars(Commit(w) \/ CloseWriter(w))

-----------------------------------------------------------------------------

(* A committed row is never lost: it is in the database or in a file set    *)
(* aside, also if it was committed through a connection to a file set aside *)
(* meanwhile; unless two files were set aside in one second, when the first *)
(* backup is overwritten.                                                   *)
RowsKept ==
    ~collided =>
        \A row \in written :
            \E f \in Files : /\ row \in file[f].rows
                             /\ f = path \/ \E s \in Seconds : aside[s] = f

(* Once the application is up no query meets a table that lacks a column,   *)
(* and no job finds one to add, which another might be adding: a crash      *)
(* between two ALTER TABLEs is made good before the next start.             *)
NoHalfMigrated ==
    up => /\ path # None =>
                \A table \in file[path].tables :
                    ColumnsOf[table] \subseteq file[path].columns
          /\ \A t \in Threads : thread[t].missing = {}

Usable ==
    /\ path # None
    /\ file[path].state = "sound"
    /\ file[path].tables = Tables
    /\ file[path].columns = Columns

(* Whatever a crash, an older version, damage or a failed check has left,   *)
(* sooner or later the application is up with a database it can use: a      *)
(* damaged file is replaced, whoever notices it and whatever the threads do *)
(* to each other, and no half migrated table makes every start end in the   *)
(* same exception.                                                          *)
Recovers == []<>(up /\ Usable)
=============================================================================
