------------------------ MODULE DatabaseInit_proofs -------------------------
(***************************************************************************)
(* Proofs about DatabaseInit: every property but the liveness one.  Each   *)
(* rests on TypeOK and on an invariant of its own.                         *)
(***************************************************************************)
EXTENDS DatabaseInit, TLAPS

(* What connect gives: the file of the name, or a new one without rows,     *)
(* names or connections.                                                    *)
LEMMA Connected ==
    ASSUME TypeOK, NEW f \in Files, Connect(f)
    PROVE  /\ file' \in [Files -> File]
           /\ path' = f
           /\ path # None => path = f /\ file' = file
           /\ path = None =>
                /\ file' = [file EXCEPT ![f] = Empty]
                /\ \A s \in Seconds : aside[s] # f
                /\ \A t \in Threads : thread[t].conn # f
                /\ \A w \in Writers : writer[w].conn # f
<1>1. Empty \in File
  BY DEF Empty, File
<1>2. CASE path # None
  BY <1>2 DEF Connect, TypeOK
<1>3. CASE path = None
  <2>1. f \in Unused /\ file' = [file EXCEPT ![f] = Empty] /\ path' = f
    BY <1>3 DEF Connect
  <2> QED
    BY <1>1, <1>3, <2>1 DEF Unused, TypeOK
<1> QED
  BY <1>2, <1>3

(* A thread outside initialize_database.                                     *)
LEMMA RestingIsThread == Resting \in Thread
  BY DEF Resting, Thread

(* No file, or the file an earlier run has left.                             *)
LEMMA InitTypeOK == Init => TypeOK
<1> SUFFICES ASSUME Init PROVE TypeOK
  OBVIOUS
<1>1. Empty \in File
  BY DEF Empty, File
<1>2. PICK first \in [state : {"sound", "corrupt"}, tables : SUBSET Tables,
                      columns : SUBSET Columns, rows : SUBSET {Old}] :
         /\ file = [f \in Files |-> IF f = 1 THEN first ELSE Empty]
         /\ path = 1 \/ (path = None /\ first = Empty)
         /\ written = first.rows
  BY DEF Init
<1>3. first \in File /\ first.rows \subseteq Writers \cup {Old}
  BY DEF File
<1>4. 1 \in Files /\ 0 \in Seconds /\ 0 \in 0 .. MaxFaults
  BY DatabaseAssumption DEF Files, Seconds
<1>5. file \in [Files -> File]
  BY <1>1, <1>2, <1>3
<1>6. path \in Files \cup {None} /\ \A s \in Seconds : aside[s] = None
  BY <1>2, <1>4 DEF Init
<1>7. aside \in [Seconds -> Files \cup {None}]
  BY DEF Init
<1>8. /\ thread \in [Threads -> Thread]
      /\ writer \in [Writers -> [pc : {"idle", "open", "writing"}, conn : Files \cup {None}]]
  BY RestingIsThread DEF Init
<1>9. /\ clock \in Seconds /\ up \in BOOLEAN /\ collided \in BOOLEAN
      /\ faults \in 0 .. MaxFaults
  BY <1>4 DEF Init
<1>10. written \subseteq Writers \cup {Old}
  BY <1>2, <1>3
<1> QED
  BY <1>5, <1>6, <1>7, <1>8, <1>9, <1>10 DEF TypeOK

(* Threads and connections of a step, in place of their old ones. *)
LEMMA ThreadMoves ==
    ASSUME TypeOK, NEW t \in Threads, NEW r \in Thread,
           thread' = [thread EXCEPT ![t] = r]
    PROVE  /\ thread' \in [Threads -> Thread]
           /\ \A u \in Threads : thread'[u] = IF u = t THEN r ELSE thread[u]
  BY DEF TypeOK

(* Likewise the other connections. *)
LEMMA WriterMoves ==
    ASSUME TypeOK, NEW w \in Writers,
           NEW r \in [pc : {"idle", "open", "writing"}, conn : Files \cup {None}],
           writer' = [writer EXCEPT ![w] = r]
    PROVE  /\ writer' \in [Writers -> [pc : {"idle", "open", "writing"},
                                        conn : Files \cup {None}]]
           /\ \A v \in Writers : writer'[v] = IF v = w THEN r ELSE writer[v]
  BY DEF TypeOK

(* The bound on faults.                                                      *)
LEMMA FaultTyped ==
    ASSUME TypeOK, Fault
    PROVE  faults' \in 0 .. MaxFaults
  BY DatabaseAssumption DEF TypeOK, Fault

(* One more column or one more row. *)
LEMMA FileGrows ==
    ASSUME TypeOK, NEW f,
           \/ \E c \in Columns : file' = [file EXCEPT ![f].columns = @ \cup {c}]
           \/ \E w \in Writers : file' = [file EXCEPT ![f].rows = @ \cup {w}]
    PROVE  file' \in [Files -> File]
<1>1. CASE f \in Files
  <2>1. file[f] \in File
    BY <1>1 DEF TypeOK
  <2>2. \A c \in Columns : [file[f] EXCEPT !.columns = @ \cup {c}] \in File
    BY <2>1 DEF File
  <2>3. \A w \in Writers : [file[f] EXCEPT !.rows = @ \cup {w}] \in File
    BY <2>1 DEF File
  <2>4. \E r \in File : file' = [file EXCEPT ![f] = r]
    BY <2>2, <2>3
  <2> QED
    BY <2>4 DEF TypeOK
<1>2. CASE f \notin Files
  BY <1>2 DEF TypeOK
<1> QED
  BY <1>1, <1>2

(* Steps that change nothing but a thread, and at most up and faults. *)
LEMMA ThreadOnlyTypeOK ==
    ASSUME TypeOK, thread' \in [Threads -> Thread],
           UNCHANGED <<file, path, aside, clock, writer, written, collided>>,
           up' \in BOOLEAN, faults' \in 0 .. MaxFaults
    PROVE  TypeOK'
  BY DEF TypeOK

(* One step per action. *)
LEMMA NextTypeOK ==
    ASSUME TypeOK, [Next]_vars
    PROVE  TypeOK'
<1> USE DEF history
<1>0. /\ \A t \in Threads : thread[t] \in Thread
      /\ up \in BOOLEAN /\ faults \in 0 .. MaxFaults
      /\ \A t \in Threads : DOMAIN thread = Threads
  BY DEF TypeOK
<1>1. ASSUME NEW t \in Threads, NEW r \in Thread, thread' = [thread EXCEPT ![t] = r]
      PROVE  thread' \in [Threads -> Thread]
  BY <1>1, ThreadMoves
<1>2. ASSUME NEW t \in Threads, Start(t) PROVE TypeOK'
  <2>1. [Resting EXCEPT !.pc = "check"] \in Thread
    BY DEF Resting, Thread
  <2>2. thread' \in [Threads -> Thread]
    BY <1>1, <1>2, <2>1 DEF Start
  <2> QED
    BY <1>0, <1>2, <2>2, ThreadOnlyTypeOK DEF Start
<1>3. ASSUME NEW t \in Threads, CheckPasses(t) \/ CheckFails(t) \/ SchemaComplete(t)
      PROVE  TypeOK'
  <2>1. thread' \in [Threads -> Thread]
    BY <1>0, <1>3 DEF CheckPasses, CheckFails, SchemaComplete, Goto, Thread, TypeOK
  <2> QED
    BY <1>0, <1>3, <2>1, ThreadOnlyTypeOK DEF CheckPasses, CheckFails, SchemaComplete
<1>4. ASSUME NEW t \in Threads, AlreadyAside(t) \/ Broken(t) PROVE TypeOK'
  <2>1. thread' \in [Threads -> Thread]
    BY <1>1, <1>4, RestingIsThread DEF AlreadyAside, Broken, Leave
  <2> QED
    BY <1>0, <1>4, <2>1, ThreadOnlyTypeOK DEF AlreadyAside, Broken
<1>5. ASSUME NEW t \in Threads, Initialized(t) PROVE TypeOK'
  <2>1. thread' \in [Threads -> Thread]
    BY <1>1, <1>5, RestingIsThread DEF Initialized, Leave
  <2> QED
    BY <1>0, <1>5, <2>1, ThreadOnlyTypeOK DEF Initialized
<1>6. ASSUME NEW t \in Threads, Inspect(t) PROVE TypeOK'
  <2>1. thread' \in [Threads -> Thread]
    <3> DEFINE r == [thread[t] EXCEPT !.pc = "alter",
                                      !.missing = Columns \ file[thread[t].conn].columns]
    <3>1. r \in Thread
      BY <1>0 DEF Thread
    <3>2. thread' = [thread EXCEPT ![t] = r]
      BY <1>6 DEF Inspect
    <3> QED
      BY <1>1, <3>1, <3>2
  <2> QED
    BY <1>0, <1>6, <2>1, ThreadOnlyTypeOK DEF Inspect
<1>7. ASSUME NEW t \in Threads, CheckErrs(t) PROVE TypeOK'
  <2>1. thread' \in [Threads -> Thread]
    BY <1>0, <1>7 DEF CheckErrs, Goto, Thread, TypeOK
  <2>2. faults' \in 0 .. MaxFaults
    BY <1>7, FaultTyped DEF CheckErrs
  <2> QED
    BY <1>0, <1>7, <2>1, <2>2, ThreadOnlyTypeOK DEF CheckErrs
<1>8. ASSUME NEW t \in Threads, Raises(t) PROVE TypeOK'
  <2>1. thread' \in [Threads -> Thread]
    BY <1>1, <1>8, RestingIsThread DEF Raises, Leave
  <2>2. faults' \in 0 .. MaxFaults
    BY <1>8, FaultTyped DEF Raises
  <2> QED
    BY <1>0, <1>8, <2>1, <2>2, ThreadOnlyTypeOK DEF Raises
<1>9. ASSUME NEW t \in Threads, SetAside(t) PROVE TypeOK'
  <2>1. PICK s \in Seconds : BackUp(path, s)
    BY <1>9 DEF SetAside
  <2>2. /\ path \in Files /\ path' = None
        /\ UNCHANGED <<file, up, writer, written, faults>>
    BY <1>9 DEF SetAside, TypeOK
  <2>3. /\ clock' \in Seconds
        /\ aside' = [aside EXCEPT ![s] = path]
        /\ collided' \in BOOLEAN
    BY <2>1 DEF BackUp, TypeOK
  <2>4. aside' \in [Seconds -> Files \cup {None}]
    BY <2>2, <2>3 DEF TypeOK
  <2>5. \A q, r \in Seconds : aside'[q] # None /\ aside'[q] = aside'[r] => q = r
    BY <2>2, <2>3 DEF TypeOK
  <2>6. thread' \in [Threads -> Thread]
    BY <1>0, <1>9 DEF SetAside, Goto, Thread, TypeOK
  <2> QED
    BY <2>2, <2>3, <2>4, <2>5, <2>6 DEF TypeOK
<1>10. ASSUME NEW t \in Threads, Open(t) PROVE TypeOK'
  <2>1. PICK f \in Files : Connect(f) /\ thread' = [thread EXCEPT ![t].conn = f]
    BY <1>10 DEF Open
  <2>2. thread' \in [Threads -> Thread]
    BY <1>0, <2>1 DEF Thread, TypeOK
  <2>3. /\ file' \in [Files -> File] /\ path' \in Files
        /\ \A s \in Seconds : aside[s] # path'
    BY <2>1, Connected DEF TypeOK
  <2>4. UNCHANGED <<aside, clock, up, writer, written, collided, faults>>
    BY <1>10 DEF Open
  <2> QED
    BY <2>2, <2>3, <2>4 DEF TypeOK
<1>11. ASSUME NEW t \in Threads, CreateTable(t) PROVE TypeOK'
  <2> DEFINE f == thread[t].conn
  <2>1. PICK table \in Tables \ file[f].tables :
           file' = [file EXCEPT ![f].tables = @ \cup {table},
                                ![f].columns = @ \cup ColumnsOf[table]]
    BY <1>11 DEF CreateTable
  <2>2. f \in Files
    BY <1>0, <1>11 DEF CreateTable, Thread
  <2>3. ColumnsOf[table] \subseteq Columns
    BY DEF Columns
  <2> HIDE DEF f
  <2>4. file' \in [Files -> File]
    <3> DEFINE r == [file[f] EXCEPT !.tables = @ \cup {table},
                                    !.columns = @ \cup ColumnsOf[table]]
    <3>1. r \in File
      <4>1. file[f] \in File /\ table \in Tables
        BY <2>1, <2>2 DEF TypeOK
      <4> QED
        BY <2>3, <4>1 DEF File
    <3>2. file' = [file EXCEPT ![f] = r]
      BY <2>1
    <3> QED
      BY <3>1, <3>2 DEF TypeOK
  <2> QED
    BY <1>11, <2>4 DEF CreateTable, TypeOK
<1>12. ASSUME NEW t \in Threads, AddColumn(t) PROVE TypeOK'
  <2> DEFINE f == thread[t].conn
  <2>1. PICK c \in thread[t].missing \ file[f].columns :
           /\ file' = [file EXCEPT ![f].columns = @ \cup {c}]
           /\ thread' = [thread EXCEPT ![t].missing = @ \ {c}]
    BY <1>12 DEF AddColumn
  <2>2. c \in Columns
    BY <1>0, <2>1 DEF Thread
  <2>3. thread' \in [Threads -> Thread]
    BY <1>0, <2>1 DEF TypeOK, Thread
  <2> HIDE DEF f
  <2>4. file' \in [Files -> File]
    BY <2>1, <2>2, FileGrows
  <2> QED
    BY <1>12, <2>3, <2>4 DEF AddColumn, TypeOK
<1>13. ASSUME NEW w \in Writers, OpenWriter(w) PROVE TypeOK'
  <2>1. PICK f \in Files : /\ Connect(f)
                           /\ writer' = [writer EXCEPT ![w] = [pc |-> "open", conn |-> f]]
    BY <1>13 DEF OpenWriter
  <2>2. /\ file' \in [Files -> File] /\ path' \in Files
        /\ \A s \in Seconds : aside[s] # path'
    BY <2>1, Connected DEF TypeOK
  <2>3. writer' \in [Writers -> [pc : {"idle", "open", "writing"}, conn : Files \cup {None}]]
    BY <2>1 DEF TypeOK
  <2> QED
    BY <1>13, <2>2, <2>3 DEF OpenWriter, TypeOK
<1>14. ASSUME NEW w \in Writers, Write(w) \/ CloseWriter(w) PROVE TypeOK'
  BY <1>14 DEF Write, CloseWriter, TypeOK
<1>15. ASSUME NEW w \in Writers, Commit(w) PROVE TypeOK'
  <2> DEFINE f == writer[w].conn
  <2>1. /\ file' = [file EXCEPT ![f].rows = @ \cup {w}]
        /\ written' = written \cup {w}
        /\ writer' = [writer EXCEPT ![w] = [pc |-> "idle", conn |-> None]]
        /\ UNCHANGED <<path, aside, clock, up, thread, collided, faults>>
    BY <1>15 DEF Commit
  <2> HIDE DEF f
  <2>2. file' \in [Files -> File]
    BY <2>1, FileGrows
  <2>3. writer' \in [Writers -> [pc : {"idle", "open", "writing"}, conn : Files \cup {None}]]
    BY <2>1 DEF TypeOK
  <2> QED
    BY <2>1, <2>2, <2>3 DEF TypeOK
<1>16. CASE Corrupt
  <2>1. file' \in [Files -> File]
    BY <1>16 DEF Corrupt, TypeOK, File
  <2>2. faults' \in 0 .. MaxFaults
    BY <1>16, FaultTyped DEF Corrupt
  <2> QED
    BY <1>16, <2>1, <2>2 DEF Corrupt, TypeOK
<1>17. CASE Crash
  <2>1. thread' \in [Threads -> Thread]
    BY <1>17, RestingIsThread DEF Crash
  <2>2. faults' \in 0 .. MaxFaults
    BY <1>17, FaultTyped DEF Crash
  <2> QED
    BY <1>17, <2>1, <2>2 DEF Crash, TypeOK
<1>18. CASE UNCHANGED vars
  BY <1>18 DEF vars, TypeOK
<1> QED
  BY <1>2, <1>3, <1>4, <1>5, <1>6, <1>7, <1>8, <1>9, <1>10, <1>11, <1>12,
     <1>13, <1>14, <1>15, <1>16, <1>17, <1>18
     DEF Next, InitializeStep, WriterStep

(* Types, and that no file ever has two names. *)
THEOREM TypeCorrect == Spec => []TypeOK
  BY InitTypeOK, NextTypeOK, PTL DEF Spec

-----------------------------------------------------------------------------

Named(f) == f = path \/ \E s \in Seconds : aside[s] = f

(* Committed rows and open connections are at files that have a name.       *)
RowsInv ==
    ~collided =>
        /\ \A row \in written : \E f \in Files : row \in file[f].rows /\ Named(f)
        /\ \A w \in Writers : writer[w].pc # "idle" =>
              writer[w].conn \in Files /\ Named(writer[w].conn)

(* Steps that take no rows from a file with a name.                         *)
LEMMA RowsStay ==
    ASSUME RowsInv, UNCHANGED <<path, aside, written, collided>>,
           \A f \in Files : file[f].rows \subseteq file'[f].rows,
           \A w \in Writers : writer'[w].pc = "idle"
                              \/ (writer[w].pc # "idle" /\ writer'[w].conn = writer[w].conn)
    PROVE  RowsInv'
  BY DEF RowsInv, Named

(* A new file takes the number of one that has no name.                      *)
LEMMA RowsKeptByConnect ==
    ASSUME TypeOK, RowsInv, NEW f \in Files, Connect(f),
           UNCHANGED <<aside, written, collided>>,
           \A w \in Writers : \/ writer'[w] = writer[w]
                              \/ writer'[w].conn = f
    PROVE  RowsInv'
<1>1. CASE path # None
  <2>1. path' = path /\ file' = file /\ path' = f
    BY <1>1, Connected
  <2> QED
    BY <2>1 DEF RowsInv, Named
<1>2. CASE path = None
  <2>1. /\ path' = f /\ file' = [file EXCEPT ![f] = Empty]
        /\ \A s \in Seconds : aside[s] # f
    BY <1>2, Connected
  <2>2. \A g \in Files : Named(g) => g # f /\ file'[g] = file[g] /\ Named(g)'
    BY <1>2, <2>1, DatabaseAssumption DEF Named, TypeOK
  <2>3. Named(f)'
    BY <2>1 DEF Named
  <2> QED
    BY <2>2, <2>3 DEF RowsInv
<1> QED
  BY <1>1, <1>2

(* One step per action that touches files, names or connections.            *)
LEMMA RowsInvKept ==
    ASSUME TypeOK, RowsInv, [Next]_vars
    PROVE  RowsInv'
<1> USE DEF history
<1>0. /\ \A f \in Files : /\ file[f] \in File
                           /\ DOMAIN file[f] = {"state", "tables", "columns", "rows"}
      /\ DOMAIN file = Files /\ DOMAIN writer = Writers
  BY DEF TypeOK, File
<1>1. CASE UNCHANGED <<file, path, aside, writer, written, collided>>
  BY <1>1 DEF RowsInv, Named
<1>2. ASSUME NEW t \in Threads,
             Start(t) \/ CheckPasses(t) \/ CheckFails(t) \/ CheckErrs(t)
             \/ AlreadyAside(t) \/ SchemaComplete(t) \/ Inspect(t)
             \/ Initialized(t) \/ Broken(t) \/ Raises(t)
      PROVE  UNCHANGED <<file, path, aside, writer, written, collided>>
  BY <1>2 DEF Start, CheckPasses, CheckFails, CheckErrs, AlreadyAside,
              SchemaComplete, Inspect, Initialized, Broken, Raises
<1>3. ASSUME NEW t \in Threads, SetAside(t) PROVE RowsInv'
  <2>1. PICK s \in Seconds : BackUp(path, s)
    BY <1>3 DEF SetAside
  <2>2. /\ path # None /\ path' = None /\ UNCHANGED <<file, writer, written>>
        /\ aside' = [aside EXCEPT ![s] = path]
        /\ ~collided' => ~collided /\ aside[s] = None
    BY <1>3, <2>1 DEF SetAside, BackUp
  <2>3. ASSUME ~collided', NEW f \in Files, Named(f) PROVE Named(f)'
    <3>1. CASE f = path
      BY <2>2, <3>1 DEF Named, TypeOK
    <3>2. CASE \E r \in Seconds : aside[r] = f
      <4>1. PICK r \in Seconds : aside[r] = f
        BY <3>2
      <4>2. r # s
        BY <2>2, <2>3, <4>1, DatabaseAssumption
      <4>3. aside'[r] = f
        BY <2>2, <4>1, <4>2 DEF TypeOK
      <4> QED
        BY <4>3 DEF Named
    <3> QED
      BY <2>3, <3>1, <3>2 DEF Named
  <2> QED
    BY <2>2, <2>3 DEF RowsInv
<1>4. ASSUME NEW t \in Threads, Open(t) PROVE RowsInv'
  BY <1>4, RowsKeptByConnect DEF Open
<1>5. ASSUME NEW t \in Threads, CreateTable(t) PROVE RowsInv'
  <2>1. \A f \in Files : file'[f].rows = file[f].rows
    BY <1>0, <1>5 DEF CreateTable
  <2> QED
    BY <1>5, <2>1, RowsStay DEF CreateTable
<1>6. ASSUME NEW t \in Threads, AddColumn(t) PROVE RowsInv'
  <2>1. \A f \in Files : file'[f].rows = file[f].rows
    BY <1>0, <1>6 DEF AddColumn
  <2> QED
    BY <1>6, <2>1, RowsStay DEF AddColumn
<1>7. ASSUME NEW w \in Writers, OpenWriter(w) PROVE RowsInv'
  <2>1. PICK f \in Files : /\ Connect(f)
                           /\ writer' = [writer EXCEPT ![w] = [pc |-> "open", conn |-> f]]
    BY <1>7 DEF OpenWriter
  <2>2. \A v \in Writers : writer'[v] = writer[v] \/ writer'[v].conn = f
    BY <1>0, <2>1
  <2> QED
    BY <1>7, <2>1, <2>2, RowsKeptByConnect DEF OpenWriter
<1>8. ASSUME NEW w \in Writers, Write(w) PROVE RowsInv'
  <2>1. /\ writer[w].pc = "open" /\ UNCHANGED <<file, path, aside, written, collided>>
        /\ writer' = [writer EXCEPT ![w].pc = "writing"]
    BY <1>8 DEF Write
  <2>2. writer'[w].conn = writer[w].conn /\ \A v \in Writers \ {w} : writer'[v] = writer[v]
    BY <1>0, <2>1 DEF TypeOK
  <2> QED
    BY <2>1, <2>2, RowsStay
<1>9. ASSUME NEW w \in Writers, CloseWriter(w) PROVE RowsInv'
  <2>1. /\ writer'[w].pc = "idle" /\ \A v \in Writers \ {w} : writer'[v] = writer[v]
        /\ UNCHANGED <<file, path, aside, written, collided>>
    BY <1>0, <1>9 DEF CloseWriter
  <2> QED
    BY <2>1, RowsStay
<1>10. ASSUME NEW w \in Writers, Commit(w) PROVE RowsInv'
  <2> DEFINE f == writer[w].conn
  <2>1. /\ writer[w].pc = "writing" /\ written' = written \cup {w}
        /\ file' = [file EXCEPT ![f].rows = @ \cup {w}]
        /\ UNCHANGED <<path, aside, collided>>
    BY <1>10 DEF Commit
  <2>2. writer'[w].pc = "idle" /\ \A v \in Writers \ {w} : writer'[v] = writer[v]
    BY <1>0, <1>10 DEF Commit
  <2>3. \A g \in Files : Named(g)' <=> Named(g)
    BY <2>1 DEF Named
  <2>4. ~collided => f \in Files /\ Named(f)
    BY <2>1 DEF RowsInv
  <2> HIDE DEF f
  <2>5. \A g \in Files : file[g].rows \subseteq file'[g].rows
    BY <1>0, <2>1
  <2>6. f \in Files => w \in file'[f].rows
    BY <1>0, <2>1
  <2> QED
    BY <2>1, <2>2, <2>3, <2>4, <2>5, <2>6 DEF RowsInv
<1>11. CASE Corrupt
  <2>1. \A f \in Files : file'[f].rows = file[f].rows
    BY <1>0, <1>11 DEF Corrupt
  <2> QED
    BY <1>11, <2>1, RowsStay DEF Corrupt
<1>12. CASE Crash
  <2>1. \A w \in Writers : writer'[w].pc = "idle"
    BY <1>12 DEF Crash
  <2> QED
    BY <1>12, <2>1, RowsStay DEF Crash
<1>13. CASE UNCHANGED vars
  BY <1>1, <1>13 DEF vars
<1> QED
  BY <1>1, <1>2, <1>3, <1>4, <1>5, <1>6, <1>7, <1>8, <1>9, <1>10, <1>11, <1>12,
     <1>13 DEF Next, InitializeStep, WriterStep

(* Unless two files are set aside in one second no committed row is lost.   *)
THEOREM RowsKeptHolds == Spec => []RowsKept
<1>1. Init => RowsInv
  <2> SUFFICES ASSUME Init PROVE RowsInv
    OBVIOUS
  <2>1. PICK first \in [state : {"sound", "corrupt"}, tables : SUBSET Tables,
                        columns : SUBSET Columns, rows : SUBSET {Old}] :
           /\ file = [f \in Files |-> IF f = 1 THEN first ELSE Empty]
           /\ path = 1 \/ (path = None /\ first = Empty)
           /\ written = first.rows
    BY DEF Init
  <2>2. 1 \in Files
    BY DatabaseAssumption DEF Files
  <2>3. written # {} => path = 1 /\ written = file[1].rows
    BY <2>1, <2>2 DEF Empty
  <2>4. \A w \in Writers : writer[w].pc = "idle"
    BY DEF Init
  <2> QED
    BY <2>2, <2>3, <2>4 DEF RowsInv, Named
<1>2. TypeOK /\ RowsInv /\ [Next]_vars => RowsInv'
  BY RowsInvKept
<1>3. RowsInv => RowsKept
  BY DEF RowsInv, RowsKept, Named
<1> QED
  BY <1>1, <1>2, <1>3, TypeCorrect, PTL DEF Spec

-----------------------------------------------------------------------------

Complete(f) ==
    \A table \in file[f].tables : ColumnsOf[table] \subseteq file[f].columns

(* Boot and the jobs take turns.  Boot works at the file of the name, and   *)
(* what a table there may lack it has still on its list; a job finds        *)
(* nothing missing.                                                         *)
ThreadInv(t) ==
    LET f == thread[t].conn
    IN  /\ up = (t # Boot) \/ thread[t].pc = "idle"
        /\ thread[t].pc \in {"idle", "check", "aside"} => f = None
        /\ thread[t].pc \in {"inspect", "alter"} => f # None
        /\ thread[t].pc # "alter" \/ t # Boot => thread[t].missing = {}
        /\ t = Boot /\ f # None => f = path
        /\ t = Boot /\ thread[t].pc = "alter" =>
              Columns \subseteq file[f].columns \cup thread[t].missing
        /\ t # Boot /\ f # None =>
              /\ Complete(f)
              /\ thread[t].pc \in {"inspect", "alter"} => file[f].tables = Tables

MigrationInv ==
    /\ \A t \in Threads : ThreadInv(t)
    /\ up /\ path # None => Complete(path)

(* A thread at rest, or not yet connected, has nothing to keep.             *)
LEMMA UnconnectedInv ==
    ASSUME NEW t \in Threads,
           thread'[t].conn = None, thread'[t].missing = {},
           thread'[t].pc \in {"idle", "check", "aside", "create"},
           up' = (t # Boot) \/ thread'[t].pc = "idle"
    PROVE  ThreadInv(t)'
  BY DEF ThreadInv, Complete

(* A thread that does not move while files only gain tables, complete ones, *)
(* columns and rows.                                                        *)
LEMMA BystanderInv ==
    ASSUME TypeOK, NEW t \in Threads, ThreadInv(t),
           thread'[t] = thread[t], UNCHANGED up,
           t = Boot /\ thread[t].conn # None => path' = path,
           thread[t].conn # None =>
              LET f == thread[t].conn
              IN  /\ Complete(f) => Complete(f)'
                  /\ file[f].columns \subseteq file'[f].columns
                  /\ file[f].tables \subseteq file'[f].tables
                  /\ file'[f].tables \subseteq Tables
    PROVE  ThreadInv(t)'
<1> DEFINE f == thread[t].conn
<1>1. f' = f
  OBVIOUS
<1>2. CASE f = None
  BY <1>2 DEF ThreadInv, Complete
<1>3. CASE f # None
  <2>1. Complete(f) => Complete(f)'
    BY <1>3
  <2>2. Complete(f)' <=> \A table \in file'[f].tables : ColumnsOf[table] \subseteq file'[f].columns
    BY <1>1 DEF Complete
  <2>3. Complete(f) <=> \A table \in file[f].tables : ColumnsOf[table] \subseteq file[f].columns
    BY DEF Complete
  <2>4. /\ file[f].columns \subseteq file'[f].columns
        /\ file[f].tables \subseteq file'[f].tables
        /\ file'[f].tables \subseteq Tables
    BY <1>3
  <2>5. /\ up = (t # Boot) \/ thread[t].pc = "idle"
        /\ thread[t].pc \notin {"idle", "check", "aside"}
        /\ thread[t].pc # "alter" \/ t # Boot => thread[t].missing = {}
        /\ t = Boot => f = path
        /\ t = Boot /\ thread[t].pc = "alter" =>
              Columns \subseteq file[f].columns \cup thread[t].missing
        /\ t # Boot => Complete(f)
        /\ t # Boot /\ thread[t].pc \in {"inspect", "alter"} => file[f].tables = Tables
    BY <1>3 DEF ThreadInv
  <2>6. t # Boot => Complete(f)'
    BY <2>1, <2>5
  <2>7. t # Boot /\ thread[t].pc \in {"inspect", "alter"} => file'[f].tables = Tables
    BY <2>4, <2>5
  <2>8. t = Boot /\ thread[t].pc = "alter" =>
              Columns \subseteq file'[f].columns \cup thread[t].missing
    BY <2>4, <2>5
  <2>9. t = Boot => f = path'
    BY <1>3, <2>5
  <2> QED
    BY <1>1, <1>3, <2>5, <2>6, <2>7, <2>8, <2>9 DEF ThreadInv
<1> QED
  BY <1>2, <1>3

(* A step of one thread that leaves files and their names alone.            *)
LEMMA ThreadStepInv ==
    ASSUME TypeOK, MigrationInv, NEW t \in Threads,
           \A u \in Threads : u # t => thread'[u] = thread[u],
           UNCHANGED <<file, path, up>>,
           ThreadInv(t)'
    PROVE  MigrationInv'
<1>1. ASSUME NEW u \in Threads, u # t PROVE ThreadInv(u)'
  <2>1. thread'[u] = thread[u] /\ ThreadInv(u)
    BY <1>1 DEF MigrationInv
  <2> QED
    BY <2>1 DEF ThreadInv, Complete
<1>2. up' /\ path' # None => Complete(path)'
  BY DEF MigrationInv, Complete
<1> QED
  BY <1>1, <1>2 DEF MigrationInv

(* Connecting gives no thread but the one that connects anything to do, and *)
(* the file of the name is complete, for a new one has no tables.           *)
LEMMA ConnectInv ==
    ASSUME TypeOK, MigrationInv, NEW f \in Files, Connect(f), UNCHANGED up
    PROVE  /\ \A t \in Threads : thread'[t] = thread[t] => ThreadInv(t)'
           /\ up' /\ path' # None => Complete(path)'
           /\ up => Complete(f)'
<1>1. CASE path # None
  <2>1. path' = path /\ file' = file /\ path = f
    BY <1>1, Connected
  <2> QED
    BY <1>1, <2>1 DEF MigrationInv, ThreadInv, Complete
<1>2. CASE path = None
  <2>1. /\ path' = f /\ file' = [file EXCEPT ![f] = Empty]
        /\ \A t \in Threads : thread[t].conn # f
    BY <1>2, Connected
  <2>2. file'[f] = Empty /\ \A g \in Files \ {f} : file'[g] = file[g]
    BY <2>1 DEF TypeOK
  <2>3. Complete(f)' /\ Complete(path)'
    BY <2>1, <2>2 DEF Complete, Empty
  <2>4. ASSUME NEW t \in Threads, thread'[t] = thread[t] PROVE ThreadInv(t)'
    <3>1. ThreadInv(t) /\ thread[t] \in Thread
      BY DEF MigrationInv, TypeOK
    <3>2. t = Boot => thread[t].conn = None
      BY <1>2, <3>1 DEF ThreadInv
    <3>3. thread[t].conn # None => file'[thread[t].conn] = file[thread[t].conn]
      BY <2>1, <2>2, <3>1 DEF Thread
    <3> QED
      BY <2>4, <3>1, <3>2, <3>3 DEF ThreadInv, Complete
  <2> QED
    BY <2>3, <2>4
<1> QED
  BY <1>1, <1>2

(* One step per action. *)
LEMMA MigrationKept ==
    ASSUME TypeOK, MigrationInv, [Next]_vars
    PROVE  MigrationInv'
<1> USE DEF history
<1>0. /\ \A t \in Threads : thread[t] \in Thread /\ ThreadInv(t)
      /\ DOMAIN thread = Threads /\ file \in [Files -> File]
      /\ \A f \in Files : DOMAIN file[f] = {"state", "tables", "columns", "rows"}
      /\ None \notin Files /\ Boot \in Threads
  BY DatabaseAssumption DEF TypeOK, MigrationInv, File, Threads
<1>1. ASSUME NEW t \in Threads,
             thread' = [thread EXCEPT ![t] = Resting], UNCHANGED <<file, path, up>>
      PROVE  MigrationInv'
  <2>1. /\ thread'[t] = Resting
        /\ \A u \in Threads : u # t => thread'[u] = thread[u]
    BY <1>0, <1>1
  <2>2. ThreadInv(t)'
    BY <2>1, UnconnectedInv DEF Resting
  <2> QED
    BY <1>1, <2>1, <2>2, ThreadStepInv
<1>2. ASSUME NEW t \in Threads, Start(t) PROVE MigrationInv'
  <2>1. /\ thread'[t] = [Resting EXCEPT !.pc = "check"]
        /\ \A u \in Threads : u # t => thread'[u] = thread[u]
        /\ up' = (t # Boot) /\ UNCHANGED <<file, path, up>>
    BY <1>0, <1>2 DEF Start
  <2>2. ThreadInv(t)'
    BY <2>1, UnconnectedInv DEF Resting
  <2> QED
    BY <2>1, <2>2, ThreadStepInv
<1>3. ASSUME NEW t \in Threads, CheckPasses(t) \/ CheckFails(t) \/ CheckErrs(t)
      PROVE  MigrationInv'
  <2>1. /\ thread[t].pc = "check" /\ UNCHANGED <<file, path, up>>
        /\ thread'[t].pc \in {"create", "aside"}
        /\ thread'[t].conn = thread[t].conn /\ thread'[t].missing = thread[t].missing
        /\ \A u \in Threads : u # t => thread'[u] = thread[u]
    BY <1>0, <1>3 DEF CheckPasses, CheckFails, CheckErrs, Goto, Thread
  <2>2. ThreadInv(t)
    BY <1>0
  <2>3. thread'[t].conn = None /\ thread'[t].missing = {} /\ up' = (t # Boot)
    BY <2>1, <2>2 DEF ThreadInv
  <2>4. ThreadInv(t)'
    BY <2>1, <2>3, UnconnectedInv
  <2> QED
    BY <2>1, <2>4, ThreadStepInv
<1>4. ASSUME NEW t \in Threads, AlreadyAside(t) \/ Broken(t) \/ Raises(t)
      PROVE  MigrationInv'
  BY <1>1, <1>4 DEF AlreadyAside, Broken, Raises, Leave
<1>5. ASSUME NEW t \in Threads, SetAside(t) PROVE MigrationInv'
  <2>1. /\ thread[t].pc = "aside" /\ path' = None /\ UNCHANGED <<file, up>>
        /\ thread'[t].pc = "create"
        /\ thread'[t].conn = thread[t].conn /\ thread'[t].missing = thread[t].missing
        /\ \A u \in Threads : u # t => thread'[u] = thread[u]
    BY <1>0, <1>5 DEF SetAside, Goto, Thread
  <2>2. up = (t # Boot) /\ thread[t].conn = None /\ thread[t].missing = {}
    BY <1>0, <2>1 DEF ThreadInv
  <2>3. ThreadInv(t)'
    BY <2>1, <2>2, UnconnectedInv
  <2>4. ASSUME NEW u \in Threads, u # t PROVE ThreadInv(u)'
    <3>1. u = Boot => thread[u].conn = None
      BY <1>0, <2>2, <2>4 DEF ThreadInv
    <3>2. ThreadInv(u) /\ thread'[u] = thread[u]
      BY <1>0, <2>1, <2>4
    <3> QED
      BY <2>1, <3>1, <3>2 DEF ThreadInv, Complete
  <2> QED
    BY <2>1, <2>3, <2>4 DEF MigrationInv
<1>6. ASSUME NEW t \in Threads, Open(t) PROVE MigrationInv'
  <2>1. PICK f \in Files : Connect(f) /\ thread' = [thread EXCEPT ![t].conn = f]
    BY <1>6 DEF Open
  <2>2. /\ thread[t].pc = "create" /\ UNCHANGED up
        /\ \A u \in Threads : u # t => thread'[u] = thread[u]
        /\ thread'[t].pc = "create" /\ thread'[t].conn = f
        /\ thread'[t].missing = thread[t].missing
    BY <1>0, <1>6, <2>1 DEF Open, Thread
  <2>3. path' = f
    BY <2>1, Connected
  <2>4. up => Complete(f)'
    BY <2>1, <2>2, ConnectInv
  <2>5. up = (t # Boot) /\ thread[t].missing = {}
    BY <1>0, <2>2 DEF ThreadInv
  <2>6. ThreadInv(t)'
    BY <2>2, <2>3, <2>4, <2>5 DEF ThreadInv, Complete
  <2> QED
    BY <2>1, <2>2, <2>6, ConnectInv DEF MigrationInv
<1>7. ASSUME NEW t \in Threads, CreateTable(t) PROVE MigrationInv'
  <2> DEFINE f == thread[t].conn
  <2>1. PICK table \in Tables \ file[f].tables :
           file' = [file EXCEPT ![f].tables = @ \cup {table},
                                ![f].columns = @ \cup ColumnsOf[table]]
    BY <1>7 DEF CreateTable
  <2>2. /\ f \in Files /\ thread[t].pc = "create" /\ UNCHANGED <<path, up, thread>>
        /\ file[f].tables \subseteq Tables
    BY <1>0, <1>7 DEF CreateTable, Thread, File
  <2> HIDE DEF f
  <2>3. /\ file'[f].tables = file[f].tables \cup {table}
        /\ file'[f].columns = file[f].columns \cup ColumnsOf[table]
        /\ \A g \in Files : g # f => file'[g] = file[g]
    BY <1>0, <2>1, <2>2
  <2>4. ASSUME NEW g \in Files
        PROVE  /\ file[g].columns \subseteq file'[g].columns
               /\ file[g].tables \subseteq file'[g].tables
               /\ file'[g].tables \subseteq Tables
               /\ Complete(g) => Complete(g)'
    <3>1. file[g].tables \subseteq Tables
      BY <1>0 DEF File
    <3> QED
      BY <2>1, <2>2, <2>3, <3>1 DEF Complete
  <2>5. ASSUME NEW u \in Threads PROVE ThreadInv(u)'
    <3>1. thread[u].conn \in Files \cup {None} /\ ThreadInv(u) /\ thread'[u] = thread[u]
      BY <1>0, <2>2 DEF Thread
    <3>2. CASE thread[u].conn = None
      BY <2>2, <3>1, <3>2 DEF ThreadInv
    <3>3. CASE thread[u].conn # None
      <4> DEFINE g == thread[u].conn
      <4>1. /\ file[g].columns \subseteq file'[g].columns
            /\ file[g].tables \subseteq file'[g].tables
            /\ file'[g].tables \subseteq Tables
            /\ (\A tb \in file[g].tables : ColumnsOf[tb] \subseteq file[g].columns)
               => \A tb \in file'[g].tables : ColumnsOf[tb] \subseteq file'[g].columns
        BY <2>4, <3>1, <3>3 DEF Complete
      <4>2. Complete(g) => Complete(g)'
        BY <3>1, <4>1 DEF Complete
      <4> QED
        BY <2>2, <3>1, <4>1, <4>2, BystanderInv
    <3> QED
      BY <3>2, <3>3
  <2>6. up' /\ path' # None => Complete(path)'
    <3>1. path \in Files \cup {None}
      BY DEF TypeOK
    <3>2. path # None =>
             ((\A tb \in file[path].tables : ColumnsOf[tb] \subseteq file[path].columns)
              => \A tb \in file'[path].tables : ColumnsOf[tb] \subseteq file'[path].columns)
      BY <2>4, <3>1 DEF Complete
    <3> QED
      BY <2>2, <3>2 DEF MigrationInv, Complete
  <2> QED
    BY <2>5, <2>6 DEF MigrationInv
<1>8. ASSUME NEW t \in Threads, SchemaComplete(t) PROVE MigrationInv'
  <2>1. /\ thread[t].pc = "create" /\ thread[t].conn # None
        /\ file[thread[t].conn].tables = Tables /\ UNCHANGED <<file, path, up>>
        /\ thread'[t].pc = "inspect" /\ thread'[t].conn = thread[t].conn
        /\ thread'[t].missing = thread[t].missing
        /\ \A u \in Threads : u # t => thread'[u] = thread[u]
    BY <1>0, <1>8 DEF SchemaComplete, Goto, Thread
  <2>2. ThreadInv(t)
    BY <1>0
  <2>3. ThreadInv(t)'
    BY <2>1, <2>2 DEF ThreadInv, Complete
  <2> QED
    BY <2>1, <2>3, ThreadStepInv
<1>9. ASSUME NEW t \in Threads, Inspect(t) PROVE MigrationInv'
  <2>1. /\ thread[t].pc = "inspect" /\ UNCHANGED <<file, path, up>>
        /\ thread'[t].pc = "alter" /\ thread'[t].conn = thread[t].conn
        /\ thread'[t].missing = Columns \ file[thread[t].conn].columns
        /\ \A u \in Threads : u # t => thread'[u] = thread[u]
    BY <1>0, <1>9 DEF Inspect, Thread
  <2>2. ThreadInv(t)
    BY <1>0
  <2>3. t # Boot => Columns \subseteq file[thread[t].conn].columns
    BY <2>1, <2>2 DEF ThreadInv, Complete, Columns
  <2>4. ThreadInv(t)'
    BY <2>1, <2>2, <2>3 DEF ThreadInv, Complete
  <2> QED
    BY <2>1, <2>4, ThreadStepInv
<1>10. ASSUME NEW t \in Threads, AddColumn(t) PROVE MigrationInv'
  <2> DEFINE f == thread[t].conn
  <2>1. PICK c \in thread[t].missing \ file[f].columns :
           /\ file' = [file EXCEPT ![f].columns = @ \cup {c}]
           /\ thread' = [thread EXCEPT ![t].missing = @ \ {c}]
    BY <1>10 DEF AddColumn
  <2>2. thread[t].pc = "alter" /\ UNCHANGED <<path, up>> /\ ThreadInv(t)
    BY <1>0, <1>10 DEF AddColumn
  <2>3. t = Boot /\ ~up
    BY <2>1, <2>2 DEF ThreadInv
  <2>4. f = path /\ f \in Files
    BY <1>0, <2>2, <2>3 DEF ThreadInv, Thread
  <2>5. /\ thread'[t].pc = "alter" /\ thread'[t].conn = f
        /\ thread'[t].missing = thread[t].missing \ {c}
        /\ file'[f].columns = file[f].columns \cup {c}
        /\ \A u \in Threads : u # t => thread'[u] = thread[u]
    BY <1>0, <2>1, <2>2, <2>4 DEF Thread
  <2>6. ThreadInv(t)'
    BY <2>2, <2>3, <2>4, <2>5 DEF ThreadInv
  <2>7. ASSUME NEW u \in Threads, u # t PROVE ThreadInv(u)'
    <3>1. thread[u].pc = "idle" /\ thread[u].conn = None /\ thread[u].missing = {}
      BY <1>0, <2>3, <2>7 DEF ThreadInv
    <3> QED
      BY <2>5, <2>7, <3>1, UnconnectedInv
  <2> QED
    BY <2>2, <2>3, <2>6, <2>7 DEF MigrationInv
<1>11. ASSUME NEW t \in Threads, Initialized(t) PROVE MigrationInv'
  <2>1. /\ thread[t].pc = "alter" /\ thread[t].missing = {} /\ up'
        /\ UNCHANGED <<file, path>> /\ thread' = [thread EXCEPT ![t] = Resting]
    BY <1>11 DEF Initialized, Leave
  <2>2. ThreadInv(t) /\ thread[t].conn \in Files \cup {None}
    BY <1>0 DEF Thread
  <2>3. CASE t = Boot
    <3>1. thread[t].conn = path /\ Columns \subseteq file[path].columns
      BY <2>1, <2>2, <2>3 DEF ThreadInv
    <3>2. path \in Files /\ file[path].tables \subseteq Tables
      BY <1>0, <2>1, <2>2, <3>1 DEF ThreadInv, File
    <3>3. Complete(path)'
      BY <2>1, <3>1, <3>2 DEF Complete, Columns
    <3>4. ASSUME NEW u \in Threads PROVE ThreadInv(u)'
      <4>1. thread'[u].pc = "idle" /\ thread'[u].conn = None /\ thread'[u].missing = {}
        <5>1. CASE u = t
          BY <1>0, <2>1, <5>1 DEF Resting
        <5>2. CASE u # t
          <6>1. thread'[u] = thread[u] /\ ThreadInv(u) /\ ~up
            BY <1>0, <2>1, <2>2, <2>3, <5>2 DEF ThreadInv
          <6> QED
            BY <2>3, <5>2, <6>1 DEF ThreadInv
        <5> QED
          BY <5>1, <5>2
      <4> QED
        BY <4>1, UnconnectedInv
    <3> QED
      BY <3>3, <3>4 DEF MigrationInv
  <2>4. CASE t # Boot
    <3>1. UNCHANGED up
      BY <2>1, <2>2, <2>4 DEF ThreadInv
    <3> QED
      BY <1>1, <2>1, <3>1
  <2> QED
    BY <2>3, <2>4
<1>12. ASSUME NEW w \in Writers, OpenWriter(w) PROVE MigrationInv'
  <2>1. PICK f \in Files : Connect(f)
    BY <1>12 DEF OpenWriter
  <2>2. UNCHANGED <<up, thread>>
    BY <1>12 DEF OpenWriter
  <2> QED
    BY <2>1, <2>2, ConnectInv DEF MigrationInv
<1>13. ASSUME UNCHANGED <<thread, path, up>>,
              \A f \in Files : /\ file'[f].tables = file[f].tables
                               /\ file'[f].columns = file[f].columns
       PROVE  MigrationInv'
  <2>1. path \in Files \cup {None} /\ \A t \in Threads : thread[t].conn \in Files \cup {None}
    BY <1>0 DEF TypeOK, Thread
  <2>2. ASSUME NEW t \in Threads PROVE ThreadInv(t)'
    <3>1. CASE thread[t].conn = None
      BY <1>0, <1>13, <3>1 DEF ThreadInv
    <3>2. CASE thread[t].conn # None
      <4>1. /\ file'[thread[t].conn].tables = file[thread[t].conn].tables
            /\ file'[thread[t].conn].columns = file[thread[t].conn].columns
            /\ ThreadInv(t)
        BY <1>0, <1>13, <2>1, <3>2
      <4> QED
        BY <1>13, <4>1 DEF ThreadInv, Complete
    <3> QED
      BY <3>1, <3>2
  <2>3. up' /\ path' # None => Complete(path)'
    BY <1>13, <2>1 DEF MigrationInv, Complete
  <2> QED
    BY <2>2, <2>3 DEF MigrationInv
<1>14. ASSUME NEW w \in Writers, Write(w) \/ CloseWriter(w) PROVE MigrationInv'
  BY <1>13, <1>14 DEF Write, CloseWriter
<1>15. ASSUME NEW w \in Writers, Commit(w) PROVE MigrationInv'
  <2>1. \A f \in Files : /\ file'[f].tables = file[f].tables
                         /\ file'[f].columns = file[f].columns
    BY <1>0, <1>15 DEF Commit
  <2> QED
    BY <1>13, <1>15, <2>1 DEF Commit
<1>16. CASE Corrupt
  <2>1. \A f \in Files : /\ file'[f].tables = file[f].tables
                         /\ file'[f].columns = file[f].columns
    BY <1>0, <1>16 DEF Corrupt
  <2> QED
    BY <1>13, <1>16, <2>1 DEF Corrupt
<1>17. CASE Crash
  <2>1. ASSUME NEW t \in Threads PROVE ThreadInv(t)'
    BY <1>17, UnconnectedInv DEF Crash, Resting
  <2> QED
    BY <1>17, <2>1 DEF Crash, MigrationInv
<1>18. CASE UNCHANGED vars
  BY <1>13, <1>18 DEF vars
<1> QED
  BY <1>2, <1>3, <1>4, <1>5, <1>6, <1>7, <1>8, <1>9, <1>10, <1>11, <1>12,
     <1>14, <1>15, <1>16, <1>17, <1>18 DEF Next, InitializeStep, WriterStep

(* Once the application is up no query meets a table that lacks a column    *)
(* and no job has one to add.                                               *)
THEOREM NoHalfMigratedHolds == Spec => []NoHalfMigrated
<1>1. Init => MigrationInv
  BY DEF Init, Resting, MigrationInv, ThreadInv
<1>2. TypeOK /\ MigrationInv /\ [Next]_vars => MigrationInv'
  BY MigrationKept
<1>3. TypeOK /\ MigrationInv => NoHalfMigrated
  <2> SUFFICES ASSUME MigrationInv, up PROVE NoHalfMigrated
    BY DEF NoHalfMigrated
  <2>1. ASSUME NEW t \in Threads PROVE thread[t].missing = {}
    BY DEF MigrationInv, ThreadInv
  <2> QED
    BY <2>1 DEF MigrationInv, Complete, NoHalfMigrated
<1> QED
  BY <1>1, <1>2, <1>3, TypeCorrect, PTL DEF Spec
=============================================================================
