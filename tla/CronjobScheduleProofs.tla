----------------------- MODULE CronjobScheduleProofs -----------------------
(***************************************************************************)
(* Proofs about the rows of cronjobs and the entries of the scheduler, for *)
(* every finite set of requests, every set of names and any number of      *)
(* rows, requests served and crashes, and whether or not the database may  *)
(* fail.                                                                   *)
(***************************************************************************)
EXTENDS CronjobSchedule, FiniteSetTheorems, TLAPS

(* The type invariant, with what it needs to be inductive. *)

Ops == {"none", "create", "import", "update", "enable", "disable", "delete"}
RowRecords == [name : Names, status : Statuses, spec : Specs, ids : SUBSET Nat]
RequestRecords ==
    [op : Ops, pc : {"idle", "schedule", "write"}, job : 0..MaxRows,
     read : RowRecords \cup {NoRow}, ids : SUBSET Nat]

\* Rows are numbered by created, and each request that will insert has room.
FreshOK == \A r \in Rows : r > created => rows[r] = NoRow
RoomOK == created + Cardinality(Inserting) <= MaxRows

\* What a request has read, by its operation.
RequestOK(h) ==
    /\ ~Busy(h) => req[h] = Idle
    /\ Busy(h) => Served /\ req[h].op # "none" /\ req[h].read \in RowRecords
    /\ req[h].op \in Inserts => req[h].job = 0 /\ req[h].read.ids = {}
    /\ Busy(h) /\ req[h].op \notin Inserts => req[h].job \in 1..created
    /\ req[h].op = "create" => req[h].read.status = "Enable"
    /\ req[h].op = "import" => req[h].read.status # "Enable" /\ req[h].pc = "write"

TypeInv ==
    /\ TypeOK
    /\ rows \in [Rows -> RowRecords \cup {NoRow}]
    /\ req \in [Requests -> RequestRecords]
    /\ entries \subseteq [id : Nat, job : 0..MaxRows]
    /\ FreshOK /\ RoomOK
    /\ \A e \in entries : e.job <= created
    /\ \A h \in Requests : RequestOK(h)

\* A record without a row is not a row; the constants of the model are proper.
LEMMA Records ==
    /\ NoRow \notin RowRecords
    /\ Idle \in RequestRecords
    /\ \A s \in Specs : s.registers \in Nat /\ s.parts \in Nat
    /\ MaxRows \in Nat /\ MaxRows + 1 \in 1..MaxRows + 1
<1>1. NoRow \notin RowRecords
  BY DEF NoRow, RowRecords, Statuses
<1>2. Idle \in RequestRecords
  BY MaxRowsAssumption DEF Idle, RequestRecords, Ops
<1> QED
  BY <1>1, <1>2, MaxRowsAssumption DEF Specs

\* The rows of a well-typed state, each by its fields.
LEMMA RowFields ==
    ASSUME TypeInv, NEW r \in Existing
    PROVE  /\ r \in Rows /\ r \in 1..created /\ rows[r] \in RowRecords
           /\ rows[r].name \in Names /\ rows[r].status \in Statuses
           /\ rows[r].spec \in Specs /\ rows[r].ids \subseteq Nat
<1>1. r \in Rows /\ rows[r] \in RowRecords
  BY DEF Existing, TypeInv
<1>2. r \in 1..created
  BY <1>1, MaxRowsAssumption DEF Existing, TypeInv, TypeOK, FreshOK, Rows
<1> QED
  BY <1>1, <1>2 DEF RowRecords

\* The same for requests.
LEMMA RequestFields ==
    ASSUME TypeInv, NEW h \in Requests
    PROVE  /\ req[h].op \in Ops /\ req[h].pc \in {"idle", "schedule", "write"}
           /\ req[h].job \in 0..MaxRows /\ req[h].ids \subseteq Nat
           /\ req[h].read \in RowRecords \cup {NoRow}
BY DEF TypeInv, RequestRecords

\* The requests on their way to an insert are finitely many.
LEMMA InsertingIsFinite == IsFiniteSet(Inserting) /\ Cardinality(Inserting) \in Nat
<1>1. IsFiniteSet(Inserting)
  BY RequestsAssumption, FS_Subset DEF Inserting
<1> QED
  BY <1>1, FS_CardinalityType

\* A request to insert a row is accepted.
LEMMA OneMoreInsert ==
    ASSUME TypeInv, NEW h \in Requests, NEW q, ~Busy(h), Room,
           req' = [req EXCEPT ![h] = q], q.op \in Inserts, created' = created
    PROVE  RoomOK'
<1>1. req[h].op = "none"
  BY DEF TypeInv, RequestOK, Idle
<1>2. h \notin Inserting
  BY <1>1 DEF Inserting, Inserts
<1>3. Inserting' = Inserting \cup {h}
  BY DEF TypeInv, Inserting
<1>4. Cardinality(Inserting \cup {h}) = Cardinality(Inserting) + 1
  BY <1>2, InsertingIsFinite, FS_AddElement
<1> QED
  BY <1>3, <1>4, InsertingIsFinite, MaxRowsAssumption DEF TypeInv, TypeOK, RoomOK, Room

\* It inserts its row: there is one left.
LEMMA OneLessInsert ==
    ASSUME TypeInv, NEW h \in Requests, NEW q, req[h].op \in Inserts,
           req' = [req EXCEPT ![h] = q], q.op \notin Inserts, created' = created + 1
    PROVE  RoomOK' /\ created + 1 \in Rows
<1>1. h \in Inserting /\ Inserting' = Inserting \ {h}
  BY DEF TypeInv, Inserting
<1>2. /\ IsFiniteSet(Inserting \ {h})
      /\ Cardinality(Inserting \ {h}) = Cardinality(Inserting) - 1
  BY <1>1, InsertingIsFinite, FS_RemoveElement
<1>3. Cardinality(Inserting \ {h}) \in Nat
  BY <1>2, FS_CardinalityType
<1> QED
  BY <1>1, <1>2, <1>3, InsertingIsFinite, MaxRowsAssumption
     DEF TypeInv, TypeOK, RoomOK, Rows

\* No other step lets a request set out to insert.
LEMMA NoMoreInserts ==
    ASSUME TypeInv, Inserting' \subseteq Inserting, created' = created
    PROVE  RoomOK'
<1>1. IsFiniteSet(Inserting') /\ Cardinality(Inserting') <= Cardinality(Inserting)
  BY InsertingIsFinite, FS_Subset
<1>2. Cardinality(Inserting') \in Nat
  BY <1>1, FS_CardinalityType
<1> QED
  BY <1>1, <1>2, InsertingIsFinite, MaxRowsAssumption DEF TypeInv, TypeOK, RoomOK

\* One request changes its own state only.
LEMMA OthersAsBefore ==
    ASSUME TypeInv, NEW h \in Requests, NEW q \in RequestRecords,
           req' = [req EXCEPT ![h] = q], boot' = boot, created' \in Nat,
           created <= created', RequestOK(h)'
    PROVE  /\ req' \in [Requests -> RequestRecords]
           /\ \A g \in Requests : RequestOK(g)'
<1>1. req' \in [Requests -> RequestRecords]
  BY DEF TypeInv
<1>2. ASSUME NEW g \in Requests, g # h PROVE RequestOK(g)'
  <2>1. req'[g] = req[g] /\ req[g].job \in Nat /\ created \in Nat
    BY <1>2, RequestFields, MaxRowsAssumption DEF TypeInv, TypeOK
  <2>2. RequestOK(g)
    BY DEF TypeInv
  <2> QED BY <2>1, <2>2 DEF RequestOK, Busy, Served
<1> QED
  BY <1>1, <1>2

\* An idle request satisfies its conditions.
LEMMA IdleIsOK ==
    ASSUME NEW h \in Requests, req'[h] = Idle
    PROVE  RequestOK(h)'
BY DEF RequestOK, Busy, Idle, Inserts

-----------------------------------------------------------------------------
LEMMA TypeInit == Init => TypeInv
<1> SUFFICES ASSUME Init PROVE TypeInv
  OBVIOUS
<1>1. \A h \in Requests : req[h] = Idle
  BY DEF Init
<1>2. Inserting = {}
  BY <1>1 DEF Inserting, Idle, Inserts
<1>3. RoomOK /\ FreshOK
  BY <1>2, FS_EmptySet, MaxRowsAssumption DEF Init, RoomOK, FreshOK
<1>4. \A h \in Requests : RequestOK(h)
  BY <1>1 DEF RequestOK, Busy, Idle, Inserts
<1>5. req \in [Requests -> RequestRecords]
  BY Records DEF Init
<1>6. TypeOK
  <2>1. /\ boot \in 1..MaxRows + 1 /\ created \in 0..MaxRows /\ lastId \in Nat
        /\ ops \in 0..MaxOps /\ crashes \in 0..MaxCrash
    BY MaxRowsAssumption, MaxOpsAssumption, MaxCrashAssumption DEF Init
  <2>2. \A h \in Requests :
           req[h].op = "none" /\ req[h].pc = "idle" /\ req[h].job \in 0..MaxRows
    BY <1>1, MaxRowsAssumption DEF Idle
  <2> QED BY <2>1, <2>2 DEF Init, TypeOK
<1> QED
  BY <1>3, <1>4, <1>5, <1>6 DEF Init, TypeInv

\* The variables after a step, from their sets.
LEMMA TypeOKNext ==
    ASSUME boot' \in 1..MaxRows + 1, created' \in 0..MaxRows,
           rows' \in [Rows -> RowRecords \cup {NoRow}],
           req' \in [Requests -> RequestRecords],
           \A e \in entries' : e.id \in 1..lastId' /\ e.job \in 0..MaxRows,
           lastId' \in Nat, ops' \in 0..MaxOps, crashes' \in 0..MaxCrash,
           spoiled' \subseteq {"overlap", "spec", "database"}, tainted' \in BOOLEAN,
           edited' \subseteq Rows, twins' \subseteq Names
    PROVE  TypeOK'
<1>1. ASSUME NEW r \in Rows, rows'[r] # NoRow
      PROVE  /\ rows'[r].name \in Names /\ rows'[r].status \in Statuses
             /\ rows'[r].spec \in Specs /\ rows'[r].ids \subseteq Nat
  BY <1>1 DEF RowRecords
<1>2. ASSUME NEW h \in Requests
      PROVE  /\ req'[h].op \in Ops /\ req'[h].pc \in {"idle", "schedule", "write"}
             /\ req'[h].job \in 0..MaxRows
  BY DEF RequestRecords
<1> QED
  BY <1>1, <1>2 DEF TypeOK, Ops

\* What every acceptance has in common: what the request reads is the row as it
\* is now, but for the spec of an update.
AcceptsAs(h, op, place, job, read) ==
    /\ op \in Ops \ {"none"} /\ place \in {"schedule", "write"}
    /\ job \in 0..MaxRows /\ read \in RowRecords
    /\ Accept(h, op, place, job, read)
    /\ op \in Inserts => Room /\ job = 0 /\ read.ids = {} /\ NameFree(read.name)
    /\ op = "create" => read.status = "Enable" /\ place = "schedule"
    /\ op = "import" => read.status # "Enable" /\ place = "write"
    /\ op \notin Inserts =>
          /\ place = "schedule" /\ job \in Existing /\ job \in 1..created
          /\ read.status = rows[job].status /\ read.ids = rows[job].ids
          /\ op # "update" => read.spec = rows[job].spec

LEMMA BeginAccepts ==
    ASSUME TypeInv, NEW h \in Requests, Begin(h)
    PROVE  \E op, place, job, read : AcceptsAs(h, op, place, job, read)
<1>0. 0 \in 0..MaxRows /\ created \in 0..MaxRows
  BY MaxRowsAssumption DEF TypeInv, TypeOK
<1>r. \A r \in Existing : rows[r] \in RowRecords /\ r \in 1..created /\ r \in 0..MaxRows
  BY RowFields, MaxRowsAssumption DEF Rows
<1>1. CASE BeginCreate(h)
  <2>1. PICK n \in Names, s \in Specs :
          /\ Room /\ NameFree(n)
          /\ Accept(h, "create", "schedule", 0,
                    [name |-> n, status |-> "Enable", spec |-> s, ids |-> {}])
    BY <1>1 DEF BeginCreate
  <2> DEFINE read == [name |-> n, status |-> "Enable", spec |-> s, ids |-> {}]
  <2>2. read \in RowRecords /\ read.ids = {} /\ read.status = "Enable" /\ read.name = n
    BY DEF RowRecords, Statuses
  <2> HIDE DEF read
  <2>3. Accept(h, "create", "schedule", 0, read)
    BY <2>1 DEF read
  <2>4. AcceptsAs(h, "create", "schedule", 0, read)
    BY <1>0, <2>1, <2>2, <2>3 DEF AcceptsAs, Ops, Inserts
  <2> QED BY <2>4
<1>2. CASE BeginImport(h)
  <2>1. PICK n \in Names, s \in Specs, status \in {"Disable", "Pending"} :
          /\ Room /\ NameFree(n)
          /\ Accept(h, "import", "write", 0,
                    [name |-> n, status |-> status, spec |-> s, ids |-> {}])
    BY <1>2 DEF BeginImport
  <2> DEFINE read == [name |-> n, status |-> status, spec |-> s, ids |-> {}]
  <2>2. read \in RowRecords /\ read.ids = {} /\ read.status # "Enable" /\ read.name = n
    BY DEF RowRecords, Statuses
  <2> HIDE DEF read
  <2>3. Accept(h, "import", "write", 0, read)
    BY <2>1 DEF read
  <2>4. AcceptsAs(h, "import", "write", 0, read)
    BY <1>0, <2>1, <2>2, <2>3 DEF AcceptsAs, Ops, Inserts
  <2> QED BY <2>4
<1>3. CASE BeginUpdate(h)
  <2>1. PICK r \in Existing, n \in Names, s \in Specs :
          Accept(h, "update", "schedule", r, [rows[r] EXCEPT !.name = n, !.spec = s])
    BY <1>3 DEF BeginUpdate
  <2> DEFINE read == [rows[r] EXCEPT !.name = n, !.spec = s]
  <2>2. /\ read \in RowRecords /\ read.status = rows[r].status
        /\ read.ids = rows[r].ids
    BY <1>r DEF RowRecords
  <2> HIDE DEF read
  <2>3. Accept(h, "update", "schedule", r, read)
    BY <2>1 DEF read
  <2>4. AcceptsAs(h, "update", "schedule", r, read)
    BY <1>r, <2>2, <2>3 DEF AcceptsAs, Ops, Inserts
  <2> QED BY <2>4
<1>4. CASE BeginUpdateStatus(h)
  <2>1. PICK r \in Existing, op \in {"enable", "disable"} :
          Accept(h, op, "schedule", r, rows[r])
    BY <1>4 DEF BeginUpdateStatus
  <2>2. AcceptsAs(h, op, "schedule", r, rows[r])
    BY <1>r, <2>1 DEF AcceptsAs, Ops, Inserts
  <2> QED BY <2>2
<1>5. CASE BeginDelete(h)
  <2>1. PICK r \in Existing : Accept(h, "delete", "schedule", r, rows[r])
    BY <1>5 DEF BeginDelete
  <2>2. AcceptsAs(h, "delete", "schedule", r, rows[r])
    BY <1>r, <2>1 DEF AcceptsAs, Ops, Inserts
  <2> QED BY <2>2
<1> QED
  BY <1>1, <1>2, <1>3, <1>4, <1>5 DEF Begin

\* The state of a request that has just been accepted, and what does not change.
LEMMA AcceptedRequest ==
    ASSUME TypeInv, NEW h \in Requests, NEW op, NEW place, NEW job, NEW read,
           AcceptsAs(h, op, place, job, read)
    PROVE  /\ Served /\ ~Busy(h) /\ req[h] = Idle
           /\ req'[h].op = op /\ req'[h].pc = place /\ req'[h].job = job
           /\ req'[h].read = read /\ req'[h].ids = {} /\ req'[h] \in RequestRecords
           /\ \A g \in Requests : g # h => req'[g] = req[g]
           /\ UNCHANGED <<boot, rows, created, entries, lastId, crashes, edited>>
           /\ req' \in [Requests -> RequestRecords]
<1> DEFINE q == [op |-> op, pc |-> place, job |-> job, read |-> read, ids |-> {}]
<1>1. q \in RequestRecords
  BY DEF RequestRecords, AcceptsAs
<1>2. /\ q.op = op /\ q.pc = place /\ q.job = job /\ q.read = read /\ q.ids = {}
      /\ Served /\ ~Busy(h) /\ req' = [req EXCEPT ![h] = q]
      /\ UNCHANGED <<boot, rows, created, entries, lastId, crashes, edited>>
  BY DEF AcceptsAs, Accept
<1> HIDE DEF q
<1>3. req[h] = Idle
  BY <1>2 DEF TypeInv, RequestOK
<1>4. req'[h] = q /\ (\A g \in Requests : g # h => req'[g] = req[g])
      /\ req' \in [Requests -> RequestRecords]
  BY <1>1, <1>2 DEF TypeInv
<1> QED
  BY <1>1, <1>2, <1>3, <1>4

LEMMA BeginTyped == \A h \in Requests : TypeInv /\ Begin(h) => TypeInv'
<1> SUFFICES ASSUME NEW h \in Requests, TypeInv, Begin(h) PROVE TypeInv'
  OBVIOUS
<1>0. PICK op, place, job, read : AcceptsAs(h, op, place, job, read)
  BY BeginAccepts
<1>1. /\ ~Busy(h) /\ Served /\ ops < MaxOps /\ ops' = ops + 1
      /\ \E q : req' = [req EXCEPT ![h] = q]
      /\ UNCHANGED <<boot, rows, created, entries, lastId, crashes, edited>>
  BY <1>0 DEF AcceptsAs, Accept
<1>2. /\ req'[h] \in RequestRecords
      /\ req'[h].op = op /\ req'[h].pc = place /\ req'[h].job = job /\ req'[h].read = read
      /\ req' = [req EXCEPT ![h] = req'[h]]
  <2>1. req' = [req EXCEPT ![h] = req'[h]]
    BY <1>1 DEF TypeInv
  <2> QED BY <1>0, <2>1, AcceptedRequest
<1>4. RequestOK(h)'
  BY <1>0, <1>1, <1>2 DEF AcceptsAs, RequestOK, Busy, Served
<1>5. /\ req' \in [Requests -> RequestRecords]
      /\ \A g \in Requests : RequestOK(g)'
  <2>1. created' \in Nat /\ created <= created'
    BY <1>1, MaxRowsAssumption DEF TypeInv, TypeOK
  <2> QED BY <1>1, <1>2, <1>4, <2>1, OthersAsBefore
<1>6. RoomOK'
  <2>1. CASE op \in Inserts
    BY <1>0, <1>1, <1>2, <2>1, OneMoreInsert DEF AcceptsAs
  <2>2. CASE op \notin Inserts
    <3>1. Inserting' \subseteq Inserting
      BY <1>0, <1>2, <2>2, AcceptedRequest DEF TypeInv, Inserting
    <3> QED BY <1>1, <3>1, NoMoreInserts
  <2> QED BY <2>1, <2>2
<1>7. twins' \subseteq Names /\ spoiled' \subseteq {"overlap", "spec", "database"}
      /\ tainted' \in BOOLEAN
  <2>1. read.name \in Names
    BY <1>0 DEF AcceptsAs, RowRecords
  <2>2. twins \subseteq Names /\ spoiled \subseteq {"overlap", "spec", "database"}
    BY DEF TypeInv, TypeOK
  <2>3. tainted' \in BOOLEAN
    BY <1>0 DEF AcceptsAs, Accept, TypeInv, TypeOK, Overlaps
  <2> QED BY <1>0, <2>1, <2>2, <2>3 DEF AcceptsAs, Accept
<1>8. ops' \in 0..MaxOps
  BY <1>1, MaxOpsAssumption DEF TypeInv, TypeOK
<1>9. TypeOK'
  BY <1>1, <1>5, <1>7, <1>8, TypeOKNext DEF TypeInv, TypeOK
<1> QED
  BY <1>1, <1>5, <1>6, <1>9 DEF TypeInv, FreshOK

\* The entries of one call of StartJob or turn of cron.Run.
Fresh(spec, j) == {[id |-> i, job |-> j] : i \in NewIds(spec)}

LEMMA FreshEntries ==
    ASSUME TypeInv, NEW spec \in Specs, NEW j \in 0..MaxRows,
           lastId' = lastId + spec.registers
    PROVE  /\ lastId' \in Nat /\ NewIds(spec) \subseteq Nat
           /\ \A i \in NewIds(spec) : i \in 1..lastId' /\ i > lastId
           /\ \A e \in Fresh(spec, j) :
                 /\ e \in [id : Nat, job : 0..MaxRows] /\ e.id \in NewIds(spec)
                 /\ e.id \in 1..lastId' /\ e.job = j
           /\ \A e \in entries : e.id \in 1..lastId /\ e.id \in 1..lastId'
<1>1. lastId \in Nat /\ spec.registers \in Nat
  BY Records DEF TypeInv, TypeOK
<1>2. \A i \in NewIds(spec) : i \in 1..lastId' /\ i > lastId /\ i \in Nat
  BY <1>1 DEF NewIds
<1>3. \A e \in entries : e.id \in 1..lastId
  BY DEF TypeInv, TypeOK
<1> QED
  BY <1>1, <1>2, <1>3 DEF Fresh

\* A request changes the scheduler, and neither rows nor what it has read.
LEMMA ScheduleTyped ==
    ASSUME TypeInv, NEW h \in Requests, NEW q \in RequestRecords, Busy(h),
           req' = [req EXCEPT ![h] = q],
           \/ q = Idle
           \/ /\ q.pc = "write" /\ q.op = req[h].op /\ q.job = req[h].job
              /\ q.read = req[h].read,
           UNCHANGED <<boot, rows, created, ops, crashes, tainted, edited, twins>>,
           entries' \subseteq [id : Nat, job : 0..MaxRows],
           \A e \in entries' : e.id \in 1..lastId' /\ e.job <= created,
           lastId' \in Nat, spoiled' \subseteq {"overlap", "spec", "database"}
    PROVE  TypeInv'
<1>1. req'[h] = q /\ RequestOK(h) /\ created \in Nat
  BY MaxRowsAssumption DEF TypeInv, TypeOK
<1>2. RequestOK(h)'
  <2>1. CASE q = Idle
    BY <1>1, <2>1, IdleIsOK
  <2>2. CASE q # Idle
    BY <1>1, <2>2 DEF RequestOK, Busy, Served
  <2> QED BY <2>1, <2>2
<1>3. /\ req' \in [Requests -> RequestRecords]
      /\ \A g \in Requests : RequestOK(g)'
  <2>1. created' \in Nat /\ created <= created'
    BY <1>1
  <2> QED BY <1>2, <2>1, OthersAsBefore
<1>4. RoomOK'
  <2>1. q.op \in Inserts => req[h].op \in Inserts
    BY DEF Idle, Inserts
  <2>2. Inserting' \subseteq Inserting
    BY <2>1 DEF TypeInv, Inserting
  <2> QED BY <2>2, NoMoreInserts
<1>5. TypeOK'
  BY <1>3, TypeOKNext DEF TypeInv, TypeOK
<1> QED
  BY <1>3, <1>4, <1>5 DEF TypeInv, FreshOK

LEMMA StartJobTyped == \A h \in Requests : TypeInv /\ StartJob(h) => TypeInv'
<1> SUFFICES ASSUME NEW h \in Requests, TypeInv, StartJob(h) PROVE TypeInv'
  OBVIOUS
<1> DEFINE spec == req[h].read.spec
           j == req[h].job
<1>1. /\ req[h].pc = "schedule" /\ Busy(h)
      /\ entries' = Without(Replaced(h)) \cup Fresh(spec, j)
      /\ lastId' = lastId + spec.registers
      /\ UNCHANGED <<boot, rows, created, ops, crashes, tainted, edited, twins>>
      /\ \/ /\ req' = [req EXCEPT ![h].pc = "write", ![h].ids = NewIds(spec)]
            /\ spoiled' = spoiled
         \/ req' = [req EXCEPT ![h] = Idle] /\ spoiled' = spoiled \cup {"spec"}
  BY DEF StartJob, Busy, Fresh
<1>2. spec \in Specs /\ j \in 0..MaxRows /\ j <= created
  <2>1. req[h].read \in RowRecords
    BY <1>1 DEF TypeInv, RequestOK
  <2>2. RequestOK(h) /\ j \in 0..MaxRows /\ created \in 0..MaxRows
    BY RequestFields DEF TypeInv, TypeOK
  <2> QED BY <1>1, <2>1, <2>2, MaxRowsAssumption DEF RowRecords, RequestOK
<1> HIDE DEF spec, j
<1>3. /\ entries' \subseteq [id : Nat, job : 0..MaxRows]
      /\ \A e \in entries' : e.id \in 1..lastId' /\ e.job <= created
      /\ lastId' \in Nat /\ NewIds(spec) \subseteq Nat
  <2>1. Without(Replaced(h)) \subseteq entries
    BY DEF Without
  <2>2. entries \subseteq [id : Nat, job : 0..MaxRows] /\ \A e \in entries : e.job <= created
    BY DEF TypeInv
  <2> QED BY <1>1, <1>2, <2>1, <2>2, FreshEntries
<1>4. spoiled' \subseteq {"overlap", "spec", "database"}
  BY <1>1 DEF TypeInv, TypeOK
<1>5. CASE req' = [req EXCEPT ![h] = Idle]
  BY <1>1, <1>3, <1>4, <1>5, Records, ScheduleTyped
<1>6. CASE req' = [req EXCEPT ![h].pc = "write", ![h].ids = NewIds(spec)]
  <2> DEFINE q == [req[h] EXCEPT !.pc = "write", !.ids = NewIds(spec)]
  <2>1. req[h] \in RequestRecords
    BY DEF TypeInv
  <2>2. /\ q \in RequestRecords
        /\ q.pc = "write" /\ q.op = req[h].op /\ q.job = req[h].job
        /\ q.read = req[h].read
    BY <1>3, <2>1 DEF RequestRecords
  <2>3. req' = [req EXCEPT ![h] = q]
    BY <1>6 DEF TypeInv
  <2> HIDE DEF q
  <2> QED BY <1>1, <1>3, <1>4, <2>2, <2>3, ScheduleTyped
<1> QED
  BY <1>1, <1>5, <1>6

LEMMA StopJobTyped == \A h \in Requests : TypeInv /\ StopJob(h) => TypeInv'
<1> SUFFICES ASSUME NEW h \in Requests, TypeInv, StopJob(h) PROVE TypeInv'
  OBVIOUS
<1> DEFINE q == [req[h] EXCEPT !.pc = "write"]
<1>1. req[h] \in RequestRecords
  BY DEF TypeInv
<1>2. /\ q \in RequestRecords /\ q.pc = "write" /\ q.op = req[h].op
      /\ q.job = req[h].job /\ q.read = req[h].read
  BY <1>1 DEF RequestRecords
<1>3. /\ Busy(h) /\ req' = [req EXCEPT ![h] = q] /\ entries' \subseteq entries
      /\ UNCHANGED <<boot, rows, created, lastId, ops, crashes, spoiled, tainted, edited,
                     twins>>
  BY DEF StopJob, Busy, Without, TypeInv
<1> HIDE DEF q
<1>4. /\ entries' \subseteq [id : Nat, job : 0..MaxRows] /\ lastId' \in Nat
      /\ \A e \in entries' : e.id \in 1..lastId' /\ e.job <= created
      /\ spoiled' \subseteq {"overlap", "spec", "database"}
  BY <1>3 DEF TypeInv, TypeOK
<1> QED
  BY <1>2, <1>3, <1>4, ScheduleTyped

\* A request writes its row, or fails to: it is idle again.
LEMMA WriteTyped ==
    ASSUME TypeInv, NEW h \in Requests, req' = [req EXCEPT ![h] = Idle],
           \/ created' = created
           \/ created' = created + 1 /\ req[h].op \in Inserts,
           UNCHANGED <<boot, lastId, ops, crashes, twins>>,
           rows' \in [Rows -> RowRecords \cup {NoRow}], FreshOK',
           entries' \subseteq [id : Nat, job : 0..MaxRows],
           \A e \in entries' : e.id \in 1..lastId /\ e.job <= created',
           spoiled' \subseteq {"overlap", "spec", "database"}, tainted' \in BOOLEAN,
           edited' \subseteq Rows
    PROVE  TypeInv'
<1>1. req'[h] = Idle /\ Idle.op \notin Inserts /\ created \in 0..MaxRows
  BY DEF TypeInv, TypeOK, Idle, Inserts
<1>2. RoomOK' /\ created' \in 0..MaxRows
  <2>1. CASE created' = created
    <3>1. Inserting' \subseteq Inserting
      BY <1>1 DEF TypeInv, Inserting
    <3> QED BY <1>1, <2>1, <3>1, NoMoreInserts
  <2>2. CASE created' = created + 1 /\ req[h].op \in Inserts
    <3>1. RoomOK' /\ created + 1 \in Rows
      BY <1>1, <2>2, OneLessInsert
    <3>2. created + 1 \in 0..MaxRows
      BY <3>1, MaxRowsAssumption DEF Rows
    <3> QED BY <2>2, <3>1, <3>2
  <2> QED BY <2>1, <2>2
<1>3. /\ req' \in [Requests -> RequestRecords]
      /\ \A g \in Requests : RequestOK(g)'
  <2>1. created' \in Nat /\ created <= created'
    BY <1>1, MaxRowsAssumption
  <2> QED BY <1>1, <2>1, IdleIsOK, Records, OthersAsBefore
<1>4. TypeOK'
  <2>1. \A e \in entries' : e.id \in 1..lastId' /\ e.job \in 0..MaxRows
    OBVIOUS
  <2> QED BY <1>2, <1>3, <2>1, TypeOKNext DEF TypeInv, TypeOK
<1> QED
  BY <1>2, <1>3, <1>4 DEF TypeInv

\* An UPDATE by id leaves a table of rows, and does not bring one back.
LEMMA WriteRowTyped ==
    ASSUME TypeInv, NEW h \in Requests, NEW row, req[h].job \in 1..created,
           WriteRow(h, row),
           rows[req[h].job] # NoRow => row \in RowRecords \cup {NoRow}
    PROVE  /\ rows' \in [Rows -> RowRecords \cup {NoRow}]
           /\ created' = created => FreshOK'
<1> DEFINE j == req[h].job
<1>1. j \in Rows /\ created \in Nat /\ j <= created
  BY MaxRowsAssumption DEF TypeInv, TypeOK, Rows
<1>2. \/ rows' = rows
      \/ rows[j] # NoRow /\ rows' = [rows EXCEPT ![j] = row]
  BY DEF WriteRow
<1> HIDE DEF j
<1>3. \A r \in Rows : r # j => rows'[r] = rows[r]
  BY <1>2 DEF TypeInv
<1>4. created' = created => FreshOK'
  <2>1. SUFFICES ASSUME created' = created, NEW r \in Rows, r > created
                 PROVE  rows'[r] = NoRow
    BY DEF FreshOK
  <2>2. rows[r] = NoRow
    BY <2>1 DEF TypeInv, FreshOK
  <2>3. r # j
    BY <1>1, <2>1 DEF Rows
  <2> QED BY <1>3, <2>2, <2>3
<1>5. rows' \in [Rows -> RowRecords \cup {NoRow}]
  BY <1>1, <1>2 DEF TypeInv, j
<1> QED
  BY <1>4, <1>5

\* The row a request updates, as a record, and the job of the request.
LEMMA WriterFields ==
    ASSUME TypeInv, NEW h \in Requests, req[h].pc = "write", req[h].op \notin Inserts
    PROVE  /\ req[h].job \in 1..created /\ req[h].job \in Rows
           /\ req[h].read \in RowRecords /\ req[h].read.spec \in Specs
           /\ req[h].read.name \in Names /\ req[h].ids \subseteq Nat
           /\ rows[req[h].job] \in RowRecords \cup {NoRow}
<1>1. Busy(h) /\ RequestOK(h)
  BY DEF TypeInv, Busy
<1>2. req[h].job \in 1..created /\ req[h].read \in RowRecords
  BY <1>1 DEF RequestOK
<1>3. req[h].job \in Rows
  BY <1>2, MaxRowsAssumption DEF TypeInv, TypeOK, Rows
<1> QED
  BY <1>2, <1>3, RequestFields DEF TypeInv, RowRecords

LEMMA InsertTyped ==
    ASSUME TypeInv, NEW h \in Requests, Write(h), Insert(h)
    PROVE  TypeInv'
<1> DEFINE row == [req[h].read EXCEPT !.ids = req[h].ids]
           n == created + 1
<1>1. /\ req[h].op \in Inserts /\ req' = [req EXCEPT ![h] = Idle] /\ created' = n
      /\ rows' = [rows EXCEPT ![n] = row]
      /\ entries' = {IF e.job = 0 /\ e.id \in req[h].ids THEN [e EXCEPT !.job = n]
                                                        ELSE e : e \in entries}
      /\ UNCHANGED <<boot, lastId, ops, crashes, spoiled, tainted, twins, edited>>
  BY DEF Write, Insert, Inserts
<1>2. row \in RowRecords
  <2>1. req[h].read \in RowRecords /\ req[h].ids \subseteq Nat
    BY RequestFields DEF TypeInv, RequestOK, Write, Busy
  <2> QED BY <2>1 DEF RowRecords
<1>3. n \in Rows /\ n \in 0..MaxRows /\ created \in Nat
  <2>1. Idle.op \notin Inserts
    BY DEF Idle, Inserts
  <2>2. n \in Rows
    BY <1>1, <2>1, OneLessInsert
  <2> QED BY <2>2, MaxRowsAssumption DEF Rows, TypeInv, TypeOK
<1> HIDE DEF row
<1>4. rows' \in [Rows -> RowRecords \cup {NoRow}] /\ FreshOK'
  <2>1. rows' \in [Rows -> RowRecords \cup {NoRow}]
    BY <1>1, <1>2, <1>3 DEF TypeInv
  <2>2. ASSUME NEW r \in Rows, r > created' PROVE rows'[r] = NoRow
    BY <1>1, <1>3, <2>2 DEF TypeInv, FreshOK, Rows
  <2> QED BY <2>1, <2>2 DEF FreshOK
<1>5. ASSUME NEW e \in entries'
      PROVE  e \in [id : Nat, job : 0..MaxRows] /\ e.id \in 1..lastId /\ e.job <= created'
  <2>1. PICK d \in entries : e = IF d.job = 0 /\ d.id \in req[h].ids
                                  THEN [d EXCEPT !.job = n] ELSE d
    BY <1>1
  <2>2. d \in [id : Nat, job : 0..MaxRows] /\ d.id \in 1..lastId /\ d.job <= created
    BY DEF TypeInv, TypeOK
  <2>3. CASE e = d
    BY <1>1, <1>3, <2>2, <2>3
  <2>4. CASE e = [d EXCEPT !.job = n]
    <3>1. e = [id |-> d.id, job |-> n]
      BY <2>2, <2>4
    <3> QED BY <1>1, <1>3, <2>2, <3>1
  <2> QED BY <2>1, <2>3, <2>4
<1>6. /\ spoiled' \subseteq {"overlap", "spec", "database"} /\ tainted' \in BOOLEAN
      /\ edited' \subseteq Rows
  BY <1>1 DEF TypeInv, TypeOK
<1> QED
  BY <1>1, <1>4, <1>5, <1>6, WriteTyped

LEMMA UpdateTyped ==
    ASSUME TypeInv, NEW h \in Requests, Write(h),
           WriteUpdate(h) \/ WriteStatus(h) \/ WriteDelete(h)
    PROVE  TypeInv'
<1> DEFINE old == rows[req[h].job]
<1>1. /\ req[h].pc = "write" /\ req[h].op \notin Inserts
      /\ req' = [req EXCEPT ![h] = Idle]
      /\ UNCHANGED <<boot, created, entries, lastId, ops, crashes, spoiled, tainted, twins>>
  BY DEF Write, WriteUpdate, WriteStatus, WriteDelete, Inserts
<1>2. PICK row : WriteRow(h, row) /\ (old # NoRow => row \in RowRecords \cup {NoRow})
  <2>0. /\ old \in RowRecords \cup {NoRow} /\ req[h].read.name \in Names
        /\ req[h].read.spec \in Specs /\ req[h].ids \subseteq Nat
    BY <1>1, WriterFields
  <2>1. CASE WriteUpdate(h)
    <3>1. PICK s \in Statuses \cup {old.status} :
            WriteRow(h, [old EXCEPT !.name = req[h].read.name, !.spec = req[h].read.spec,
                            !.ids = IdsAfterUpdate(h), !.status = s])
      <4>1. WriteRow(h, [old EXCEPT !.name = req[h].read.name, !.spec = req[h].read.spec,
                  !.ids = IdsAfterUpdate(h),
                  !.status = IF req[h].read.status = "Pending" THEN "Enable" ELSE @])
        BY <2>1 DEF WriteUpdate
      <4>2. CASE req[h].read.status = "Pending"
        BY <4>1, <4>2 DEF Statuses
      <4>3. CASE req[h].read.status # "Pending"
        BY <4>1, <4>3
      <4> QED BY <4>2, <4>3
    <3>2. ASSUME old # NoRow
          PROVE  [old EXCEPT !.name = req[h].read.name, !.spec = req[h].read.spec,
                     !.ids = IdsAfterUpdate(h), !.status = s] \in RowRecords
      <4>1. old \in RowRecords
        BY <2>0, <3>2
      <4>2. old.status \in Statuses /\ old.ids \subseteq Nat
        BY <4>1 DEF RowRecords
      <4>3. IdsAfterUpdate(h) \subseteq Nat
        BY <2>0, <4>2 DEF IdsAfterUpdate
      <4> QED BY <2>0, <4>1, <4>2, <4>3 DEF RowRecords
    <3> QED BY <3>1, <3>2
  <2>2. CASE WriteStatus(h)
    <3>1. PICK s \in {"Enable", "Disable"} :
            WriteRow(h, [old EXCEPT !.ids = req[h].ids, !.status = s])
      BY <2>2 DEF WriteStatus, IdsAfterStatus
    <3>2. old # NoRow => [old EXCEPT !.ids = req[h].ids, !.status = s] \in RowRecords
      BY <2>0 DEF RowRecords, Statuses
    <3> QED BY <3>1, <3>2
  <2>3. CASE WriteDelete(h)
    BY <2>3 DEF WriteDelete
  <2> QED BY <2>1, <2>2, <2>3
<1>3. rows' \in [Rows -> RowRecords \cup {NoRow}] /\ FreshOK'
  BY <1>1, <1>2, WriterFields, WriteRowTyped
<1>4. edited' \subseteq Rows
  BY <1>1, WriterFields DEF WriteUpdate, WriteStatus, WriteDelete, TypeInv, TypeOK
<1>5. /\ entries' \subseteq [id : Nat, job : 0..MaxRows]
      /\ \A e \in entries' : e.id \in 1..lastId /\ e.job <= created'
      /\ spoiled' \subseteq {"overlap", "spec", "database"} /\ tainted' \in BOOLEAN
  BY <1>1 DEF TypeInv, TypeOK
<1> QED
  BY <1>1, <1>3, <1>4, <1>5, WriteTyped

LEMMA WriteFailsTyped ==
    ASSUME TypeInv, NEW h \in Requests, WriteFails(h)
    PROVE  TypeInv'
<1>1. /\ FreshOK' /\ rows' \in [Rows -> RowRecords \cup {NoRow}]
      /\ entries' \subseteq [id : Nat, job : 0..MaxRows]
      /\ \A e \in entries' : e.id \in 1..lastId /\ e.job <= created'
      /\ spoiled' \subseteq {"overlap", "spec", "database"} /\ tainted' \in BOOLEAN
      /\ edited' \subseteq Rows
  BY DEF WriteFails, TypeInv, TypeOK, FreshOK
<1> QED
  BY <1>1, WriteTyped DEF WriteFails

\* The process dies.
LEMMA CrashTyped == TypeInv /\ Crash => TypeInv'
<1> SUFFICES ASSUME TypeInv, Crash PROVE TypeInv'
  OBVIOUS
<1>1. \A h \in Requests : req'[h] = Idle
  BY DEF Crash
<1>2. req' \in [Requests -> RequestRecords] /\ \A h \in Requests : RequestOK(h)'
  BY <1>1, Records, IdleIsOK DEF Crash
<1>3. Inserting' = {} /\ created' = created
  BY <1>1 DEF Crash, Inserting, Idle, Inserts
<1>4. RoomOK'
  BY <1>3, NoMoreInserts
<1>5. boot' \in 1..MaxRows + 1 /\ crashes' \in 0..MaxCrash /\ lastId' \in Nat
  BY MaxRowsAssumption, MaxCrashAssumption DEF Crash, TypeInv, TypeOK
<1>6. TypeOK'
  BY <1>2, <1>5, TypeOKNext DEF Crash, TypeInv, TypeOK
<1> QED
  BY <1>2, <1>4, <1>6 DEF Crash, TypeInv, FreshOK

\* While cron.Run works, no request is being served.
LEMMA BootTyped ==
    ASSUME TypeInv, ~Served, boot' = boot + 1, UNCHANGED <<created, req, ops, crashes>>,
           rows' \in [Rows -> RowRecords \cup {NoRow}], FreshOK',
           entries' \subseteq [id : Nat, job : 0..MaxRows],
           \A e \in entries' : e.id \in 1..lastId' /\ e.job <= created,
           lastId' \in Nat, spoiled' \subseteq {"overlap", "spec", "database"},
           tainted' \in BOOLEAN, UNCHANGED <<edited, twins>>
    PROVE  TypeInv'
<1>1. \A h \in Requests : req'[h] = Idle
  BY DEF TypeInv, RequestOK
<1>2. req' \in [Requests -> RequestRecords] /\ \A h \in Requests : RequestOK(h)'
  BY <1>1, IdleIsOK DEF TypeInv
<1>3. RoomOK'
  <2>1. Inserting' \subseteq Inserting
    BY DEF Inserting
  <2> QED BY <2>1, NoMoreInserts
<1>4. boot' \in 1..MaxRows + 1
  BY MaxRowsAssumption DEF TypeInv, TypeOK, Served
<1>5. TypeOK'
  BY <1>2, <1>4, TypeOKNext DEF TypeInv, TypeOK
<1> QED
  BY <1>2, <1>3, <1>5 DEF TypeInv

\* What cron.Run adds for a row.
LEMMA BootRow ==
    ASSUME TypeInv, ~Served, rows[boot].status = "Enable"
    PROVE  boot \in Existing /\ boot \in Rows /\ boot \in 1..created /\ boot \in 0..MaxRows
<1>1. boot \in Rows
  BY MaxRowsAssumption DEF TypeInv, TypeOK, Served, Rows
<1>2. boot \in Existing
  <2>1. NoRow.status = "None"
    BY DEF NoRow
  <2> QED BY <1>1, <2>1 DEF Existing
<1>3. boot \in 1..created
  BY <1>2, RowFields
<1>4. boot \in 0..MaxRows
  BY <1>1, MaxRowsAssumption DEF Rows
<1> QED
  BY <1>1, <1>2, <1>3, <1>4

LEMMA StartRowTyped == TypeInv /\ (StartRow \/ StartRowUnsaved) => TypeInv'
<1> SUFFICES ASSUME TypeInv, StartRow \/ StartRowUnsaved PROVE TypeInv'
  OBVIOUS
<1> DEFINE spec == rows[boot].spec
<1>1. /\ ~Served /\ rows[boot].status = "Enable"
      /\ entries' = entries \cup Fresh(spec, boot)
      /\ lastId' = lastId + spec.registers
      /\ boot' = boot + 1 /\ UNCHANGED <<created, req, ops, crashes, edited, twins>>
      /\ spoiled' \subseteq spoiled \cup {"spec", "database"}
      /\ tainted' \in {tainted, TRUE}
  BY DEF StartRow, StartRowUnsaved, Fresh
<1>2. /\ boot \in Existing /\ boot \in Rows /\ boot \in 1..created /\ boot \in 0..MaxRows
      /\ rows[boot] \in RowRecords /\ spec \in Specs
  BY <1>1, BootRow, RowFields
<1>3. rows' = rows \/ rows' = [rows EXCEPT ![boot].ids = StartedIds(boot)]
  BY DEF StartRow, StartRowUnsaved
<1>4. StartedIds(boot) \subseteq Nat
  BY <1>1, <1>2, FreshEntries DEF StartedIds
<1> HIDE DEF spec
<1>5. rows' \in [Rows -> RowRecords \cup {NoRow}]
  <2>1. [rows[boot] EXCEPT !.ids = StartedIds(boot)] \in RowRecords
    BY <1>2, <1>4 DEF RowRecords
  <2> QED BY <1>2, <1>3, <2>1 DEF TypeInv
<1>6. FreshOK'
  <2>1. SUFFICES ASSUME NEW r \in Rows, r > created PROVE rows'[r] = NoRow
    BY <1>1 DEF FreshOK
  <2>2. rows[r] = NoRow /\ r # boot
    BY <1>2, <2>1 DEF TypeInv, FreshOK, Existing
  <2> QED BY <1>3, <2>2 DEF TypeInv
<1>7. /\ entries' \subseteq [id : Nat, job : 0..MaxRows] /\ lastId' \in Nat
      /\ \A e \in entries' : e.id \in 1..lastId' /\ e.job <= created
  <2>1. entries \subseteq [id : Nat, job : 0..MaxRows] /\ \A e \in entries : e.job <= created
    BY DEF TypeInv
  <2> QED BY <1>1, <1>2, <2>1, FreshEntries
<1>8. spoiled' \subseteq {"overlap", "spec", "database"} /\ tainted' \in BOOLEAN
  BY <1>1 DEF TypeInv, TypeOK
<1> QED
  BY <1>1, <1>5, <1>6, <1>7, <1>8, BootTyped

LEMMA TypeStep == TypeInv /\ [Next]_vars => TypeInv'
<1> SUFFICES ASSUME TypeInv, [Next]_vars PROVE TypeInv'
  OBVIOUS
<1>1. ASSUME NEW h \in Requests, Begin(h) \/ StartJob(h) \/ StopJob(h) PROVE TypeInv'
  BY <1>1, BeginTyped, StartJobTyped, StopJobTyped
<1>2. ASSUME NEW h \in Requests, Write(h) \/ WriteFails(h) PROVE TypeInv'
  BY <1>2, InsertTyped, UpdateTyped, WriteFailsTyped DEF Write
<1>3. CASE Crash
  BY <1>3, CrashTyped
<1>4. CASE StartRow \/ StartRowUnsaved
  BY <1>4, StartRowTyped
<1>5. CASE SkipRow
  <2>1. /\ rows' \in [Rows -> RowRecords \cup {NoRow}] /\ FreshOK'
        /\ entries' \subseteq [id : Nat, job : 0..MaxRows] /\ lastId' \in Nat
        /\ \A e \in entries' : e.id \in 1..lastId' /\ e.job <= created
        /\ spoiled' \subseteq {"overlap", "spec", "database"} /\ tainted' \in BOOLEAN
    BY <1>5 DEF SkipRow, TypeInv, TypeOK, FreshOK
  <2> QED BY <1>5, <2>1, BootTyped DEF SkipRow
<1>6. CASE UNCHANGED vars
  BY <1>6 DEF vars, TypeInv, TypeOK, FreshOK, RoomOK, Inserting, RequestOK, Busy, Served
<1> QED
  BY <1>1, <1>2, <1>3, <1>4, <1>5, <1>6 DEF Next

\* Every variable keeps its type: in particular rows never run out while
\* requests on their way to an insert are counted.
THEOREM TypeCorrect == Spec => []TypeOK
<1>1. TypeInv => TypeOK
  BY DEF TypeInv
<1> QED
  BY <1>1, TypeInit, TypeStep, PTL DEF Spec

-----------------------------------------------------------------------------
(* What the writes do, in terms of single rows, requests and entries. *)

Entry(i, r) == [id |-> i, job |-> r]

\* The request that writes ends, and no other changes.
LEMMA WriterEnds ==
    ASSUME TypeInv, NEW h \in Requests, req' = [req EXCEPT ![h] = Idle]
    PROVE  req'[h] = Idle /\ \A g \in Requests : g # h => req'[g] = req[g]
BY DEF TypeInv

\* An UPDATE changes one row, and only one that is still there.
LEMMA UpdateEffect ==
    ASSUME TypeInv, NEW h \in Requests, Write(h),
           WriteUpdate(h) \/ WriteStatus(h) \/ WriteDelete(h)
    PROVE  LET j == req[h].job IN
           /\ j \in Rows /\ j # 0 /\ req[h].pc = "write" /\ req[h].op \notin Inserts
           /\ req'[h] = Idle /\ \A g \in Requests : g # h => req'[g] = req[g]
           /\ UNCHANGED <<boot, created, entries, lastId, spoiled, tainted, twins>>
           /\ \A r \in Rows : r # j => rows'[r] = rows[r]
           /\ rows[j] = NoRow => rows'[j] = NoRow
           /\ rows[j] # NoRow /\ req[h].op = "delete" => rows'[j] = NoRow
           /\ rows[j] # NoRow /\ req[h].op \in {"enable", "disable"} =>
                 rows'[j].name = rows[j].name
           /\ rows[j] # NoRow /\ req[h].op = "update" =>
                 /\ rows'[j].name = req[h].read.name
                 /\ rows'[j].spec = req[h].read.spec
                 /\ rows'[j].ids = IdsAfterUpdate(h)
                 /\ rows'[j].status = IF req[h].read.status = "Pending"
                                      THEN "Enable" ELSE rows[j].status
           /\ rows[j] # NoRow /\ req[h].op \in {"enable", "disable"} =>
                 /\ rows'[j].spec = rows[j].spec
                 /\ rows'[j].ids = req[h].ids
                 /\ rows'[j].status = IF req[h].op = "enable" THEN "Enable" ELSE "Disable"
           /\ req[h].op \in {"update", "enable", "disable", "delete"}
           /\ edited' = IF req[h].op = "update" /\ req[h].read.status = "Pending"
                        THEN edited \cup {j}
                        ELSE IF req[h].op \in {"enable", "disable"} THEN edited \ {j}
                        ELSE edited
<1> DEFINE j == req[h].job
<1>1. /\ req[h].pc = "write" /\ req' = [req EXCEPT ![h] = Idle]
      /\ UNCHANGED <<boot, created, entries, lastId, spoiled, tainted, twins>>
      /\ req[h].op \notin Inserts
      /\ req[h].op \in {"update", "enable", "disable", "delete"}
  BY DEF Write, WriteUpdate, WriteStatus, WriteDelete, Inserts
<1>2. j \in Rows /\ j # 0 /\ rows[j] \in RowRecords \cup {NoRow}
  BY <1>1, WriterFields DEF Rows
<1>3. req'[h] = Idle /\ \A g \in Requests : g # h => req'[g] = req[g]
  BY <1>1, WriterEnds
<1>4. ASSUME NEW row, WriteRow(h, row)
      PROVE  /\ \A r \in Rows : r # j => rows'[r] = rows[r]
             /\ rows[j] = NoRow => rows'[j] = NoRow
             /\ rows[j] # NoRow => rows'[j] = row
  BY <1>2, <1>4 DEF WriteRow, TypeInv
<1>5. CASE WriteUpdate(h)
  <2>1. PICK t : /\ t = IF req[h].read.status = "Pending" THEN "Enable" ELSE rows[j].status
                 /\ WriteRow(h, [rows[j] EXCEPT !.name = req[h].read.name,
                           !.spec = req[h].read.spec,
                                    !.ids = IdsAfterUpdate(h), !.status = t])
    <3>1. WriteRow(h, [rows[j] EXCEPT !.name = req[h].read.name,
                 !.spec = req[h].read.spec, !.ids = IdsAfterUpdate(h),
                !.status = IF req[h].read.status = "Pending" THEN "Enable" ELSE @])
      BY <1>5 DEF WriteUpdate
    <3>2. CASE req[h].read.status = "Pending"
      BY <3>1, <3>2
    <3>3. CASE req[h].read.status # "Pending" /\ rows[j] # NoRow
      <4>1. WriteRow(h, [rows[j] EXCEPT !.name = req[h].read.name,
                           !.spec = req[h].read.spec,
                           !.ids = IdsAfterUpdate(h), !.status = @])
        BY <3>1, <3>3
      <4>2. [rows[j] EXCEPT !.name = req[h].read.name,
                 !.spec = req[h].read.spec, !.ids = IdsAfterUpdate(h), !.status = @]
            = [rows[j] EXCEPT !.name = req[h].read.name,
                 !.spec = req[h].read.spec, !.ids = IdsAfterUpdate(h),
                 !.status = rows[j].status]
        BY <1>2, <3>3 DEF RowRecords
      <4> QED BY <3>3, <4>1, <4>2
    <3>4. CASE rows[j] = NoRow
      BY <3>1, <3>4 DEF WriteRow
    <3> QED BY <3>2, <3>3, <3>4
  <2>2. /\ req[h].op = "update"
        /\ edited' = IF req[h].read.status = "Pending" THEN edited \cup {j} ELSE edited
    BY <1>5 DEF WriteUpdate
  <2>3. rows[j] # NoRow => rows'[j] = [rows[j] EXCEPT !.name = req[h].read.name,
                           !.spec = req[h].read.spec,
                                          !.ids = IdsAfterUpdate(h), !.status = t]
    BY <1>4, <2>1
  <2>4. rows[j] # NoRow =>
          /\ rows'[j].name = req[h].read.name /\ rows'[j].spec = req[h].read.spec
          /\ rows'[j].ids = IdsAfterUpdate(h) /\ rows'[j].status = t
    BY <1>2, <2>3 DEF RowRecords
  <2>5. (\A r \in Rows : r # j => rows'[r] = rows[r]) /\ (rows[j] = NoRow => rows'[j] = NoRow)
    BY <1>4, <2>1
  <2>6. t = IF req[h].read.status = "Pending" THEN "Enable" ELSE rows[j].status
    BY <2>1
  <2> QED BY <1>1, <1>2, <1>3, <2>2, <2>4, <2>5, <2>6
<1>6. CASE WriteStatus(h)
  <2>1. PICK t :
          /\ t = IF req[h].op = "enable" THEN "Enable" ELSE "Disable"
          /\ WriteRow(h, [rows[j] EXCEPT !.ids = req[h].ids, !.status = t])
    BY <1>6 DEF WriteStatus, IdsAfterStatus
  <2>2. req[h].op \in {"enable", "disable"} /\ edited' = edited \ {j}
    BY <1>6 DEF WriteStatus
  <2>3. rows[j] # NoRow => rows'[j] = [rows[j] EXCEPT !.ids = req[h].ids, !.status = t]
    BY <1>4, <2>1
  <2>4. rows[j] # NoRow =>
          /\ rows'[j].name = rows[j].name /\ rows'[j].spec = rows[j].spec
          /\ rows'[j].ids = req[h].ids /\ rows'[j].status = t
    BY <1>2, <2>3 DEF RowRecords
  <2>5. (\A r \in Rows : r # j => rows'[r] = rows[r]) /\ (rows[j] = NoRow => rows'[j] = NoRow)
    BY <1>4, <2>1
  <2>6. t = IF req[h].op = "enable" THEN "Enable" ELSE "Disable"
    BY <2>1
  <2> QED BY <1>1, <1>2, <1>3, <2>2, <2>4, <2>5, <2>6
<1>7. CASE WriteDelete(h)
  BY <1>1, <1>2, <1>3, <1>4, <1>7 DEF WriteDelete
<1> QED
  BY <1>5, <1>6, <1>7

\* An INSERT adds the next row, and gives it the entries of its request.
LEMMA InsertEffect ==
    ASSUME TypeInv, NEW h \in Requests, Write(h), Insert(h)
    PROVE  LET n == created + 1
               Mine(e) == e.job = 0 /\ e.id \in req[h].ids
           IN
           /\ n \in Rows /\ n # 0 /\ rows[n] = NoRow /\ n <= MaxRows
           /\ req[h].pc = "write" /\ req[h].op \in Inserts /\ req[h].job = 0
           /\ req'[h] = Idle /\ \A g \in Requests : g # h => req'[g] = req[g]
           /\ UNCHANGED <<boot, lastId, spoiled, tainted, twins, edited>>
           /\ Served /\ created' = n
           /\ \A r \in Rows : r # n => rows'[r] = rows[r]
           /\ rows'[n].name = req[h].read.name /\ rows'[n].status = req[h].read.status
           /\ rows'[n].spec = req[h].read.spec /\ rows'[n].ids = req[h].ids
           /\ rows'[n] # NoRow
           /\ \A e \in entries' : \E d \in entries :
                 e.id = d.id /\ (IF Mine(d) THEN e.job = n ELSE e = d)
           /\ \A d \in entries : IF Mine(d) THEN Entry(d.id, n) \in entries' ELSE d \in entries'
<1> DEFINE n == created + 1
           row == [req[h].read EXCEPT !.ids = req[h].ids]
           Mine(e) == e.job = 0 /\ e.id \in req[h].ids
<1>1. /\ req[h].pc = "write" /\ Busy(h) /\ req' = [req EXCEPT ![h] = Idle]
      /\ UNCHANGED <<boot, lastId, spoiled, tainted, twins, edited>>
      /\ req[h].op \in Inserts /\ created' = n
      /\ rows' = [rows EXCEPT ![n] = row]
      /\ entries' = {IF Mine(e) THEN [e EXCEPT !.job = n] ELSE e : e \in entries}
  BY DEF Write, Insert, Inserts, Busy
<1>2. Served /\ req[h].job = 0 /\ req[h].read \in RowRecords
  BY <1>1 DEF TypeInv, RequestOK
<1>3. req'[h] = Idle /\ \A g \in Requests : g # h => req'[g] = req[g]
  BY <1>1, WriterEnds
<1>4. n \in Rows
  <2>1. Idle.op \notin Inserts
    BY DEF Idle, Inserts
  <2> QED BY <1>1, <2>1, OneLessInsert
<1>5. n # 0 /\ n <= MaxRows /\ rows[n] = NoRow
  <2>1. created \in Nat
    BY MaxRowsAssumption DEF TypeInv, TypeOK
  <2> QED BY <1>4, <2>1, MaxRowsAssumption DEF TypeInv, FreshOK, Rows
<1>6. /\ row.name = req[h].read.name /\ row.status = req[h].read.status
      /\ row.spec = req[h].read.spec /\ row.ids = req[h].ids
  BY <1>2 DEF RowRecords
<1>7. row # NoRow
  <2>1. NoRow.status = "None" /\ req[h].read.status # "None"
    BY <1>2 DEF NoRow, RowRecords, Statuses
  <2> QED BY <1>6, <2>1
<1> HIDE DEF row
<1>8. rows'[n] = row /\ \A r \in Rows : r # n => rows'[r] = rows[r]
  BY <1>1, <1>4 DEF TypeInv
<1>9. \A e \in entries : [e EXCEPT !.job = n] = Entry(e.id, n)
  BY DEF TypeInv, Entry
<1>10. \A i : Entry(i, n).id = i /\ Entry(i, n).job = n
  BY DEF Entry
<1>11. /\ \A e \in entries' : \E d \in entries :
             e.id = d.id /\ (IF Mine(d) THEN e.job = n ELSE e = d)
       /\ \A d \in entries : IF Mine(d) THEN Entry(d.id, n) \in entries' ELSE d \in entries'
  <2> HIDE DEF Mine, n
  <2>1. entries' = {IF Mine(e) THEN Entry(e.id, n) ELSE e : e \in entries}
    BY <1>1, <1>9
  <2>2. ASSUME NEW e \in entries'
        PROVE  \E d \in entries : e.id = d.id /\ (IF Mine(d) THEN e.job = n ELSE e = d)
    <3>1. PICK d \in entries : e = IF Mine(d) THEN Entry(d.id, n) ELSE d
      BY <2>1
    <3> QED BY <1>10, <3>1
  <2>3. ASSUME NEW d \in entries
        PROVE  IF Mine(d) THEN Entry(d.id, n) \in entries' ELSE d \in entries'
    BY <2>1
  <2> QED BY <2>2, <2>3
<1> QED
  BY <1>1, <1>2, <1>3, <1>4, <1>5, <1>6, <1>7, <1>8, <1>11

-----------------------------------------------------------------------------
(* Names. *)

\* The requests that will write a name: to a row, or to one that is to come (0).
Naming == {h \in Requests : req[h].op \in Inserts \cup {"update"}}

\* Besides the rows, the names requests are about to write.
NameInv ==
    /\ NamesAreUnique
    /\ \A h \in Naming, r \in Existing :
          r # req[h].job /\ rows[r].name = req[h].read.name => rows[r].name \in twins
    /\ \A h, g \in Naming :
          h # g /\ req[h].read.name = req[g].read.name
                /\ (req[h].job = 0 \/ req[g].job # req[h].job)
            => req[h].read.name \in twins

LEMMA NameInit == Init => NameInv
BY DEF Init, NameInv, NamesAreUnique, Existing, Naming, Inserts, Idle

\* Steps that add neither a row, nor a name, nor a request to write one.
LEMMA NamesKept ==
    ASSUME NameInv, twins \subseteq twins',
           \A r \in Existing' : r \in Existing /\ rows'[r].name = rows[r].name,
           \A h \in Naming' : h \in Naming /\ req'[h].read = req[h].read
                                /\ req'[h].job = req[h].job
    PROVE  NameInv'
BY DEF NameInv, NamesAreUnique

LEMMA NameStep == TypeInv /\ NameInv /\ [Next]_vars => NameInv'
<1> SUFFICES ASSUME TypeInv, NameInv, [Next]_vars PROVE NameInv'
  OBVIOUS
<1>i. "none" \notin Inserts /\ Idle.op = "none" /\ "update" \notin Inserts
  BY DEF Inserts, Idle
<1>z. /\ \A h \in Naming : req[h].op \in Inserts <=> req[h].job = 0
      /\ \A r \in Existing : r # 0
  <2>1. \A h \in Naming : RequestOK(h) /\ Busy(h)
    BY <1>i DEF TypeInv, RequestOK, Naming
  <2>2. \A h \in Naming : req[h].op \in Inserts <=> req[h].job = 0
    BY <2>1, MaxRowsAssumption DEF RequestOK, TypeInv, TypeOK
  <2> QED BY <2>2, MaxRowsAssumption DEF Existing, Rows
<1>1. ASSUME NEW h \in Requests, Begin(h) PROVE NameInv'
  <2>1. PICK op, place, job, read : AcceptsAs(h, op, place, job, read)
    BY <1>1, BeginAccepts
  <2>2. /\ req[h] = Idle /\ req'[h].op = op /\ req'[h].read = read /\ req'[h].job = job
        /\ \A g \in Requests : g # h => req'[g] = req[g]
        /\ rows' = rows /\ Existing' = Existing
    BY <2>1, AcceptedRequest DEF Existing
  <2>3. h \notin Naming
    BY <1>i, <2>2 DEF Naming
  <2>4. twins' = IF Twin(op, job, read.name) THEN twins \cup {read.name} ELSE twins
    BY <2>1 DEF AcceptsAs, Accept
  <2>t. twins \subseteq twins'
    BY <2>4
  <2>5. CASE op \notin Inserts \cup {"update"}
    <3>1. \A g \in Naming' : g \in Naming /\ req'[g] = req[g]
      BY <2>2, <2>5 DEF Naming
    <3> QED BY <2>2, <2>t, <3>1, NamesKept
  <2>6. CASE op \in Inserts \cup {"update"}
    <3>1. \A g \in Naming' : g = h \/ (g \in Naming /\ req'[g] = req[g])
      BY <2>2 DEF Naming
    <3>2. job = 0 <=> op \in Inserts
      BY <1>z, <2>1, <2>6 DEF AcceptsAs
    <3>3. \A r \in Existing : r # job /\ rows[r].name = read.name => read.name \in twins'
      <4>1. CASE op \in Inserts
        BY <2>1, <4>1 DEF AcceptsAs, NameFree
      <4>2. CASE op = "update"
        BY <2>4, <4>2 DEF Twin
      <4> QED BY <2>6, <4>1, <4>2
    <3>4. \A g \in Naming : req[g].read.name = read.name /\ (job = 0 \/ req[g].job # job)
                              => read.name \in twins'
      <4> SUFFICES ASSUME NEW g \in Naming, req[g].read.name = read.name,
                          job = 0 \/ req[g].job # job
                   PROVE  read.name \in twins'
        OBVIOUS
      <4>1. g \in Claims(read.name, job)
        BY DEF Naming, Claims
      <4> QED BY <2>4, <2>6, <4>1 DEF Twin
    <3>6. NamesAreUnique'
      BY <2>2, <2>t DEF NameInv, NamesAreUnique
    <3>7. \A g \in Naming', r \in Existing' :
             r # req'[g].job /\ rows'[r].name = req'[g].read.name => rows'[r].name \in twins'
      BY <2>2, <2>t, <3>1, <3>3 DEF NameInv
    <3>8. \A f, g \in Naming' :
             f # g /\ req'[f].read.name = req'[g].read.name
                   /\ (req'[f].job = 0 \/ req'[g].job # req'[f].job)
               => req'[f].read.name \in twins'
      <4> SUFFICES ASSUME NEW f \in Naming', NEW g \in Naming', f # g,
                          req'[f].read.name = req'[g].read.name,
                          req'[f].job = 0 \/ req'[g].job # req'[f].job
                   PROVE  req'[f].read.name \in twins'
        OBVIOUS
      <4>1. CASE f = h
        BY <2>2, <3>1, <3>4, <4>1
      <4>2. CASE g = h
        BY <2>2, <3>1, <3>4, <4>2
      <4>3. CASE f # h /\ g # h
        BY <2>t, <3>1, <4>3 DEF NameInv
      <4> QED BY <4>1, <4>2, <4>3
    <3> QED BY <3>6, <3>7, <3>8 DEF NameInv
  <2> QED BY <2>5, <2>6
<1>2. ASSUME NEW h \in Requests, StartJob(h) \/ StopJob(h) \/ WriteFails(h) PROVE NameInv'
  <2>1. /\ UNCHANGED <<rows, twins>>
        /\ \A g \in Requests : req'[g] = Idle
              \/ (/\ req'[g].op = req[g].op /\ req'[g].read = req[g].read
                  /\ req'[g].job = req[g].job)
    BY <1>2 DEF StartJob, StopJob, WriteFails, TypeInv, RequestRecords
  <2>2. \A g \in Naming' : g \in Naming /\ req'[g].read = req[g].read
                             /\ req'[g].job = req[g].job
    BY <1>i, <2>1 DEF Naming
  <2> QED BY <2>1, <2>2, NamesKept DEF Existing
<1>3. ASSUME NEW h \in Requests, Write(h), Insert(h) PROVE NameInv'
  <2> DEFINE n == created + 1
  <2>1. /\ n \in Rows /\ h \in Naming /\ req[h].op \in Inserts /\ twins' = twins
        /\ \A r \in Rows : r # n => rows'[r] = rows[r]
        /\ rows'[n].name = req[h].read.name
        /\ req'[h] = Idle /\ \A g \in Requests : g # h => req'[g] = req[g]
    BY <1>3, InsertEffect DEF Naming
  <2> HIDE DEF n
  <2>2. \A r \in Existing' : r = n \/ (r \in Existing /\ rows'[r] = rows[r])
    BY <2>1 DEF Existing
  <2>3. \A g \in Naming' : g # h /\ g \in Naming /\ req'[g] = req[g]
    BY <1>i, <2>1 DEF Naming
  <2>4. req[h].job = 0
    BY <1>z, <2>1
  <2>5. \A r \in Existing : rows[r].name = req[h].read.name => rows[r].name \in twins
    BY <1>z, <2>1, <2>4 DEF NameInv
  <2>6. NamesAreUnique'
    BY <2>1, <2>2, <2>5 DEF NameInv, NamesAreUnique
  <2>7. \A g \in Naming : g # h /\ req[g].read.name = req[h].read.name
                            => req[g].read.name \in twins
    BY <2>1, <2>4 DEF NameInv
  <2>8. \A g \in Naming', r \in Existing' :
           r # req'[g].job /\ rows'[r].name = req'[g].read.name => rows'[r].name \in twins'
    BY <2>1, <2>2, <2>3, <2>7 DEF NameInv
  <2> QED BY <2>1, <2>3, <2>6, <2>8 DEF NameInv
<1>4. ASSUME NEW h \in Requests, Write(h),
             WriteUpdate(h) \/ WriteStatus(h) \/ WriteDelete(h)
      PROVE  NameInv'
  <2> DEFINE j == req[h].job
  <2>1. /\ j \in Rows /\ twins' = twins
        /\ \A r \in Rows : r # j => rows'[r] = rows[r]
        /\ \/ rows'[j] = NoRow
           \/ /\ rows[j] # NoRow
              /\ \/ rows'[j].name = rows[j].name
                 \/ req[h].op = "update" /\ rows'[j].name = req[h].read.name
        /\ req'[h] = Idle /\ \A g \in Requests : g # h => req'[g] = req[g]
    BY <1>4, UpdateEffect
  <2>3. \A g \in Naming' : g # h /\ g \in Naming /\ req'[g] = req[g]
    BY <1>i, <2>1 DEF Naming
  <2>4. CASE rows'[j] = NoRow \/ rows'[j].name = rows[j].name
    <3>1. \A r \in Existing' : r \in Existing /\ rows'[r].name = rows[r].name
      BY <2>1, <2>4 DEF Existing
    <3> QED BY <2>1, <2>3, <3>1, NamesKept
  <2>5. CASE /\ rows[j] # NoRow /\ req[h].op = "update"
             /\ rows'[j].name = req[h].read.name
    <3>1. h \in Naming /\ j \in Existing /\ j # 0
      BY <1>z, <2>1, <2>5 DEF Naming, Existing
    <3>2. \A r \in Existing' : r \in Existing /\ (r # j => rows'[r] = rows[r])
      BY <2>1, <2>5 DEF Existing
    <3>3. \A r \in Existing : r # j /\ rows[r].name = req[h].read.name
                                => rows[r].name \in twins
      BY <3>1 DEF NameInv
    <3>4. \A g \in Naming : g # h /\ req[g].read.name = req[h].read.name /\ req[g].job # j
                              => req[g].read.name \in twins
      BY <3>1 DEF NameInv
    <3> HIDE DEF j
    <3>5. NamesAreUnique'
      BY <2>1, <2>5, <3>2, <3>3 DEF NameInv, NamesAreUnique
    <3>6. \A g \in Naming', r \in Existing' :
             r # req'[g].job /\ rows'[r].name = req'[g].read.name => rows'[r].name \in twins'
      <4> SUFFICES ASSUME NEW g \in Naming', NEW r \in Existing', r # req'[g].job,
                          rows'[r].name = req'[g].read.name
                   PROVE  rows'[r].name \in twins'
        OBVIOUS
      <4>1. CASE r = j
        BY <2>1, <2>3, <2>5, <3>4, <4>1
      <4>2. CASE r # j
        BY <2>1, <2>3, <3>2, <4>2 DEF NameInv
      <4> QED BY <4>1, <4>2
    <3> QED BY <2>1, <2>3, <3>5, <3>6 DEF NameInv
  <2> QED BY <2>1, <2>4, <2>5
<1>5. CASE Crash
  <2>1. UNCHANGED <<rows, twins>> /\ Naming' = {}
    BY <1>5, <1>i DEF Crash, Naming
  <2> QED BY <2>1, NamesKept DEF Existing
<1>6. CASE StartRow
  <2>1. /\ boot \in Existing /\ rows[boot] \in RowRecords
        /\ rows' = [rows EXCEPT ![boot].ids = StartedIds(boot)] /\ UNCHANGED <<req, twins>>
    BY <1>6, BootRow, RowFields DEF StartRow
  <2>2. \A r \in Existing' : r \in Existing /\ rows'[r].name = rows[r].name
    BY <2>1 DEF Existing, TypeInv, RowRecords
  <2>3. \A g \in Naming' : g \in Naming /\ req'[g] = req[g]
    BY <2>1 DEF Naming
  <2> QED BY <2>1, <2>2, <2>3, NamesKept
<1>7. CASE SkipRow \/ StartRowUnsaved \/ UNCHANGED vars
  <2>1. UNCHANGED <<rows, req, twins>>
    BY <1>7 DEF SkipRow, StartRowUnsaved, vars
  <2>2. \A g \in Naming' : g \in Naming /\ req'[g] = req[g]
    BY <2>1 DEF Naming
  <2> QED BY <2>1, <2>2, NamesKept DEF Existing
<1> QED
  BY <1>1, <1>2, <1>3, <1>4, <1>5, <1>6, <1>7 DEF Next, Write

\* Two cronjobs come to have one name only when Update, which does not look for the
\* name, gave it to one while another had it, or when both were to get it from
\* requests served at one time: no other update, deletion, failure or restart brings
\* a name in twice, for any number of concurrent requests.
THEOREM NamesAreUniqueHolds == Spec => []NamesAreUnique
<1>1. NameInv => NamesAreUnique
  BY DEF NameInv
<1> QED
  BY <1>1, TypeInit, TypeStep, NameInit, NameStep, PTL DEF Spec

-----------------------------------------------------------------------------
(* What the calls of the scheduler do. *)

AtWrite(h) == req[h].pc = "write"

\* A request that called StartJob and has not written its row yet.
Started(h) == AtWrite(h) /\ Restarts(h)

LEMMA StartEffect ==
    ASSUME TypeInv, NEW h \in Requests, StartJob(h)
    PROVE  LET spec == req[h].read.spec IN
           /\ req[h].pc = "schedule" /\ Busy(h) /\ Served /\ Restarts(h)
           /\ spec \in Specs /\ req[h].job \in 0..MaxRows
           /\ entries' = Without(Replaced(h)) \cup Fresh(spec, req[h].job)
           /\ lastId' = lastId + spec.registers
           /\ \A g \in Requests : g # h => req'[g] = req[g]
           /\ UNCHANGED <<boot, rows, created, tainted, edited>>
           /\ Valid(spec) => /\ req'[h].pc = "write" /\ req'[h].op = req[h].op
                             /\ req'[h].job = req[h].job /\ req'[h].read = req[h].read
                             /\ req'[h].ids = NewIds(spec) /\ spoiled' = spoiled
           /\ ~Valid(spec) => req'[h] = Idle /\ spoiled' = spoiled \cup {"spec"}
<1> DEFINE spec == req[h].read.spec
<1>1. /\ req[h].pc = "schedule" /\ Busy(h) /\ Restarts(h)
      /\ entries' = Without(Replaced(h)) \cup Fresh(spec, req[h].job)
      /\ lastId' = lastId + spec.registers
      /\ UNCHANGED <<boot, rows, created, tainted, edited>>
      /\ Valid(spec) => /\ req' = [req EXCEPT ![h].pc = "write", ![h].ids = NewIds(spec)]
                        /\ spoiled' = spoiled
      /\ ~Valid(spec) => /\ req' = [req EXCEPT ![h] = Idle]
                         /\ spoiled' = spoiled \cup {"spec"}
  BY DEF StartJob, Busy, Fresh
<1>2. Served /\ req[h].read \in RowRecords /\ req[h].job \in 0..MaxRows
  BY <1>1, RequestFields DEF TypeInv, RequestOK
<1>3. spec \in Specs
  BY <1>2 DEF RowRecords
<1> HIDE DEF spec
<1>4. /\ req[h] \in RequestRecords /\ req \in [Requests -> RequestRecords]
  BY DEF TypeInv
<1>5. CASE Valid(spec)
  <2>1. req'[h] = [req[h] EXCEPT !.pc = "write", !.ids = NewIds(spec)]
        /\ \A g \in Requests : g # h => req'[g] = req[g]
    BY <1>1, <1>4, <1>5
  <2>2. /\ req'[h].pc = "write" /\ req'[h].op = req[h].op
        /\ req'[h].job = req[h].job /\ req'[h].read = req[h].read
        /\ req'[h].ids = NewIds(spec)
    BY <1>4, <2>1 DEF RequestRecords
  <2> QED BY <1>1, <1>2, <1>3, <1>5, <2>1, <2>2 DEF spec
<1>6. CASE ~Valid(spec)
  <2>1. req'[h] = Idle /\ \A g \in Requests : g # h => req'[g] = req[g]
    BY <1>1, <1>4, <1>6
  <2> QED BY <1>1, <1>2, <1>3, <1>6, <2>1 DEF spec
<1> QED
  BY <1>5, <1>6

LEMMA StopEffect ==
    ASSUME TypeInv, NEW h \in Requests, StopJob(h)
    PROVE  /\ req[h].pc = "schedule" /\ Busy(h) /\ Served /\ ~Restarts(h)
           /\ req[h].op \notin Inserts /\ req[h].job \in Rows /\ req[h].job # 0
           /\ entries' = Without(req[h].read.ids)
           /\ \A g \in Requests : g # h => req'[g] = req[g]
           /\ UNCHANGED <<boot, rows, created, lastId, spoiled, tainted, edited>>
           /\ req'[h].pc = "write" /\ req'[h].op = req[h].op
           /\ req'[h].job = req[h].job /\ req'[h].read = req[h].read
           /\ req'[h].ids = req[h].ids
<1>1. /\ req[h].pc = "schedule" /\ Busy(h) /\ ~Restarts(h)
      /\ entries' = Without(req[h].read.ids)
      /\ req' = [req EXCEPT ![h].pc = "write"]
      /\ UNCHANGED <<boot, rows, created, lastId, spoiled, tainted, edited>>
  BY DEF StopJob, Busy
<1>2. req[h] \in RequestRecords /\ req \in [Requests -> RequestRecords]
  BY DEF TypeInv
<1>3. req'[h] = [req[h] EXCEPT !.pc = "write"]
      /\ \A g \in Requests : g # h => req'[g] = req[g]
  BY <1>1, <1>2
<1>4. /\ req'[h].pc = "write" /\ req'[h].op = req[h].op
      /\ req'[h].job = req[h].job /\ req'[h].read = req[h].read
      /\ req'[h].ids = req[h].ids
  BY <1>2, <1>3 DEF RequestRecords
<1>5. RequestOK(h) /\ req[h].op \notin Inserts
  BY <1>1 DEF TypeInv, RequestOK, Restarts, Inserts
<1>6. Served /\ req[h].job \in Rows /\ req[h].job # 0
  BY <1>1, <1>5, MaxRowsAssumption DEF RequestOK, TypeInv, TypeOK, Rows
<1> QED
  BY <1>1, <1>3, <1>4, <1>5, <1>6

\* While cron.Run works there is no request at all.
LEMMA BootIsAlone ==
    ASSUME TypeInv, ~Served
    PROVE  \A h \in Requests : req[h] = Idle /\ req[h].job = 0 /\ ~AtWrite(h)
<1>1. \A h \in Requests : req[h] = Idle
  BY DEF TypeInv, RequestOK
<1> QED
  BY <1>1 DEF Idle, AtWrite

-----------------------------------------------------------------------------
(* Requests alone at their row. *)

Alone == \A h, g \in Requests : h # g /\ req[h].job = req[g].job => req[h].job = 0

\* What the request has read is still what the row holds.
ReadOK(h) ==
    req[h].job # 0 =>
        /\ rows[req[h].job] # NoRow
        /\ req[h].read.status = rows[req[h].job].status
        /\ req[h].read.ids = rows[req[h].job].ids
        /\ req[h].op # "update" => req[h].read.spec = rows[req[h].job].spec

\* Without an overlap since the start, every request is alone at its row; one
\* that ever was is remembered, and so is a failed write.
AloneInv ==
    /\ "overlap" \notin spoiled => Alone /\ \A h \in Requests : ReadOK(h)
    /\ ~tainted => spoiled \subseteq {"spec"}

LEMMA AloneInit == Init => AloneInv
BY DEF Init, AloneInv, Alone, ReadOK, Idle

\* Steps by which no request comes to a row.
LEMMA AloneKept ==
    ASSUME AloneInv, spoiled \subseteq spoiled' \/ \A g \in Requests : req'[g].job = 0,
           ~tainted' => spoiled' \subseteq {"spec"},
           "overlap" \notin spoiled' => \A g \in Requests :
              \/ req'[g].job = 0
              \/ /\ req'[g].job = req[g].job /\ req'[g].op = req[g].op
                 /\ req'[g].read = req[g].read
                 /\ rows'[req[g].job] = rows[req[g].job]
    PROVE  AloneInv'
<1>1. CASE \A g \in Requests : req'[g].job = 0
  BY <1>1 DEF AloneInv, Alone, ReadOK
<1>2. CASE spoiled \subseteq spoiled'
  <2>1. SUFFICES ASSUME "overlap" \notin spoiled'
                 PROVE  Alone' /\ \A g \in Requests : ReadOK(g)'
    BY DEF AloneInv
  <2>2. Alone /\ \A g \in Requests : ReadOK(g)
    BY <1>2, <2>1 DEF AloneInv
  <2>3. Alone'
    BY <2>1, <2>2 DEF Alone
  <2>4. ASSUME NEW g \in Requests PROVE ReadOK(g)'
    BY <2>1, <2>2 DEF ReadOK
  <2> QED BY <2>3, <2>4
<1> QED
  BY <1>1, <1>2

LEMMA AloneStep == TypeInv /\ AloneInv /\ [Next]_vars => AloneInv'
<1> SUFFICES ASSUME TypeInv, AloneInv, [Next]_vars PROVE AloneInv'
  OBVIOUS
<1>i. Idle.job = 0
  BY DEF Idle
<1>1. ASSUME NEW h \in Requests, Begin(h) PROVE AloneInv'
  <2>1. PICK op, place, job, read : AcceptsAs(h, op, place, job, read)
    BY <1>1, BeginAccepts
  <2>2. /\ req'[h].op = op /\ req'[h].read = read /\ req'[h].job = job /\ rows' = rows
        /\ \A g \in Requests : g # h => req'[g] = req[g]
    BY <2>1, AcceptedRequest
  <2>3. /\ spoiled' = IF Overlaps(h, job) THEN spoiled \cup {"overlap"} ELSE spoiled
        /\ tainted' = (tainted \/ Overlaps(h, job))
    BY <2>1 DEF AcceptsAs, Accept
  <2>4. ~tainted' => spoiled' \subseteq {"spec"}
    BY <2>3 DEF AloneInv
  <2>5. ASSUME "overlap" \notin spoiled' PROVE Alone' /\ \A g \in Requests : ReadOK(g)'
    <3>1. ~Overlaps(h, job) /\ Alone /\ \A g \in Requests : ReadOK(g)
      BY <2>3, <2>5 DEF AloneInv
    <3>2. Alone'
      BY <2>2, <3>1 DEF Alone, Overlaps
    <3>3. ASSUME NEW g \in Requests, g # h PROVE ReadOK(g)'
      BY <2>2, <3>1, <3>3 DEF ReadOK
    <3>4. ReadOK(h)'
      <4>1. CASE op \in Inserts
        BY <2>1, <2>2, <4>1 DEF AcceptsAs, ReadOK
      <4>2. CASE op \notin Inserts
        BY <2>1, <2>2, <4>2 DEF AcceptsAs, ReadOK, Existing
      <4> QED BY <4>1, <4>2
    <3> QED BY <3>2, <3>3, <3>4
  <2> QED BY <2>4, <2>5 DEF AloneInv
<1>2. ASSUME NEW h \in Requests, StartJob(h) PROVE AloneInv'
  <2>1. \A g \in Requests :
           \/ req'[g].job = 0
           \/ /\ req'[g].job = req[g].job /\ req'[g].op = req[g].op
              /\ req'[g].read = req[g].read
    BY <1>2, <1>i, StartEffect
  <2>2. /\ rows' = rows /\ tainted' = tainted
        /\ spoiled' = spoiled \/ spoiled' = spoiled \cup {"spec"}
    BY <1>2, StartEffect
  <2>3. spoiled \subseteq spoiled' /\ (~tainted' => spoiled' \subseteq {"spec"})
    BY <2>2 DEF AloneInv
  <2> QED BY <2>1, <2>2, <2>3, AloneKept
<1>3. ASSUME NEW h \in Requests, StopJob(h) PROVE AloneInv'
  <2>1. \A g \in Requests :
           /\ req'[g].job = req[g].job /\ req'[g].op = req[g].op
           /\ req'[g].read = req[g].read
    BY <1>3, StopEffect
  <2>2. UNCHANGED <<rows, spoiled, tainted>>
    BY <1>3, StopEffect
  <2> QED BY <2>1, <2>2, AloneKept DEF AloneInv
<1>4. ASSUME NEW h \in Requests, WriteFails(h) PROVE AloneInv'
  <2>1. req'[h] = Idle /\ \A g \in Requests : g # h => req'[g] = req[g]
    BY <1>4, WriterEnds DEF WriteFails
  <2>2. rows' = rows /\ spoiled \subseteq spoiled' /\ tainted'
    BY <1>4 DEF WriteFails
  <2> QED BY <1>i, <2>1, <2>2, AloneKept
<1>5. ASSUME NEW h \in Requests, Write(h), Insert(h) PROVE AloneInv'
  <2>1. /\ req'[h] = Idle /\ \A g \in Requests : g # h => req'[g] = req[g]
        /\ \A r \in Rows : r # created + 1 => rows'[r] = rows[r]
        /\ UNCHANGED <<spoiled, tainted>>
    BY <1>5, InsertEffect
  <2>2. ASSUME NEW g \in Requests, req[g].job # 0
        PROVE  req[g].job \in Rows /\ req[g].job # created + 1
    <3>1. Busy(g) /\ req[g].op \notin Inserts
      BY <1>i, <2>2 DEF TypeInv, RequestOK
    <3>2. req[g].job \in 1..created
      BY <3>1 DEF TypeInv, RequestOK
    <3> QED BY <3>2, MaxRowsAssumption DEF Rows, TypeInv, TypeOK
  <2> QED BY <1>i, <2>1, <2>2, AloneKept DEF AloneInv
<1>6. ASSUME NEW h \in Requests, Write(h),
             WriteUpdate(h) \/ WriteStatus(h) \/ WriteDelete(h)
      PROVE  AloneInv'
  <2>1. /\ req'[h] = Idle /\ \A g \in Requests : g # h => req'[g] = req[g]
        /\ \A r \in Rows : r # req[h].job => rows'[r] = rows[r]
        /\ UNCHANGED <<spoiled, tainted>>
    BY <1>6, UpdateEffect
  <2>2. ASSUME "overlap" \notin spoiled, NEW g \in Requests, g # h, req[g].job # 0
        PROVE  rows'[req[g].job] = rows[req[g].job]
    <3>1. req[g].job # req[h].job
      BY <2>2 DEF AloneInv, Alone
    <3>2. req[g].job \in Rows
      BY <2>2, RequestFields, MaxRowsAssumption DEF Rows
    <3> QED BY <2>1, <3>1, <3>2
  <2> QED BY <1>i, <2>1, <2>2, AloneKept DEF AloneInv
<1>7. CASE Crash
  <2>1. (\A g \in Requests : req'[g].job = 0) /\ spoiled' = {} 
    BY <1>7, <1>i DEF Crash
  <2> QED BY <2>1, AloneKept
<1>8. CASE StartRow \/ StartRowUnsaved \/ SkipRow
  <2>1. req' = req /\ ~Served
    BY <1>8 DEF StartRow, StartRowUnsaved, SkipRow
  <2>2. \A g \in Requests : req'[g].job = 0
    BY <2>1, BootIsAlone
  <2>3. ~tainted' => ~tainted /\ spoiled' \subseteq spoiled \cup {"spec"}
    BY <1>8 DEF StartRow, StartRowUnsaved, SkipRow
  <2> QED BY <2>2, <2>3, AloneKept DEF AloneInv
<1>9. CASE UNCHANGED vars
  BY <1>9, AloneKept DEF vars, AloneInv
<1> QED
  BY <1>1, <1>2, <1>3, <1>4, <1>5, <1>6, <1>7, <1>8, <1>9 DEF Next, Write

-----------------------------------------------------------------------------
(* The ids a request has got from the scheduler. *)

\* They are new, of no other request, and of entries of the request's own job.
IdsInv ==
    /\ \A h \in Requests : req[h].ids # {} => Started(h)
    /\ \A h \in Requests : \A i \in req[h].ids :
          i <= lastId /\ \A e \in entries : e.id = i => e.job = req[h].job
    /\ \A h, g \in Requests : h # g => req[h].ids \cap req[g].ids = {}

LEMMA IdsInit == Init => IdsInv
BY DEF Init, IdsInv, Idle

\* Steps that give out no ids and move no entry to another job.
LEMMA NoIdsGiven ==
    ASSUME IdsInv, lastId' = lastId,
           \A h \in Requests :
              \/ req'[h].ids = {}
              \/ /\ req'[h].ids = req[h].ids /\ req'[h].pc = req[h].pc
                 /\ req'[h].op = req[h].op /\ req'[h].read = req[h].read
                 /\ req'[h].job = req[h].job,
           entries' \subseteq entries
    PROVE  IdsInv'
<1>1. \A h \in Requests : req'[h].ids # {} => Started(h)'
  BY DEF IdsInv, Started, AtWrite, Restarts
<1>2. ASSUME NEW h \in Requests, NEW i \in req'[h].ids
      PROVE  i <= lastId' /\ \A e \in entries' : e.id = i => e.job = req'[h].job
  <2>1. i \in req[h].ids /\ req'[h].job = req[h].job
    BY <1>2
  <2> QED BY <2>1 DEF IdsInv
<1>3. ASSUME NEW h \in Requests, NEW g \in Requests, h # g
      PROVE  req'[h].ids \cap req'[g].ids = {}
  <2>1. req'[h].ids \subseteq req[h].ids /\ req'[g].ids \subseteq req[g].ids
    OBVIOUS
  <2> QED BY <1>3, <2>1 DEF IdsInv
<1> QED
  BY <1>1, <1>2, <1>3 DEF IdsInv

LEMMA IdsStep == TypeInv /\ IdsInv /\ [Next]_vars => IdsInv'
<1> SUFFICES ASSUME TypeInv, IdsInv, [Next]_vars PROVE IdsInv'
  OBVIOUS
<1>i. Idle.ids = {} /\ Idle.pc = "idle"
  BY DEF Idle
<1>1. ASSUME NEW h \in Requests, Begin(h) PROVE IdsInv'
  <2>1. PICK op, place, job, read : AcceptsAs(h, op, place, job, read)
    BY <1>1, BeginAccepts
  <2>2. /\ req'[h].ids = {} /\ \A g \in Requests : g # h => req'[g] = req[g]
        /\ UNCHANGED <<entries>>
    BY <2>1, AcceptedRequest
  <2>3. lastId' = lastId
    BY <2>1, AcceptedRequest
  <2> QED BY <2>2, <2>3, NoIdsGiven
<1>2. ASSUME NEW h \in Requests, StartJob(h) PROVE IdsInv'
  <2> DEFINE spec == req[h].read.spec
             j == req[h].job
  <2>1. /\ req[h].pc = "schedule" /\ Restarts(h) /\ spec \in Specs /\ j \in 0..MaxRows
        /\ entries' = Without(Replaced(h)) \cup Fresh(spec, j)
        /\ lastId' = lastId + spec.registers
        /\ \A g \in Requests : g # h => req'[g] = req[g]
        /\ \/ req'[h].ids = {}
           \/ /\ req'[h].pc = "write" /\ req'[h].op = req[h].op
              /\ req'[h].job = j /\ req'[h].read = req[h].read
              /\ req'[h].ids = NewIds(spec)
    BY <1>2, <1>i, StartEffect
  <2> HIDE DEF spec, j
  <2>2. /\ lastId \in Nat /\ lastId' \in Nat /\ lastId <= lastId'
        /\ \A i \in NewIds(spec) : i \in Nat /\ i <= lastId' /\ i > lastId
        /\ \A e \in Fresh(spec, j) : e.id \in NewIds(spec) /\ e.job = j
        /\ \A e \in entries : e.id \in Nat /\ e.id <= lastId
    <3>1. lastId \in Nat /\ spec.registers \in Nat
      BY <2>1, Records DEF TypeInv, TypeOK
    <3>2. /\ lastId' \in Nat /\ NewIds(spec) \subseteq Nat
          /\ \A i \in NewIds(spec) : i \in 1..lastId' /\ i > lastId
          /\ \A e \in Fresh(spec, j) : e.id \in NewIds(spec) /\ e.job = j
          /\ \A e \in entries : e.id \in 1..lastId
      BY <2>1, FreshEntries
    <3> QED BY <2>1, <3>1, <3>2
  <2>3. ASSUME NEW e \in entries' PROVE e \in entries \/ e \in Fresh(spec, j)
    BY <2>1 DEF Without
  <2>4. req[h].ids = {}
    BY <2>1 DEF IdsInv, Started, AtWrite
  <2>5. ASSUME NEW g \in Requests, g # h
        PROVE  /\ req'[g].ids # {} => Started(g)'
               /\ \A i \in req'[g].ids :
                     i <= lastId' /\ \A e \in entries' : e.id = i => e.job = req'[g].job
    <3>1. req'[g] = req[g]
      BY <2>1, <2>5
    <3>2. req'[g].ids # {} => Started(g)'
      BY <3>1 DEF IdsInv, Started, AtWrite, Restarts
    <3>3. ASSUME NEW i \in req[g].ids
          PROVE  i <= lastId' /\ \A e \in entries' : e.id = i => e.job = req[g].job
      <4>1. i \in Nat /\ i <= lastId
        BY RequestFields DEF IdsInv
      <4> QED BY <2>2, <2>3, <4>1 DEF IdsInv
    <3> QED BY <3>1, <3>2, <3>3
  <2>6. CASE req'[h].ids = {}
    BY <2>1, <2>5, <2>6 DEF IdsInv
  <2>7. CASE /\ req'[h].pc = "write" /\ req'[h].op = req[h].op
             /\ req'[h].job = j /\ req'[h].read = req[h].read
             /\ req'[h].ids = NewIds(spec)
    <3>1. Started(h)'
      BY <2>1, <2>7 DEF Started, AtWrite, Restarts
    <3>2. \A i \in req'[h].ids :
             i <= lastId' /\ \A e \in entries' : e.id = i => e.job = req'[h].job
      BY <2>2, <2>3, <2>7
    <3>3. \A g \in Requests : g # h => req'[g].ids \cap req'[h].ids = {}
      <4>1. ASSUME NEW g \in Requests, g # h, NEW i \in req[g].ids PROVE i \notin NewIds(spec)
        BY <2>2, <4>1 DEF IdsInv
      <4> QED BY <2>1, <2>7, <4>1
    <3> QED BY <2>1, <2>5, <3>1, <3>2, <3>3 DEF IdsInv
  <2> QED BY <2>1, <2>6, <2>7
<1>3. ASSUME NEW h \in Requests, StopJob(h) PROVE IdsInv'
  <2>1. /\ req[h].pc = "schedule" /\ req'[h].ids = req[h].ids /\ lastId' = lastId
        /\ \A g \in Requests : g # h => req'[g] = req[g]
        /\ entries' \subseteq entries
    BY <1>3, StopEffect DEF Without
  <2>2. req[h].ids = {}
    BY <2>1 DEF IdsInv, Started, AtWrite
  <2> QED BY <2>1, <2>2, NoIdsGiven
<1>4. ASSUME NEW h \in Requests, WriteFails(h) PROVE IdsInv'
  <2>1. req'[h] = Idle /\ \A g \in Requests : g # h => req'[g] = req[g]
    BY <1>4, WriterEnds DEF WriteFails
  <2> QED BY <1>4, <1>i, <2>1, NoIdsGiven DEF WriteFails
<1>5. ASSUME NEW h \in Requests, Write(h), Insert(h) PROVE IdsInv'
  <2> DEFINE n == created + 1
             Mine(e) == e.job = 0 /\ e.id \in req[h].ids
  <2>1. /\ req'[h] = Idle /\ \A g \in Requests : g # h => req'[g] = req[g]
        /\ lastId' = lastId
        /\ \A e \in entries' : \E d \in entries :
              e.id = d.id /\ (IF Mine(d) THEN e.job = n ELSE e = d)
    BY <1>5, InsertEffect
  <2> HIDE DEF n
  <2>2. ASSUME NEW g \in Requests, g # h
        PROVE  /\ req'[g].ids # {} => Started(g)'
               /\ \A i \in req'[g].ids :
                     i <= lastId' /\ \A e \in entries' : e.id = i => e.job = req'[g].job
    <3>1. req'[g] = req[g]
      BY <2>1, <2>2
    <3>2. req'[g].ids # {} => Started(g)'
      BY <3>1 DEF IdsInv, Started, AtWrite, Restarts
    <3>3. ASSUME NEW i \in req[g].ids, NEW e \in entries', e.id = i
          PROVE  e.job = req[g].job
      <4>1. PICK d \in entries : e.id = d.id /\ (IF Mine(d) THEN e.job = n ELSE e = d)
        BY <2>1
      <4>2. ~Mine(d)
        BY <2>2, <3>3, <4>1 DEF IdsInv
      <4> QED BY <3>3, <4>1, <4>2 DEF IdsInv
    <3> QED BY <2>1, <3>1, <3>2, <3>3 DEF IdsInv
  <2> QED BY <1>i, <2>1, <2>2 DEF IdsInv
<1>6. ASSUME NEW h \in Requests, Write(h),
             WriteUpdate(h) \/ WriteStatus(h) \/ WriteDelete(h)
      PROVE  IdsInv'
  <2>1. /\ req'[h] = Idle /\ \A g \in Requests : g # h => req'[g] = req[g]
        /\ UNCHANGED <<entries, lastId>>
    BY <1>6, UpdateEffect
  <2> QED BY <1>i, <2>1, NoIdsGiven
<1>7. CASE Crash
  BY <1>7, <1>i DEF Crash, IdsInv
<1>8. CASE StartRow \/ StartRowUnsaved \/ SkipRow
  <2>1. req' = req /\ ~Served
    BY <1>8 DEF StartRow, StartRowUnsaved, SkipRow
  <2>2. \A h \in Requests : req'[h].ids = {}
    BY <1>i, <2>1, BootIsAlone
  <2> QED BY <2>2 DEF IdsInv
<1>9. CASE UNCHANGED vars
  BY <1>9, NoIdsGiven DEF vars
<1> QED
  BY <1>1, <1>2, <1>3, <1>4, <1>5, <1>6, <1>7, <1>8, <1>9 DEF Next, Write

-----------------------------------------------------------------------------
(* No orphans. *)

\* A row that no request is about to write lists the entry.
Listed(e) ==
    /\ e.job \in Existing /\ rows[e.job].status = "Enable" /\ e.id \in rows[e.job].ids
    /\ \A h \in Requests : req[h].job = e.job => ~AtWrite(h)

\* Or a request has started it and will write that.
Held(e, h) == Started(h) /\ req[h].job = e.job /\ e.id \in req[h].ids

Owned(e) == Listed(e) \/ \E h \in Requests : Held(e, h)

OrphanInv == spoiled = {} => \A e \in entries : Owned(e) /\ (~Served => e.job < boot)

LEMMA OrphanInit == Init => OrphanInv
BY DEF Init, OrphanInv

LEMMA OrphanStep ==
    TypeInv /\ AloneInv /\ IdsInv /\ OrphanInv /\ [Next]_vars => OrphanInv'
<1> SUFFICES ASSUME TypeInv, AloneInv, IdsInv, OrphanInv, [Next]_vars, spoiled' = {},
                    NEW e \in entries'
             PROVE  Owned(e)' /\ (~Served' => e.job < boot')
  BY DEF OrphanInv
<1>i. Idle.job = 0 /\ Idle.pc = "idle"
  BY DEF Idle
<1>a. spoiled = {} => Alone /\ \A h \in Requests : ReadOK(h)
  BY DEF AloneInv
<1>z. 0 \notin Existing /\ Existing \subseteq Rows
  BY DEF Existing, Rows
<1>n. NoRow.status = "None"
  BY DEF NoRow
<1>1. ASSUME NEW h \in Requests, Begin(h)
      PROVE  Owned(e)' /\ (~Served' => e.job < boot')
  <2>1. PICK op, place, job, read : AcceptsAs(h, op, place, job, read)
    BY <1>1, BeginAccepts
  <2>2. /\ req[h] = Idle /\ req'[h].pc = place /\ req'[h].job = job
        /\ \A g \in Requests : g # h => req'[g] = req[g]
        /\ UNCHANGED <<boot, rows, entries>> /\ Served
    BY <2>1, AcceptedRequest
  <2>3. spoiled = {} /\ (place = "write" => job = 0)
    BY <2>1 DEF AcceptsAs, Accept, Inserts
  <2>4. ASSUME Listed(e) PROVE Owned(e)'
    BY <1>z, <2>2, <2>3, <2>4 DEF Owned, Listed, Existing, AtWrite
  <2>5. ASSUME NEW g \in Requests, Held(e, g) PROVE Owned(e)'
    <3>1. g # h
      BY <1>i, <2>2, <2>5 DEF Held, Started, AtWrite
    <3> QED BY <2>2, <2>5, <3>1 DEF Owned, Held, Started, AtWrite, Restarts
  <2> QED BY <2>2, <2>3, <2>4, <2>5 DEF OrphanInv, Owned, Served
<1>2. ASSUME NEW h \in Requests, StartJob(h)
      PROVE  Owned(e)' /\ (~Served' => e.job < boot')
  <2> DEFINE spec == req[h].read.spec
  <2>1. /\ req[h].pc = "schedule" /\ Served /\ Restarts(h) /\ spec \in Specs
        /\ req[h].job \in 0..MaxRows /\ UNCHANGED <<boot, rows>>
        /\ entries' = Without(Replaced(h)) \cup Fresh(spec, req[h].job)
        /\ lastId' = lastId + spec.registers
        /\ \A g \in Requests : g # h => req'[g] = req[g]
    BY <1>2, StartEffect
  <2>2. /\ req'[h].pc = "write" /\ req'[h].op = req[h].op
        /\ req'[h].job = req[h].job /\ req'[h].read = req[h].read
        /\ req'[h].ids = NewIds(spec) /\ spoiled = {}
    BY <1>2, StartEffect
  <2> HIDE DEF spec
  <2>3. CASE e \in Fresh(spec, req[h].job)
    <3>1. e.id \in NewIds(spec) /\ e.job = req[h].job
      BY <2>1, <2>3, FreshEntries
    <3>2. Held(e, h)'
      BY <2>1, <2>2, <3>1 DEF Held, Started, AtWrite, Restarts
    <3> QED BY <2>1, <3>2 DEF Owned, Served
  <2>4. CASE e \in Without(Replaced(h))
    <3>1. e \in entries /\ e.id \notin req[h].read.ids
      BY <2>4 DEF Without, Replaced
    <3>2. ASSUME Listed(e) PROVE Owned(e)'
      <4>1. req[h].job # e.job
        BY <1>a, <1>z, <2>2, <3>1, <3>2 DEF Listed, ReadOK
      <4> QED BY <2>1, <2>2, <3>2, <4>1 DEF Owned, Listed, Existing, AtWrite
    <3>3. ASSUME NEW g \in Requests, Held(e, g) PROVE Owned(e)'
      <4>1. g # h
        BY <2>1, <3>3 DEF Held, Started, AtWrite
      <4> QED BY <2>1, <3>3, <4>1 DEF Owned, Held, Started, AtWrite, Restarts
    <3> QED BY <2>1, <2>2, <3>1, <3>2, <3>3 DEF OrphanInv, Owned, Served
  <2> QED BY <2>1, <2>3, <2>4
<1>3. ASSUME NEW h \in Requests, StopJob(h)
      PROVE  Owned(e)' /\ (~Served' => e.job < boot')
  <2>1. /\ req[h].pc = "schedule" /\ Served /\ UNCHANGED <<boot, rows, spoiled>>
        /\ entries' = Without(req[h].read.ids) /\ req'[h].job = req[h].job
        /\ \A g \in Requests : g # h => req'[g] = req[g]
    BY <1>3, StopEffect
  <2>2. e \in entries /\ e.id \notin req[h].read.ids
    BY <2>1 DEF Without
  <2>3. ASSUME Listed(e) PROVE Owned(e)'
    <3>1. req[h].job # e.job
      BY <1>a, <1>z, <2>1, <2>2, <2>3 DEF Listed, ReadOK
    <3> QED BY <2>1, <2>3, <3>1 DEF Owned, Listed, Existing, AtWrite
  <2>4. ASSUME NEW g \in Requests, Held(e, g) PROVE Owned(e)'
    <3>1. g # h
      BY <2>1, <2>4 DEF Held, Started, AtWrite
    <3> QED BY <2>1, <2>4, <3>1 DEF Owned, Held, Started, AtWrite, Restarts
  <2> QED BY <2>1, <2>2, <2>3, <2>4 DEF OrphanInv, Owned, Served
<1>4. ASSUME NEW h \in Requests, WriteFails(h)
      PROVE  Owned(e)' /\ (~Served' => e.job < boot')
  BY <1>4 DEF WriteFails
<1>5. ASSUME NEW h \in Requests, Write(h), Insert(h)
      PROVE  Owned(e)' /\ (~Served' => e.job < boot')
  <2> DEFINE n == created + 1
             Mine(x) == x.job = 0 /\ x.id \in req[h].ids
  <2>1. /\ n \in Rows /\ rows[n] = NoRow /\ rows'[n] # NoRow
        /\ req'[h] = Idle /\ \A g \in Requests : g # h => req'[g] = req[g]
        /\ Served /\ UNCHANGED <<boot, spoiled>>
        /\ \A r \in Rows : r # n => rows'[r] = rows[r]
        /\ rows'[n].status = req[h].read.status /\ rows'[n].ids = req[h].ids
        /\ req[h].job = 0
    BY <1>5, InsertEffect
  <2>2. PICK d \in entries : e.id = d.id /\ (IF Mine(d) THEN e.job = n ELSE e = d)
    BY <1>5, InsertEffect
  <2>n. \A g \in Requests : req[g].job # n
    <3>1. SUFFICES ASSUME NEW g \in Requests, req[g].job = n PROVE FALSE
      OBVIOUS
    <3>2. n # 0 /\ created \in Nat
      BY <1>5, InsertEffect, MaxRowsAssumption DEF TypeInv, TypeOK
    <3>3. Busy(g) /\ req[g].op \notin Inserts
      BY <1>i, <3>1, <3>2 DEF TypeInv, RequestOK
    <3>4. req[g].job \in 1..created
      BY <3>3 DEF TypeInv, RequestOK
    <3> QED BY <3>1, <3>2, <3>4
  <2> HIDE DEF n
  <2>3. CASE Mine(d)
    <3>1. Started(h) /\ e.job = n /\ e.id \in req[h].ids
      BY <2>2, <2>3 DEF IdsInv
    <3>2. req[h].read.status = "Enable"
      <4>1. req[h].op \in Inserts
        BY <1>5, InsertEffect
      <4>2. req[h].op = "create"
        BY <3>1, <4>1 DEF Started, Restarts, Inserts
      <4> QED BY <4>2 DEF TypeInv, RequestOK
    <3>3. Listed(e)'
      BY <1>i, <2>1, <2>n, <3>1, <3>2 DEF Listed, Existing, AtWrite
    <3> QED BY <2>1, <3>3 DEF Owned, Served
  <2>4. CASE ~Mine(d)
    <3>1. e = d /\ Owned(e)
      BY <2>1, <2>2, <2>4 DEF OrphanInv
    <3>2. ASSUME Listed(e) PROVE Owned(e)'
      <4>1. e.job # n /\ e.job \in Rows
        BY <1>z, <2>1, <3>2 DEF Listed, Existing
      <4> QED BY <1>i, <2>1, <3>2, <4>1 DEF Owned, Listed, Existing, AtWrite
    <3>3. ASSUME NEW g \in Requests, Held(e, g) PROVE Owned(e)'
      <4>1. g # h
        BY <2>1, <2>4, <3>1, <3>3 DEF Held
      <4> QED BY <2>1, <3>3, <4>1 DEF Owned, Held, Started, AtWrite, Restarts
    <3> QED BY <2>1, <3>1, <3>2, <3>3 DEF Owned, Served
  <2> QED BY <2>3, <2>4
<1>6. ASSUME NEW h \in Requests, Write(h),
             WriteUpdate(h) \/ WriteStatus(h) \/ WriteDelete(h)
      PROVE  Owned(e)' /\ (~Served' => e.job < boot')
  <2> DEFINE j == req[h].job
  <2>1. /\ j \in Rows /\ j # 0 /\ req[h].pc = "write" /\ req[h].op \notin Inserts
        /\ req'[h] = Idle /\ \A g \in Requests : g # h => req'[g] = req[g]
        /\ UNCHANGED <<boot, entries, spoiled>>
        /\ \A r \in Rows : r # j => rows'[r] = rows[r]
    BY <1>6, UpdateEffect
  <2>2. /\ rows[j] # NoRow /\ req[h].op = "update" =>
              /\ rows'[j].ids = IdsAfterUpdate(h)
              /\ rows'[j].status = IF req[h].read.status = "Pending"
                                   THEN "Enable" ELSE rows[j].status
        /\ rows[j] # NoRow /\ req[h].op \in {"enable", "disable"} =>
              /\ rows'[j].ids = req[h].ids
              /\ rows'[j].status = IF req[h].op = "enable" THEN "Enable" ELSE "Disable"
    BY <1>6, UpdateEffect
  <2>3. Served /\ Owned(e) /\ Alone /\ ReadOK(h)
    <3>1. Served
      BY <2>1 DEF TypeInv, RequestOK, Busy
    <3> QED BY <1>a, <2>1, <3>1 DEF OrphanInv
  <2>4. ASSUME Listed(e) PROVE Owned(e)'
    <3>1. e.job # j /\ e.job \in Rows
      BY <1>z, <2>1, <2>4 DEF Listed, AtWrite
    <3> QED BY <1>i, <2>1, <2>4, <3>1 DEF Owned, Listed, Existing, AtWrite
  <2>5. ASSUME Held(e, h) PROVE Owned(e)'
    <3>1. e.job = j /\ e.id \in req[h].ids /\ Restarts(h)
      BY <2>5 DEF Held, Started
    <3>2. rows[j] # NoRow /\ req[h].read.status = rows[j].status
      BY <2>1, <2>3 DEF ReadOK
    <3>3. req[h].op = "enable" \/ (req[h].op = "update" /\ req[h].read.status = "Enable")
      BY <2>1, <3>1 DEF Restarts, Inserts
    <3>4. rows'[j].status = "Enable" /\ rows'[j].ids = req[h].ids
      BY <2>2, <3>2, <3>3 DEF IdsAfterUpdate
    <3>5. j \in Existing'
      BY <1>n, <2>1, <3>4 DEF Existing
    <3>6. \A g \in Requests : req'[g].job = j => req'[g].pc # "write"
      BY <1>i, <2>1, <2>3 DEF Alone
    <3>7. Listed(e)'
      BY <3>1, <3>4, <3>5, <3>6 DEF Listed, AtWrite
    <3> QED BY <3>7 DEF Owned
  <2>6. ASSUME NEW g \in Requests, Held(e, g), g # h PROVE Owned(e)'
    BY <2>1, <2>6 DEF Owned, Held, Started, AtWrite, Restarts
  <2> QED BY <2>1, <2>3, <2>4, <2>5, <2>6 DEF Owned, Served
<1>7. CASE Crash
  BY <1>7 DEF Crash
<1>8. CASE StartRow \/ SkipRow \/ StartRowUnsaved
  <2>1. /\ req' = req /\ ~Served /\ boot' = boot + 1 /\ boot \in Nat
        /\ spoiled = {} /\ ~StartRowUnsaved
    BY <1>8 DEF StartRow, SkipRow, StartRowUnsaved, TypeInv, TypeOK
  <2>2. \A h \in Requests : ~AtWrite(h) /\ ~AtWrite(h)' /\ ~Started(h)
    BY <2>1, BootIsAlone DEF AtWrite, Started
  <2>3. ASSUME e \in entries PROVE Owned(e)' /\ e.job < boot'
    <3>1. Listed(e) /\ e.job < boot
      BY <2>1, <2>2, <2>3 DEF OrphanInv, Owned, Held
    <3>2. e.job \in Nat /\ e.job < boot' /\ e.job # boot
      <4>1. e.job \in Existing
        BY <3>1 DEF Listed
      <4>2. e.job \in 1..MaxRows
        BY <1>z, <4>1 DEF Rows
      <4>3. e.job \in Nat
        BY <4>2, MaxRowsAssumption
      <4> QED BY <2>1, <3>1, <4>3
    <3>3. rows'[e.job] = rows[e.job]
      BY <1>8, <1>z, <3>1, <3>2 DEF StartRow, SkipRow, StartRowUnsaved, TypeInv, Listed
    <3>4. Listed(e)'
      BY <2>2, <3>1, <3>3 DEF Listed, Existing
    <3> QED BY <3>2, <3>4 DEF Owned
  <2>4. ASSUME e \notin entries PROVE Owned(e)' /\ e.job < boot'
    <3>1. StartRow
      BY <1>8, <2>1, <2>4 DEF SkipRow
    <3> DEFINE spec == rows[boot].spec
    <3>2. /\ rows[boot].status = "Enable" /\ e \in Fresh(spec, boot)
          /\ lastId' = lastId + spec.registers
          /\ rows' = [rows EXCEPT ![boot].ids = StartedIds(boot)]
      BY <2>4, <3>1 DEF StartRow, Fresh
    <3>3. /\ boot \in Existing /\ boot \in Rows /\ boot \in 0..MaxRows
          /\ rows[boot] \in RowRecords /\ spec \in Specs
      BY <2>1, <3>2, BootRow, RowFields
    <3>4. StartedIds(boot) = NewIds(spec)
      BY <3>1 DEF StartRow, StartedIds
    <3> HIDE DEF spec
    <3>5. e.id \in NewIds(spec) /\ e.job = boot
      BY <3>2, <3>3, FreshEntries
    <3>6. rows'[boot].ids = NewIds(spec) /\ rows'[boot].status = "Enable"
      BY <3>2, <3>3, <3>4 DEF TypeInv, RowRecords
    <3>7. boot \in Existing'
      BY <1>n, <3>3, <3>6 DEF Existing
    <3>8. Listed(e)'
      BY <2>2, <3>5, <3>6, <3>7 DEF Listed
    <3> QED BY <2>1, <3>5, <3>8 DEF Owned
  <2> QED BY <2>3, <2>4
<1>9. CASE UNCHANGED vars
  BY <1>9 DEF vars, OrphanInv, Owned, Listed, Held, Started, AtWrite, Restarts, Existing, Served
<1> QED
  BY <1>1, <1>2, <1>3, <1>4, <1>5, <1>6, <1>7, <1>8, <1>9 DEF Next, Write

-----------------------------------------------------------------------------
(* No request removes the entries of others. *)

\* The scheduler gave the ids of a row to no other job.
OwnIds(r) ==
    \A i \in rows[r].ids : i <= lastId /\ \A e \in entries : e.id = i => e.job = r

\* So it is with every row cron.Run has passed, and the other rows that are not
\* enabled hold no ids, unless an overlap or a failed write ever left stale ones.
OwnInv == ~tainted =>
    /\ \A r \in Existing : rows[r].status # "Enable" => rows[r].ids = {}
    /\ \A r \in Existing : r < boot => OwnIds(r)

LEMMA OwnInit == Init => OwnInv
BY DEF Init, OwnInv, Existing

\* New entries have new ids; the others keep their job, or had none before.
LEMMA OwnIdsKept ==
    ASSUME TypeInv, NEW r \in Existing, OwnIds(r), rows'[r].ids = rows[r].ids,
           lastId <= lastId', lastId' \in Nat,
           \A e \in entries' :
              e.id > lastId \/ \E d \in entries : d.id = e.id /\ (d.job = 0 \/ d.job = e.job)
    PROVE  OwnIds(r)'
<1>1. r # 0 /\ rows[r].ids \subseteq Nat /\ lastId \in Nat
  BY RowFields DEF Rows, TypeInv, TypeOK
<1>2. ASSUME NEW i \in rows'[r].ids
      PROVE  i <= lastId' /\ \A e \in entries' : e.id = i => e.job = r
  <2>1. i \in Nat /\ i <= lastId /\ \A d \in entries : d.id = i => d.job = r
    BY <1>1 DEF OwnIds
  <2> QED BY <1>1, <2>1
<1> QED
  BY <1>2 DEF OwnIds

\* Steps by which the rows stay as they are.
LEMMA OwnRowsKept ==
    ASSUME TypeInv, OwnInv, ~tainted' => ~tainted, boot' = boot, rows' = rows,
           lastId <= lastId', lastId' \in Nat,
           \A e \in entries' :
              e.id > lastId \/ \E d \in entries : d.id = e.id /\ (d.job = 0 \/ d.job = e.job)
    PROVE  OwnInv'
<1> SUFFICES ASSUME ~tainted'
             PROVE  /\ \A r \in Existing' : rows'[r].status # "Enable" => rows'[r].ids = {}
                    /\ \A r \in Existing' : r < boot' => OwnIds(r)'
  BY DEF OwnInv
<1>1. Existing' = Existing
  BY DEF Existing
<1>2. ASSUME NEW r \in Existing, r < boot PROVE OwnIds(r)'
  BY <1>2, OwnIdsKept DEF OwnInv
<1> QED
  BY <1>1, <1>2 DEF OwnInv

LEMMA OwnStep == TypeInv /\ AloneInv /\ IdsInv /\ OwnInv /\ [Next]_vars => OwnInv'
<1> SUFFICES ASSUME TypeInv, AloneInv, IdsInv, OwnInv, [Next]_vars PROVE OwnInv'
  OBVIOUS
<1>t. lastId \in Nat /\ lastId <= lastId
  BY DEF TypeInv, TypeOK
<1>a. ~tainted => Alone /\ \A h \in Requests : ReadOK(h)
  BY DEF AloneInv
<1>1. ASSUME NEW h \in Requests, Begin(h) PROVE OwnInv'
  <2>1. PICK op, place, job, read : AcceptsAs(h, op, place, job, read)
    BY <1>1, BeginAccepts
  <2>2. UNCHANGED <<boot, rows, entries, lastId>>
    BY <2>1, AcceptedRequest
  <2>3. ~tainted' => ~tainted
    BY <2>1 DEF AcceptsAs, Accept
  <2> QED BY <1>t, <2>2, <2>3, OwnRowsKept
<1>2. ASSUME NEW h \in Requests, StartJob(h) PROVE OwnInv'
  <2> DEFINE spec == req[h].read.spec
             j == req[h].job
  <2>1. /\ spec \in Specs /\ j \in 0..MaxRows /\ UNCHANGED <<boot, rows, tainted>>
        /\ entries' = Without(Replaced(h)) \cup Fresh(spec, j)
        /\ lastId' = lastId + spec.registers
    BY <1>2, StartEffect
  <2> HIDE DEF spec, j
  <2>2. lastId' \in Nat /\ lastId <= lastId'
    BY <1>t, <2>1, Records
  <2>3. \A e \in Fresh(spec, j) : e.id > lastId
    BY <2>1, FreshEntries
  <2> QED BY <2>1, <2>2, <2>3, OwnRowsKept DEF Without
<1>3. ASSUME NEW h \in Requests, StopJob(h) PROVE OwnInv'
  <2>1. entries' \subseteq entries /\ UNCHANGED <<boot, rows, tainted, lastId>>
    BY <1>3, StopEffect DEF Without
  <2> QED BY <1>t, <2>1, OwnRowsKept
<1>4. ASSUME NEW h \in Requests, WriteFails(h) PROVE OwnInv'
  BY <1>4 DEF WriteFails, OwnInv
<1>5. ASSUME NEW h \in Requests, Write(h), Insert(h) PROVE OwnInv'
  <2> DEFINE n == created + 1
             Mine(e) == e.job = 0 /\ e.id \in req[h].ids
  <2>1. /\ n \in Rows /\ req[h].job = 0 /\ req[h].op \in Inserts
        /\ UNCHANGED <<boot, lastId, tainted>>
        /\ \A r \in Rows : r # n => rows'[r] = rows[r]
        /\ rows'[n].status = req[h].read.status /\ rows'[n].ids = req[h].ids
        /\ \A e \in entries' : \E d \in entries :
              e.id = d.id /\ (IF Mine(d) THEN e.job = n ELSE e = d)
    BY <1>5, InsertEffect
  <2> HIDE DEF n
  <2>2. rows'[n].status # "Enable" => rows'[n].ids = {}
    <3>1. req[h].op = "import" => req[h].ids = {}
      BY DEF IdsInv, Started, Restarts
    <3>2. req[h].op = "create" => req[h].read.status = "Enable"
      BY DEF TypeInv, RequestOK
    <3> QED BY <2>1, <3>1, <3>2 DEF Inserts
  <2>3. ASSUME NEW r \in Rows, r = n PROVE OwnIds(r)'
    <3>1. ASSUME NEW i \in req[h].ids
          PROVE  i <= lastId /\ \A e \in entries' : e.id = i => e.job = n
      BY <2>1 DEF IdsInv
    <3> QED BY <2>1, <2>3, <3>1 DEF OwnIds
  <2>4. ASSUME ~tainted, NEW r \in Existing, r # n, r < boot PROVE OwnIds(r)'
    <3>1. OwnIds(r) /\ rows'[r] = rows[r]
      BY <2>1, <2>4 DEF OwnInv, Existing
    <3> QED BY <1>t, <2>1, <3>1, OwnIdsKept
  <2>5. \A r \in Existing' : r = n \/ (r \in Existing /\ rows'[r] = rows[r])
    BY <2>1 DEF Existing
  <2>6. ASSUME ~tainted
        PROVE  /\ \A r \in Existing' : rows'[r].status # "Enable" => rows'[r].ids = {}
               /\ \A r \in Existing' : r < boot => OwnIds(r)'
    <3>1. \A r \in Existing' : rows'[r].status # "Enable" => rows'[r].ids = {}
      BY <2>2, <2>5, <2>6 DEF OwnInv
    <3>2. ASSUME NEW r \in Existing', r < boot PROVE OwnIds(r)'
      <4>1. CASE r = n
        BY <2>1, <2>3, <4>1
      <4>2. CASE r # n
        BY <2>4, <2>5, <2>6, <3>2, <4>2
      <4> QED BY <4>1, <4>2
    <3> QED BY <3>1, <3>2
  <2> QED BY <2>1, <2>6 DEF OwnInv
<1>6. ASSUME NEW h \in Requests, Write(h),
             WriteUpdate(h) \/ WriteStatus(h) \/ WriteDelete(h)
      PROVE  OwnInv'
  <2> DEFINE j == req[h].job
  <2>1. /\ j \in Rows /\ j # 0 /\ req[h].op \notin Inserts
        /\ UNCHANGED <<boot, entries, tainted, lastId>>
        /\ \A r \in Rows : r # j => rows'[r] = rows[r]
        /\ req[h].pc = "write" /\ req[h].op \in Ops
    BY <1>6, UpdateEffect, RequestFields
  <2>2. /\ rows[j] # NoRow /\ req[h].op = "update" =>
              /\ rows'[j].ids = IdsAfterUpdate(h)
              /\ rows'[j].status = IF req[h].read.status = "Pending"
                                   THEN "Enable" ELSE rows[j].status
        /\ rows[j] # NoRow /\ req[h].op \in {"enable", "disable"} =>
              /\ rows'[j].ids = req[h].ids
              /\ rows'[j].status = IF req[h].op = "enable" THEN "Enable" ELSE "Disable"
        /\ rows[j] # NoRow /\ req[h].op = "delete" => rows'[j] = NoRow
        /\ rows[j] = NoRow => rows'[j] = NoRow
    BY <1>6, UpdateEffect
  <2>3. ASSUME ~tainted, rows'[j] # NoRow
        PROVE  /\ rows'[j].status # "Enable" => rows'[j].ids = {}
               /\ \A r \in Rows : r = j => OwnIds(r)'
    <3>1. /\ rows[j] # NoRow /\ j \in Existing /\ ReadOK(h) /\ Served
          /\ req[h].op \in {"update", "enable", "disable"}
      <4>1. Served /\ req[h].op # "none"
        BY <2>1 DEF TypeInv, RequestOK, Busy
      <4> QED BY <1>a, <2>1, <2>2, <2>3, <4>1 DEF Existing, Ops, Inserts
    <3>2. req[h].read.status = rows[j].status
      BY <2>1, <3>1 DEF ReadOK
    <3>3. j < boot
      BY <2>1, <3>1, MaxRowsAssumption DEF Served, Rows
    <3>4. OwnIds(j) /\ (rows[j].status # "Enable" => rows[j].ids = {})
      BY <2>3, <3>1, <3>3 DEF OwnInv
    <3>5. \A i \in req[h].ids :
             i <= lastId /\ \A e \in entries : e.id = i => e.job = j
      BY DEF IdsInv
    <3>6. req[h].op = "disable" => req[h].ids = {}
      BY DEF IdsInv, Started, Restarts
    <3>7. rows'[j].ids = req[h].ids \/ rows'[j].ids = rows[j].ids
      BY <2>2, <3>1 DEF IdsAfterUpdate
    <3>8. rows'[j].status # "Enable" => rows'[j].ids = {}
      BY <2>2, <3>1, <3>2, <3>4, <3>6 DEF IdsAfterUpdate
    <3>9. ASSUME NEW r \in Rows, r = j PROVE OwnIds(r)'
      <4>1. \A i \in rows'[j].ids :
               i <= lastId /\ \A e \in entries : e.id = i => e.job = j
        BY <3>4, <3>5, <3>7 DEF OwnIds
      <4> HIDE DEF j
      <4> QED BY <2>1, <3>9, <4>1 DEF OwnIds
    <3> QED BY <3>8, <3>9
  <2> HIDE DEF j
  <2>4. ASSUME ~tainted, NEW r \in Existing, r # j, r < boot PROVE OwnIds(r)'
    <3>1. OwnIds(r) /\ rows'[r] = rows[r]
      BY <2>1, <2>4 DEF OwnInv, Existing
    <3> QED BY <1>t, <2>1, <3>1, OwnIdsKept
  <2>5. \A r \in Existing' :
           rows'[r] # NoRow /\ (r # j => r \in Existing /\ rows'[r] = rows[r])
    BY <2>1 DEF Existing
  <2>6. ASSUME ~tainted, NEW r \in Existing'
        PROVE  /\ rows'[r].status # "Enable" => rows'[r].ids = {}
               /\ r < boot => OwnIds(r)'
    <3>1. CASE r = j
      BY <2>1, <2>3, <2>5, <2>6, <3>1
    <3>2. CASE r # j
      BY <2>4, <2>5, <2>6, <3>2 DEF OwnInv
    <3> QED BY <3>1, <3>2
  <2> QED BY <2>1, <2>6 DEF OwnInv
<1>7. CASE Crash
  <2>1. boot' = 1 /\ rows' = rows /\ tainted' = tainted /\ Existing' = Existing
    BY <1>7 DEF Crash, Existing
  <2>2. \A r \in Existing' : ~(r < boot')
    BY <2>1, MaxRowsAssumption DEF Existing, Rows
  <2> QED BY <2>1, <2>2 DEF OwnInv
<1>8. CASE StartRow
  <2> DEFINE spec == rows[boot].spec
  <2>1. /\ boot \in Existing /\ boot \in 0..MaxRows /\ rows[boot] \in RowRecords
        /\ spec \in Specs /\ rows[boot].status = "Enable"
    BY <1>8, BootRow, RowFields DEF StartRow
  <2>2. /\ entries' = entries \cup Fresh(spec, boot) /\ lastId' = lastId + spec.registers
        /\ rows' = [rows EXCEPT ![boot].ids = StartedIds(boot)]
        /\ boot' = boot + 1 /\ tainted' = tainted /\ StartedIds(boot) \subseteq NewIds(spec)
    BY <1>8 DEF StartRow, Fresh, StartedIds
  <2>3. /\ rows'[boot].ids \subseteq NewIds(spec) /\ rows'[boot].status = "Enable"
        /\ \A r \in Existing' :
              r \in Existing /\ (r # boot => rows'[r] = rows[r])
    BY <2>1, <2>2 DEF Existing, TypeInv, RowRecords
  <2> HIDE DEF spec
  <2>4. lastId' \in Nat /\ lastId <= lastId'
    BY <1>t, <2>1, <2>2, Records
  <2>5. /\ \A i \in NewIds(spec) : i <= lastId' /\ i > lastId
        /\ \A e \in Fresh(spec, boot) : e.id > lastId /\ e.job = boot
        /\ \A e \in entries : e.id \in Nat /\ e.id <= lastId
    <3>1. /\ \A i \in NewIds(spec) : i \in 1..lastId' /\ i > lastId
          /\ \A e \in Fresh(spec, boot) : e.id \in NewIds(spec) /\ e.job = boot
          /\ \A e \in entries : e.id \in 1..lastId
      BY <2>1, <2>2, FreshEntries
    <3> QED BY <1>t, <2>4, <3>1
  <2>6. ASSUME NEW r \in Rows, r = boot PROVE OwnIds(r)'
    <3>1. ASSUME NEW i \in rows'[boot].ids, NEW e \in entries', e.id = i PROVE e.job = boot
      BY <1>t, <2>2, <2>3, <2>5, <3>1
    <3>2. \A i \in rows'[boot].ids : i <= lastId'
      BY <2>3, <2>5
    <3> QED BY <2>6, <3>1, <3>2 DEF OwnIds
  <2>7. ASSUME ~tainted, NEW r \in Existing, r # boot, r < boot PROVE OwnIds(r)'
    <3>1. OwnIds(r) /\ rows'[r] = rows[r]
      BY <2>2, <2>7 DEF OwnInv, Existing
    <3>2. \A e \in entries' : e.id > lastId \/ e \in entries
      BY <2>2, <2>5
    <3> QED BY <2>4, <3>1, <3>2, OwnIdsKept
  <2>8. \A r \in Existing' : r < boot' => r = boot \/ r < boot
    BY <2>1, <2>2, MaxRowsAssumption DEF Existing, Rows
  <2>9. ASSUME ~tainted, NEW r \in Existing'
        PROVE  /\ rows'[r].status # "Enable" => rows'[r].ids = {}
               /\ r < boot' => OwnIds(r)'
    <3>1. CASE r = boot
      <4>1. r \in Rows
        BY DEF Existing
      <4> QED BY <2>3, <2>6, <3>1, <4>1
    <3>2. CASE r # boot
      BY <2>3, <2>7, <2>8, <2>9, <3>2 DEF OwnInv
    <3> QED BY <3>1, <3>2
  <2> QED BY <2>2, <2>9 DEF OwnInv
<1>9. CASE SkipRow
  <2>1. /\ rows[boot].status # "Enable" /\ boot' = boot + 1 /\ Existing' = Existing
        /\ UNCHANGED <<rows, entries, lastId, tainted>>
    BY <1>9 DEF SkipRow, Existing
  <2>2. \A r \in Existing : r < boot' => r = boot \/ r < boot
    BY <2>1, MaxRowsAssumption DEF Existing, Rows, TypeInv, TypeOK
  <2>3. ASSUME ~tainted, NEW r \in Existing, r < boot' PROVE OwnIds(r)'
    <3>1. OwnIds(r)
      BY <2>1, <2>2, <2>3 DEF OwnInv, OwnIds
    <3> QED BY <2>1, <3>1 DEF OwnIds
  <2> QED BY <2>1, <2>3 DEF OwnInv
<1>10. CASE StartRowUnsaved
  BY <1>10 DEF StartRowUnsaved, OwnInv
<1>11. CASE UNCHANGED vars
  BY <1>t, <1>11, OwnRowsKept DEF vars
<1> QED
  BY <1>1, <1>2, <1>3, <1>4, <1>5, <1>6, <1>7, <1>8, <1>9, <1>10, <1>11 DEF Next, Write

\* What StartJob and StopJob remove has the ids the request read in its row.
LEMMA RemovedIsOwn ==
    ASSUME TypeInv, AloneInv, OwnInv, ~tainted, NEW h \in Requests, Busy(h),
           NEW e \in entries, e.id \in req[h].read.ids
    PROVE  req[h].job = e.job
<1> DEFINE j == req[h].job
<1>1. RequestOK(h) /\ ReadOK(h)
  BY DEF TypeInv, AloneInv
<1>2. req[h].op \notin Inserts
  BY <1>1 DEF RequestOK
<1>3. j \in 1..created /\ Served
  BY <1>1, <1>2 DEF RequestOK
<1>4. j \in Rows /\ j # 0 /\ j < boot
  BY <1>3, MaxRowsAssumption DEF Rows, Served, TypeInv, TypeOK
<1>5. j \in Existing /\ e.id \in rows[j].ids
  BY <1>1, <1>4 DEF ReadOK, Existing
<1> HIDE DEF j
<1>6. e.job = j
  BY <1>4, <1>5 DEF OwnInv, OwnIds
<1> QED
  BY <1>6 DEF j

-----------------------------------------------------------------------------
(* Enabled rows are scheduled. *)

\* A request that has started a job holds as many ids as its spec has parts, and
\* the scheduler their entries.
Ready(h) ==
    /\ Cardinality(req[h].ids) = req[h].read.spec.parts
    /\ \A i \in req[h].ids : Entry(i, req[h].job) \in entries

\* So does a row that is not about to be written.
Scheduled(r) ==
    /\ Cardinality(rows[r].ids) = rows[r].spec.parts
    /\ \A i \in rows[r].ids : Entry(i, r) \in entries

Settled(r) ==
    /\ r < boot /\ rows[r].status = "Enable"
    /\ \A h \in Requests : req[h].job = r => ~AtWrite(h)

BackedInv == spoiled = {} /\ ~tainted =>
    /\ \A h \in Requests : Started(h) => Ready(h)
    /\ \A r \in Existing \ edited : Settled(r) => Scheduled(r)

LEMMA BackedInit == Init => BackedInv
BY DEF Init, BackedInv, Existing, Started, AtWrite, Idle

\* The parts of a spec the parser accepts get an id each.
LEMMA NewIdsOfValid ==
    ASSUME TypeInv, NEW spec \in Specs, Valid(spec)
    PROVE  Cardinality(NewIds(spec)) = spec.parts
<1>1. lastId \in Nat /\ spec.registers \in Nat /\ spec.registers = spec.parts
      /\ spec.registers > 0
  BY DEF TypeInv, TypeOK, Specs, Valid
<1> DEFINE a == lastId + 1
           b == lastId + spec.registers
<1>2. a \in Int /\ b \in Int /\ ~(a > b) /\ b - a + 1 = spec.registers
  BY <1>1
<1>3. NewIds(spec) = a .. b
  BY DEF NewIds
<1> HIDE DEF a, b
<1>4. Cardinality(a .. b) = IF a > b THEN 0 ELSE b - a + 1
  BY <1>2, FS_Interval
<1> QED
  BY <1>1, <1>2, <1>3, <1>4

LEMMA BackedStep ==
    TypeInv /\ AloneInv /\ IdsInv /\ OwnInv /\ BackedInv /\ [Next]_vars => BackedInv'
<1> SUFFICES ASSUME TypeInv, AloneInv, IdsInv, OwnInv, BackedInv, [Next]_vars,
                    spoiled' = {}, ~tainted'
             PROVE  /\ \A g \in Requests : Started(g)' => Ready(g)'
                    /\ \A r \in (Existing \ edited)' : Settled(r)' => Scheduled(r)'
  BY DEF BackedInv
<1> DEFINE Goal == /\ \A g \in Requests : Started(g)' => Ready(g)'
                   /\ \A r \in (Existing \ edited)' : Settled(r)' => Scheduled(r)'
<1>i. Idle.job = 0 /\ Idle.pc = "idle" /\ Idle.op = "none" /\ NoRow.status = "None"
  BY DEF Idle, NoRow
<1>a. ~tainted => Alone /\ \A h \in Requests : ReadOK(h)
  BY DEF AloneInv
<1>z. 0 \notin Existing /\ Existing \subseteq Rows
  BY DEF Existing, Rows
<1>e. \A i, j : Entry(i, j).id = i /\ Entry(i, j).job = j
  BY DEF Entry
<1>1. ASSUME NEW h \in Requests, Begin(h) PROVE Goal
  <2>1. PICK op, place, job, read : AcceptsAs(h, op, place, job, read)
    BY <1>1, BeginAccepts
  <2>2. /\ req[h] = Idle /\ req'[h].op = op /\ req'[h].pc = place /\ req'[h].read = read
        /\ \A g \in Requests : g # h => req'[g] = req[g]
        /\ UNCHANGED <<boot, rows, entries, edited>> /\ Existing' = Existing
    BY <2>1, AcceptedRequest DEF Existing
  <2>3. spoiled = {} /\ ~tainted /\ (place = "write" => op = "import")
    BY <2>1 DEF AcceptsAs, Accept, Inserts
  <2>4. ~Started(h)'
    BY <2>2, <2>3 DEF Started, AtWrite, Restarts
  <2>5. ASSUME NEW g \in Requests, g # h, Started(g)' PROVE Ready(g)'
    <3>1. req'[g] = req[g] /\ Started(g)
      BY <2>2, <2>5 DEF Started, AtWrite, Restarts
    <3>2. Ready(g)
      BY <2>3, <3>1 DEF BackedInv
    <3> QED BY <2>2, <3>1, <3>2 DEF Ready
  <2>6. ASSUME NEW r \in Existing \ edited, Settled(r)' PROVE Scheduled(r)'
    <3>1. Settled(r)
      BY <1>i, <2>2, <2>6 DEF Settled, AtWrite
    <3>2. Scheduled(r)
      BY <2>3, <3>1 DEF BackedInv
    <3> QED BY <2>2, <3>2 DEF Scheduled
  <2> QED BY <2>2, <2>4, <2>5, <2>6
<1>2. ASSUME NEW h \in Requests, StartJob(h) \/ StopJob(h) PROVE Goal
  <2> DEFINE spec == req[h].read.spec
  <2>1. /\ Busy(h) /\ req[h].pc = "schedule" /\ UNCHANGED <<boot, rows, edited>>
        /\ Existing' = Existing
        /\ req'[h].pc = "write" /\ req'[h].op = req[h].op
        /\ req'[h].job = req[h].job /\ req'[h].read = req[h].read
        /\ \A g \in Requests : g # h => req'[g] = req[g]
        /\ Without(req[h].read.ids) \subseteq entries'
        /\ spoiled = {} /\ ~tainted
    BY <1>2, StartEffect, StopEffect DEF Replaced, Existing
  <2>2. Started(h)' => StartJob(h)
    BY <1>2, <2>1, StopEffect DEF Started, Restarts
  <2>3. ASSUME StartJob(h) PROVE Ready(h)'
    <3>1. /\ spec \in Specs /\ Valid(spec) /\ req'[h].ids = NewIds(spec)
          /\ Fresh(spec, req[h].job) \subseteq entries'
      BY <2>1, <2>3, StartEffect
    <3>2. \A i \in NewIds(spec) : Entry(i, req[h].job) \in Fresh(spec, req[h].job)
      BY DEF Fresh, Entry
    <3>3. Cardinality(req'[h].ids) = spec.parts
      BY <3>1, NewIdsOfValid
    <3> QED BY <2>1, <3>1, <3>2, <3>3 DEF Ready
  <2>4. ASSUME NEW e \in entries, e.job # req[h].job PROVE e \in entries'
    BY <2>1, <2>4, RemovedIsOwn DEF Without
  <2>5. ASSUME NEW g \in Requests, g # h, Started(g)' PROVE Ready(g)'
    <3>1. req'[g] = req[g] /\ Started(g)
      BY <2>1, <2>5 DEF Started, AtWrite, Restarts
    <3>2. Ready(g)
      BY <2>1, <3>1 DEF BackedInv
    <3>3. ASSUME NEW i \in req[g].ids PROVE Entry(i, req[g].job) \in entries'
      <4>1. Entry(i, req[g].job) \in entries
        BY <3>2 DEF Ready
      <4>2. CASE req[g].job # req[h].job
        BY <1>e, <2>4, <4>1, <4>2
      <4>3. CASE req[g].job = req[h].job
        <5>1. req[h].job = 0
          BY <1>a, <2>1, <2>5, <4>3 DEF Alone
        <5>2. req[h].read.ids = {}
          BY <2>1, <5>1 DEF TypeInv, RequestOK
        <5> QED BY <2>1, <4>1, <5>2 DEF Without
      <4> QED BY <4>2, <4>3
    <3> QED BY <3>1, <3>2, <3>3 DEF Ready
  <2>6. ASSUME NEW r \in Existing \ edited, Settled(r)' PROVE Scheduled(r)'
    <3>1. Settled(r) /\ req[h].job # r
      BY <2>1, <2>6 DEF Settled, AtWrite
    <3>2. Scheduled(r)
      BY <2>1, <3>1 DEF BackedInv
    <3>3. \A i \in rows[r].ids : Entry(i, r) \in entries'
      BY <1>e, <2>4, <3>1, <3>2 DEF Scheduled
    <3> QED BY <2>1, <3>2, <3>3 DEF Scheduled
  <2> QED BY <2>1, <2>2, <2>3, <2>5, <2>6
<1>3. ASSUME NEW h \in Requests, WriteFails(h) PROVE Goal
  BY <1>3 DEF WriteFails
<1>4. ASSUME NEW h \in Requests, Write(h), Insert(h) PROVE Goal
  <2> DEFINE n == created + 1
             Mine(e) == e.job = 0 /\ e.id \in req[h].ids
  <2>1. /\ n \in Rows /\ n # 0
        /\ req[h].pc = "write" /\ req[h].op \in Inserts /\ req[h].job = 0
        /\ req'[h] = Idle /\ \A g \in Requests : g # h => req'[g] = req[g]
        /\ UNCHANGED <<boot, edited>> /\ spoiled = {} /\ ~tainted
        /\ \A r \in Rows : r # n => rows'[r] = rows[r]
        /\ rows'[n].status = req[h].read.status /\ rows'[n].spec = req[h].read.spec
        /\ rows'[n].ids = req[h].ids
        /\ \A d \in entries : IF Mine(d) THEN Entry(d.id, n) \in entries' ELSE d \in entries'
    BY <1>4, InsertEffect
  <2>2. ~Started(h)'
    BY <1>i, <2>1 DEF Started, AtWrite
  <2>3. ASSUME NEW g \in Requests, g # h, Started(g)' PROVE Ready(g)'
    <3>1. req'[g] = req[g] /\ Started(g)
      BY <2>1, <2>3 DEF Started, AtWrite, Restarts
    <3>2. Ready(g)
      BY <2>1, <3>1 DEF BackedInv
    <3>3. ASSUME NEW i \in req[g].ids PROVE Entry(i, req[g].job) \in entries'
      <4>1. Entry(i, req[g].job) \in entries
        BY <3>2 DEF Ready
      <4>2. i \notin req[h].ids
        BY <2>3 DEF IdsInv
      <4> QED BY <1>e, <2>1, <4>1, <4>2
    <3> QED BY <3>1, <3>2, <3>3 DEF Ready
  <2>4. ASSUME NEW r \in Rows, r = n, Settled(r)' PROVE Scheduled(r)'
    <3>1. req[h].read.status = "Enable"
      BY <2>1, <2>4 DEF Settled
    <3>2. Started(h)
      BY <2>1, <3>1 DEF TypeInv, RequestOK, Inserts, Started, AtWrite, Restarts
    <3>3. Ready(h)
      BY <2>1, <3>2 DEF BackedInv
    <3>4. \A i \in req[h].ids : Entry(i, n) \in entries'
      BY <1>e, <2>1, <3>3 DEF Ready
    <3> QED BY <2>1, <2>4, <3>3, <3>4 DEF Scheduled, Ready
  <2>5. ASSUME NEW r \in Existing \ edited, r # n, Settled(r)' PROVE Scheduled(r)'
    <3>1. rows'[r] = rows[r] /\ r # 0
      BY <1>z, <2>1, <2>5
    <3>2. Settled(r)
      BY <2>1, <2>5, <3>1 DEF Settled, AtWrite
    <3>3. Scheduled(r)
      BY <2>1, <3>2 DEF BackedInv
    <3>4. \A i \in rows[r].ids : Entry(i, r) \in entries'
      BY <1>e, <2>1, <3>1, <3>3 DEF Scheduled
    <3> QED BY <3>1, <3>3, <3>4 DEF Scheduled
  <2>6. \A r \in (Existing \ edited)' : r \in Rows /\ (r = n \/ r \in Existing \ edited)
    BY <2>1 DEF Existing
  <2> QED BY <2>2, <2>3, <2>4, <2>5, <2>6
<1>5. ASSUME NEW h \in Requests, Write(h),
             WriteUpdate(h) \/ WriteStatus(h) \/ WriteDelete(h)
      PROVE  Goal
  <2> DEFINE j == req[h].job
  <2>1. /\ j \in Rows /\ j # 0 /\ req[h].pc = "write"
        /\ req'[h] = Idle /\ \A g \in Requests : g # h => req'[g] = req[g]
        /\ UNCHANGED <<boot, entries>> /\ spoiled = {} /\ ~tainted
        /\ \A r \in Rows : r # j => rows'[r] = rows[r]
        /\ req[h].op \in {"update", "enable", "disable", "delete"}
    BY <1>5, UpdateEffect
  <2>2. /\ rows[j] # NoRow /\ req[h].op = "update" =>
              /\ rows'[j].ids = IdsAfterUpdate(h) /\ rows'[j].spec = req[h].read.spec
              /\ rows'[j].status = IF req[h].read.status = "Pending"
                                   THEN "Enable" ELSE rows[j].status
        /\ rows[j] # NoRow /\ req[h].op \in {"enable", "disable"} =>
              /\ rows'[j].ids = req[h].ids /\ rows'[j].spec = rows[j].spec
              /\ rows'[j].status = IF req[h].op = "enable" THEN "Enable" ELSE "Disable"
        /\ rows[j] # NoRow /\ req[h].op = "delete" => rows'[j] = NoRow
        /\ edited' = IF req[h].op = "update" /\ req[h].read.status = "Pending"
                     THEN edited \cup {j}
                     ELSE IF req[h].op \in {"enable", "disable"} THEN edited \ {j}
                     ELSE edited
    BY <1>5, UpdateEffect
  <2>3. ASSUME NEW g \in Requests, Started(g)' PROVE Ready(g)'
    <3>1. g # h /\ req'[g] = req[g] /\ Started(g)
      BY <1>i, <2>1, <2>3 DEF Started, AtWrite, Restarts
    <3>2. Ready(g)
      BY <2>1, <3>1 DEF BackedInv
    <3> QED BY <2>1, <3>1, <3>2 DEF Ready
  <2>4. ASSUME NEW r \in (Existing \ edited)', r = j, Settled(r)' PROVE Scheduled(r)'
    <3>1. ReadOK(h) /\ rows[j] # NoRow /\ req[h].read.status = rows[j].status
          /\ (req[h].op # "update" => req[h].read.spec = rows[j].spec)
      BY <1>a, <2>1 DEF ReadOK
    <3>2. rows'[j] # NoRow /\ j \notin edited' /\ rows'[j].status = "Enable"
      BY <2>4 DEF Existing, Settled
    <3>3. /\ Restarts(h) /\ rows'[j].ids = req[h].ids
          /\ rows'[j].spec = req[h].read.spec
      BY <2>1, <2>2, <3>1, <3>2 DEF Restarts, IdsAfterUpdate
    <3>4. Ready(h)
      BY <2>1, <3>3 DEF BackedInv, Started, AtWrite
    <3> QED BY <2>1, <2>4, <3>3, <3>4 DEF Scheduled, Ready
  <2> HIDE DEF j
  <2>5. ASSUME NEW r \in (Existing \ edited)', r # j, Settled(r)' PROVE Scheduled(r)'
    <3>1. rows'[r] = rows[r] /\ r \in Existing /\ r \notin edited
      BY <2>1, <2>2, <2>5 DEF Existing
    <3>2. Settled(r)
      BY <2>1, <2>5, <3>1 DEF Settled, AtWrite, j
    <3>3. Scheduled(r)
      BY <2>1, <3>1, <3>2 DEF BackedInv
    <3> QED BY <2>1, <3>1, <3>3 DEF Scheduled
  <2> QED BY <2>3, <2>4, <2>5
<1>6. CASE Crash
  <2>1. boot' = 1 /\ \A g \in Requests : req'[g] = Idle
    BY <1>6 DEF Crash
  <2>2. \A r \in (Existing \ edited)' : ~(r < boot')
    BY <2>1, MaxRowsAssumption DEF Existing, Rows
  <2> QED BY <1>i, <2>1, <2>2 DEF Started, AtWrite, Settled
<1>7. CASE StartRow \/ SkipRow
  <2>1. /\ req' = req /\ ~Served /\ boot' = boot + 1 /\ ~tainted /\ edited' = edited
        /\ entries \subseteq entries' /\ spoiled = {}
    BY <1>7 DEF StartRow, SkipRow
  <2>2. \A g \in Requests : ~Started(g)' /\ ~AtWrite(g)
    BY <2>1, BootIsAlone DEF AtWrite, Started
  <2>3. ASSUME NEW r \in (Existing \ edited)', Settled(r)', r # boot PROVE Scheduled(r)'
    <3>1. rows'[r] = rows[r] /\ r \in Existing /\ r \notin edited
      BY <1>7, <2>1, <2>3 DEF Existing, StartRow, SkipRow, TypeInv
    <3>2. r < boot
      <4>1. r \in Nat /\ boot \in Nat /\ r < boot + 1
        BY <2>1, <2>3, <3>1, MaxRowsAssumption
           DEF Settled, Existing, Rows, TypeInv, TypeOK
      <4> QED BY <2>3, <4>1
    <3>3. Settled(r)
      BY <2>2, <2>3, <3>1, <3>2 DEF Settled
    <3>4. Scheduled(r)
      BY <2>1, <3>1, <3>3 DEF BackedInv
    <3> QED BY <2>1, <3>1, <3>4 DEF Scheduled
  <2>4. ASSUME NEW r \in (Existing \ edited)', Settled(r)', r = boot PROVE Scheduled(r)'
    <3> DEFINE spec == rows[r].spec
    <3>1. StartRow
      <4>1. CASE SkipRow
        BY <2>4, <4>1 DEF SkipRow, Settled
      <4> QED BY <1>7, <4>1
    <3>2. /\ r \in Existing /\ rows[r] \in RowRecords /\ spec \in Specs
      BY <2>1, <2>4, <3>1, BootRow, RowFields DEF StartRow
    <3>3. Valid(spec) /\ StartedIds(r) = NewIds(spec)
      BY <2>4, <3>1 DEF StartRow, StartedIds
    <3>4. /\ rows' = [rows EXCEPT ![r].ids = NewIds(spec)]
          /\ \A i \in NewIds(spec) : Entry(i, r) \in entries'
      BY <2>4, <3>1, <3>3 DEF StartRow, Entry
    <3>5. rows'[r].ids = NewIds(spec) /\ rows'[r].spec = spec
      <4>1. r \in Rows /\ rows'[r] = [rows[r] EXCEPT !.ids = NewIds(spec)]
        BY <3>2, <3>4 DEF Existing, TypeInv
      <4> QED BY <3>2, <4>1 DEF RowRecords
    <3>6. Cardinality(NewIds(spec)) = spec.parts
      BY <3>2, <3>3, NewIdsOfValid
    <3> QED BY <3>4, <3>5, <3>6 DEF Scheduled
  <2> QED BY <2>2, <2>3, <2>4
<1>8. CASE StartRowUnsaved
  BY <1>8 DEF StartRowUnsaved
<1>9. CASE UNCHANGED vars
  <2>1. Existing' = Existing
    BY <1>9 DEF vars, Existing
  <2>2. ASSUME NEW g \in Requests PROVE Started(g)' => Ready(g)'
    BY <1>9 DEF vars, BackedInv, Started, Ready, AtWrite, Restarts
  <2>3. ASSUME NEW r \in Existing \ edited, Settled(r)' PROVE Scheduled(r)'
    <3>1. Settled(r)
      BY <1>9, <2>3 DEF vars, Settled, AtWrite
    <3>2. Scheduled(r)
      BY <1>9, <3>1 DEF vars, BackedInv
    <3> QED BY <1>9, <3>2 DEF vars, Scheduled
  <2>4. edited' = edited
    BY <1>9 DEF vars
  <2> QED BY <2>1, <2>2, <2>3, <2>4
<1> QED
  BY <1>1, <1>2, <1>3, <1>4, <1>5, <1>6, <1>7, <1>8, <1>9 DEF Next, Write

-----------------------------------------------------------------------------
(* The theorems about the scheduler. *)

ScheduleInv == TypeInv /\ AloneInv /\ IdsInv /\ OrphanInv /\ OwnInv /\ BackedInv

LEMMA ScheduleInit == Init => ScheduleInv
BY TypeInit, AloneInit, IdsInit, OrphanInit, OwnInit, BackedInit DEF ScheduleInv

LEMMA ScheduleStep == ScheduleInv /\ [Next]_vars => ScheduleInv'
BY TypeStep, AloneStep, IdsStep, OrphanStep, OwnStep, BackedStep DEF ScheduleInv

\* When no request is served, every entry of the scheduler is of an enabled row
\* that lists it, so that somebody can remove it, unless since the start two
\* requests overlapped, a spec was refused or a write failed: the three-step
\* requests leave no orphan otherwise, however those of different jobs interleave
\* and whenever the agent restarts.
THEOREM NoOrphansHolds == Spec => []NoOrphans
<1>1. ScheduleInv => NoOrphans
  BY DEF ScheduleInv, OrphanInv, NoOrphans, Quiet, Owned, Listed, Held, Started, AtWrite,
         Busy
<1> QED
  BY <1>1, ScheduleInit, ScheduleStep, PTL DEF Spec

\* No request takes an entry of another job out of the scheduler, though it tells
\* its entries by ids it read before and ids start again with each process: only
\* rows that a failed write or an overlap left with stale ids could make it so.
THEOREM OthersKeepRunningHolds == Spec => OthersKeepRunning
<1> DEFINE Own(e) == \/ tainted \/ Crash
                     \/ \E h \in Requests : Busy(h) /\ req[h].job = e.job
<1>1. ASSUME ScheduleInv, [Next]_vars, NEW e \in entries \ entries'
      PROVE  Own(e)
  <2> USE <1>1 DEF ScheduleInv
  <2>1. SUFFICES ASSUME ~tainted, ~Crash
                 PROVE  \E h \in Requests : Busy(h) /\ req[h].job = e.job
    OBVIOUS
  <2>2. ASSUME NEW h \in Requests, StartJob(h) \/ StopJob(h)
        PROVE  Busy(h) /\ req[h].job = e.job
    <3>1. Busy(h) /\ Without(req[h].read.ids) \subseteq entries'
      BY <2>2, StartEffect, StopEffect DEF Replaced
    <3>2. e.id \in req[h].read.ids
      BY <3>1 DEF Without
    <3> QED BY <2>1, <3>1, <3>2, RemovedIsOwn
  <2>3. ASSUME NEW h \in Requests, Write(h), Insert(h)
        PROVE  Busy(h) /\ req[h].job = e.job
    <3>1. /\ req[h].pc = "write" /\ req[h].job = 0
          /\ ~(e.job = 0 /\ e.id \in req[h].ids) => e \in entries'
      BY <2>3, InsertEffect
    <3> QED BY <3>1 DEF Busy
  <2>4. ASSUME NEW h \in Requests,
               \/ Begin(h) \/ WriteFails(h)
               \/ (Write(h) /\ (WriteUpdate(h) \/ WriteStatus(h) \/ WriteDelete(h)))
        PROVE  entries' = entries
    <3>1. CASE Begin(h)
      BY <3>1, BeginAccepts, AcceptedRequest
    <3>2. CASE WriteFails(h)
      BY <3>2 DEF WriteFails
    <3>3. CASE Write(h) /\ (WriteUpdate(h) \/ WriteStatus(h) \/ WriteDelete(h))
      BY <3>3 DEF WriteUpdate, WriteStatus, WriteDelete
    <3> QED BY <2>4, <3>1, <3>2, <3>3
  <2>5. StartRow \/ SkipRow \/ StartRowUnsaved \/ UNCHANGED vars => entries \subseteq entries'
    BY DEF StartRow, SkipRow, StartRowUnsaved, vars
  <2> QED BY <2>1, <2>2, <2>3, <2>4, <2>5 DEF Next, Write
<1>2. ScheduleInv /\ [Next]_vars => [\A e \in entries \ entries' : Own(e)]_vars
  BY <1>1
<1> QED
  BY <1>2, ScheduleInit, ScheduleStep, PTL DEF Spec, OthersKeepRunning

\* The ids of a row that has its entries are finitely many.
LEMMA EntriesOfRow ==
    ASSUME TypeInv, NEW r \in Existing, OwnIds(r), \A i \in rows[r].ids : Entry(i, r) \in entries,
           \A e \in Entries(r) : e.id \in rows[r].ids
    PROVE  /\ rows[r].ids = EntryIds(r)
           /\ Cardinality(Entries(r)) = Cardinality(rows[r].ids)
<1> DEFINE ids == rows[r].ids
<1>1. ids \subseteq Nat /\ lastId \in Nat /\ \A i \in ids : i <= lastId
  BY RowFields DEF OwnIds, TypeInv, TypeOK
<1>2. \A i \in ids : Entry(i, r) \in Entries(r) /\ Entry(i, r).id = i
  BY DEF Entries, Entry
<1>3. \A e \in Entries(r) : e.id \in ids /\ e = Entry(e.id, r)
  BY DEF Entries, Entry, TypeInv
<1> HIDE DEF ids
<1>4. IsFiniteSet(ids)
  BY <1>1, FS_BoundedSetOfNaturals
<1> DEFINE f == [i \in ids |-> Entry(i, r)]
<1>5. f \in Bijection(ids, Entries(r))
  <2>1. f \in [ids -> Entries(r)] /\ \A i, k \in ids : f[i] = f[k] => i = k
    BY <1>2
  <2>2. \A e \in Entries(r) : \E i \in ids : f[i] = e
    BY <1>3
  <2> HIDE DEF f
  <2> QED BY <2>1, <2>2 DEF Bijection, Injection, Surjection, IsInjective
<1>6. Cardinality(Entries(r)) = Cardinality(ids)
  BY <1>4, <1>5, FS_Bijection DEF ExistsBijection
<1>7. ids = EntryIds(r)
  BY <1>2, <1>3 DEF EntryIds
<1> QED
  BY <1>6, <1>7 DEF ids

\* When no request is served, every enabled row runs once per part of its spec and
\* lists exactly its entries, unless something went wrong or the row was edited
\* while Pending: neither lost nor doubled, whatever requests were interleaved
\* before and whenever the agent restarted.
THEOREM EnabledIsScheduledHolds == Spec => []EnabledIsScheduled
<1>1. ASSUME ScheduleInv, Quiet, spoiled = {}, ~tainted, NEW r \in Existing \ edited,
             rows[r].status = "Enable"
      PROVE  /\ Cardinality(Entries(r)) = rows[r].spec.parts
             /\ rows[r].ids = EntryIds(r)
  <2>1. \A h \in Requests : ~AtWrite(h)
    BY <1>1 DEF Quiet, Busy, AtWrite
  <2>2. r < boot
    BY <1>1, MaxRowsAssumption DEF Quiet, Served, Existing, Rows
  <2>3. Scheduled(r) /\ OwnIds(r)
    BY <1>1, <2>1, <2>2 DEF ScheduleInv, BackedInv, OwnInv, Settled
  <2>4. \A e \in Entries(r) : e.id \in rows[r].ids
    BY <1>1, <2>1 DEF ScheduleInv, OrphanInv, Entries, Owned, Listed, Held, Started
  <2> QED BY <1>1, <2>3, <2>4, EntriesOfRow DEF Scheduled, ScheduleInv
<1>2. ScheduleInv => EnabledIsScheduled
  BY <1>1 DEF EnabledIsScheduled
<1> QED
  BY <1>2, ScheduleInit, ScheduleStep, PTL DEF Spec
=============================================================================
