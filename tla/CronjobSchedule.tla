--------------------------- MODULE CronjobSchedule ---------------------------
(***************************************************************************)
(* Cronjob rows against the entries of the scheduler                       *)
(* (agent/app/service/cronjob.go): Create, Update, UpdateStatus, Delete    *)
(* and Import served concurrently, and the restart, where                  *)
(* agent/cron/cron.go builds the entries anew from the rows.               *)
(*                                                                         *)
(* Every request reads the row, changes the scheduler, then writes the     *)
(* row, and nothing locks the three steps together.  Entry ids start again *)
(* from 1 with each process; the ids kept in the rows do not.              *)
(***************************************************************************)
EXTENDS Naturals, FiniteSets

CONSTANTS
    Requests,  \* requests that may be served at the same time
    Names,     \* names of cronjobs
    MaxRows,   \* bound on the rows created
    MaxOps,    \* bound on the requests served
    MaxCrash,  \* bound on the crashes of the agent
    DbMayFail  \* may a write of the database fail?

ASSUME RequestsAssumption == IsFiniteSet(Requests)
ASSUME MaxRowsAssumption == MaxRows \in Nat
ASSUME MaxOpsAssumption == MaxOps \in Nat
ASSUME MaxCrashAssumption == MaxCrash \in Nat
ASSUME DbMayFailAssumption == DbMayFail \in BOOLEAN

VARIABLES
    boot,     \* the row cron.Run starts next, MaxRows + 1 when requests are served
    rows,     \* the cronjobs table
    created,  \* rows created so far: ids are never used again
    entries,  \* the entries of global.Cron, each with the id of its job
    lastId,   \* the last entry id this process gave out
    req,      \* where each request is, and what it has read
    ops,      \* requests accepted so far
    crashes,  \* crashes so far
    spoiled,  \* ghost: what went wrong since the start of this process
    tainted,  \* ghost: may a row hold ids the scheduler did not give its job?
    edited,   \* ghost: rows edited while Pending since the start
    twins     \* ghost: names an accepted request was not the only one to want

vars == <<boot, rows, created, entries, lastId, req, ops, crashes, spoiled,
          tainted, edited, twins>>

Rows == 1..MaxRows

\* A spec is split at "&&" into parts; registers says how many are added before
\* the first the parser refuses (all of them when it refuses none).
Specs == {[parts |-> 1, registers |-> 1], [parts |-> 2, registers |-> 2],
          [parts |-> 2, registers |-> 1]}
Valid(spec) == spec.registers = spec.parts

Statuses == {"Enable", "Disable", "Pending"}
NoRow == [name |-> "", status |-> "None", spec |-> [parts |-> 0, registers |-> 0],
          ids |-> {}]
Existing == {r \in Rows : rows[r] # NoRow}

Idle == [op |-> "none", pc |-> "idle", job |-> 0, read |-> NoRow, ids |-> {}]
Busy(h) == req[h].pc # "idle"
Served == boot = MaxRows + 1
Quiet == Served /\ \A h \in Requests : ~Busy(h)

-----------------------------------------------------------------------------
Init ==
    /\ boot = MaxRows + 1
    /\ rows = [r \in Rows |-> NoRow] /\ created = 0
    /\ entries = {} /\ lastId = 0
    /\ req = [h \in Requests |-> Idle] /\ ops = 0
    /\ crashes = 0
    /\ spoiled = {} /\ tainted = FALSE /\ edited = {} /\ twins = {}

\* The requests that will insert a row.
Inserts == {"create", "import"}
Inserting == {h \in Requests : req[h].op \in Inserts}

\* The requests that will write the name n into a row other than r (0: one to come).
Claims(n, r) ==
    {g \in Requests : /\ req[g].op \in Inserts \cup {"update"}
                      /\ req[g].read.name = n
                      /\ r = 0 \/ req[g].job # r}

\* The request comes while another claims its name, or it is an update to the name
\* of another row.
Twin(op, job, n) ==
    \/ op \in Inserts \cup {"update"} /\ Claims(n, job) # {}
    \/ op = "update" /\ \E q \in Existing \ {job} : rows[q].name = n

\* Another request is at work on the same row.
Overlaps(h, job) == job # 0 /\ \E g \in Requests \ {h} : req[g].job = job

Accept(h, op, pc, job, read) ==
    /\ Served /\ ~Busy(h) /\ ops < MaxOps
    /\ req' = [req EXCEPT ![h] = [op |-> op, pc |-> pc, job |-> job, read |-> read,
                                  ids |-> {}]]
    /\ ops' = ops + 1
    /\ spoiled' = IF Overlaps(h, job) THEN spoiled \cup {"overlap"} ELSE spoiled
    /\ tainted' = (tainted \/ Overlaps(h, job))
    /\ twins' = IF Twin(op, job, read.name) THEN twins \cup {read.name} ELSE twins
    /\ UNCHANGED <<boot, rows, created, entries, lastId, crashes, edited>>

\* Mutant: only the names of enabled rows are taken.
NameFreeOfEnabled(n) == \A r \in Existing : rows[r].status = "Enable" => rows[r].name # n
NameFree(n) == \A r \in Existing : rows[r].name # n

\* The bound on rows: each request on its way to an insert will take one.
Room == created + Cardinality(Inserting) < MaxRows

BeginCreate(h) ==
    \E n \in Names, s \in Specs :
        /\ NameFree(n) /\ Room
        /\ Accept(h, "create", "schedule", 0,
                  [name |-> n, status |-> "Enable", spec |-> s, ids |-> {}])

\* Import skips a name that exists and touches no entry.
BeginImport(h) ==
    \E n \in Names, s \in Specs, status \in {"Disable", "Pending"} :
        /\ NameFree(n) /\ Room
        /\ Accept(h, "import", "write", 0,
                  [name |-> n, status |-> status, spec |-> s, ids |-> {}])

\* Update keeps the ids and the status it read beside the name and the spec of the
\* request.  It does not look for the name.
BeginUpdate(h) ==
    \E r \in Existing, n \in Names, s \in Specs :
        Accept(h, "update", "schedule", r, [rows[r] EXCEPT !.name = n, !.spec = s])

BeginUpdateStatus(h) ==
    \E r \in Existing, op \in {"enable", "disable"} :
        Accept(h, op, "schedule", r, rows[r])

BeginDelete(h) == \E r \in Existing : Accept(h, "delete", "schedule", r, rows[r])

-----------------------------------------------------------------------------
Without(ids) == {e \in entries : e.id \notin ids}

\* Mutant: the first part takes the id that was given out last.
IdsFromLast(spec) == lastId .. lastId + spec.registers - 1
\* The ids the scheduler gives to the parts of a spec.
NewIds(spec) == lastId + 1 .. lastId + spec.registers

\* Mutant: StartJob never removes the entries of the row.
Forgotten(h) == {}
\* StartJob removes the entries the row held when it was read, except for Create.
Replaced(h) == req[h].read.ids

\* Mutant: only Create and UpdateStatus start the job.
RestartsByStatus(h) == req[h].op \in {"create", "enable"}
\* Does the request call StartJob?
Restarts(h) == \/ req[h].op \in {"create", "enable"}
               \/ req[h].op = "update" /\ req[h].read.status = "Enable"

\* StartJob, of which nothing is undone when a later part is refused: the request
\* then ends before it writes the row.  The entries of a row not written yet carry
\* the job 0.
StartJob(h) ==
    LET spec == req[h].read.spec IN
    /\ req[h].pc = "schedule" /\ Restarts(h)
    /\ entries' = Without(Replaced(h))
                    \cup {[id |-> i, job |-> req[h].job] : i \in NewIds(spec)}
    /\ lastId' = lastId + spec.registers
    /\ IF Valid(spec)
       THEN /\ req' = [req EXCEPT ![h].pc = "write", ![h].ids = NewIds(spec)]
            /\ UNCHANGED spoiled
       ELSE /\ req' = [req EXCEPT ![h] = Idle]
            /\ spoiled' = spoiled \cup {"spec"}
    /\ UNCHANGED <<boot, rows, created, ops, crashes, tainted, edited, twins>>

\* The other requests only remove the entries of the row.
StopJob(h) ==
    /\ req[h].pc = "schedule" /\ ~Restarts(h)
    /\ entries' = Without(req[h].read.ids)
    /\ req' = [req EXCEPT ![h].pc = "write"]
    /\ UNCHANGED <<boot, rows, created, lastId, ops, crashes, spoiled, tainted, edited,
                   twins>>

-----------------------------------------------------------------------------
\* The entry_ids Update writes: those of StartJob, or nothing for that column.
IdsAfterUpdate(h) == IF req[h].read.status = "Enable" THEN req[h].ids
                                                      ELSE rows[req[h].job].ids

\* The columns of an UPDATE by id; a row deleted meanwhile stays deleted.
WriteRow(h, row) ==
    rows' = IF rows[req[h].job] = NoRow THEN rows
                                        ELSE [rows EXCEPT ![req[h].job] = row]

\* Create and Import insert a row; the closures of the entries see its new id.
Insert(h) ==
    /\ req[h].op \in {"create", "import"}
    /\ created' = created + 1
    /\ rows' = [rows EXCEPT ![created + 1] = [req[h].read EXCEPT !.ids = req[h].ids]]
    /\ entries' = {IF e.job = 0 /\ e.id \in req[h].ids THEN [e EXCEPT !.job = created + 1]
                                                       ELSE e : e \in entries}
    /\ UNCHANGED edited

\* A Pending row becomes Enable, though Update has added no entry for it.
WriteUpdate(h) ==
    LET old == rows[req[h].job] IN
    /\ req[h].op = "update"
    /\ WriteRow(h, [old EXCEPT !.name = req[h].read.name, !.spec = req[h].read.spec,
                       !.ids = IdsAfterUpdate(h),
                       !.status = IF req[h].read.status = "Pending" THEN "Enable" ELSE @])
    /\ edited' = IF req[h].read.status = "Pending" THEN edited \cup {req[h].job} ELSE edited
    /\ UNCHANGED <<created, entries>>

\* Mutant: a disabled row keeps its ids.
IdsKept(h) == IF req[h].op = "enable" THEN req[h].ids ELSE rows[req[h].job].ids
\* The entry_ids UpdateStatus writes: none for a row it disables.
IdsAfterStatus(h) == req[h].ids

WriteStatus(h) ==
    /\ req[h].op \in {"enable", "disable"}
    /\ WriteRow(h, [rows[req[h].job] EXCEPT !.ids = IdsAfterStatus(h),
                       !.status = IF req[h].op = "enable" THEN "Enable" ELSE "Disable"])
    /\ edited' = edited \ {req[h].job}
    /\ UNCHANGED <<created, entries>>

\* Delete clears the records first (CleanRecord), then the row.
WriteDelete(h) ==
    /\ req[h].op = "delete"
    /\ WriteRow(h, NoRow)
    /\ UNCHANGED <<created, entries, edited>>

Write(h) ==
    /\ req[h].pc = "write"
    /\ Insert(h) \/ WriteUpdate(h) \/ WriteStatus(h) \/ WriteDelete(h)
    /\ req' = [req EXCEPT ![h] = Idle]
    /\ UNCHANGED <<boot, lastId, ops, crashes, spoiled, tainted, twins>>

\* The write fails (or CleanRecord before it): the request ends, and what it did
\* to the scheduler stays.
WriteFails(h) ==
    /\ DbMayFail /\ req[h].pc = "write"
    /\ req' = [req EXCEPT ![h] = Idle]
    /\ spoiled' = spoiled \cup {"database"} /\ tainted' = TRUE
    /\ UNCHANGED <<boot, rows, created, entries, lastId, ops, crashes, edited, twins>>

-----------------------------------------------------------------------------
Crash ==
    /\ crashes < MaxCrash
    /\ crashes' = crashes + 1
    /\ boot' = 1 /\ entries' = {} /\ lastId' = 0
    /\ req' = [h \in Requests |-> Idle]
    /\ spoiled' = {} /\ edited' = {}
    /\ UNCHANGED <<rows, created, ops, tainted, twins>>

\* The ids cron.Run saves for a row: none when a part of its spec was refused.
StartedIds(r) == IF Valid(rows[r].spec) THEN NewIds(rows[r].spec) ELSE {}

\* One turn of the loop of cron.Run over the enabled rows.
StartRow ==
    LET r == boot IN
    /\ ~Served /\ rows[r].status = "Enable"
    /\ entries' = entries \cup {[id |-> i, job |-> r] : i \in NewIds(rows[r].spec)}
    /\ lastId' = lastId + rows[r].spec.registers
    /\ spoiled' = spoiled \cup (IF Valid(rows[r].spec) THEN {} ELSE {"spec"})
    /\ rows' = [rows EXCEPT ![r].ids = StartedIds(r)]
    /\ boot' = boot + 1
    /\ UNCHANGED <<created, req, ops, crashes, tainted, edited, twins>>

SkipRow ==
    /\ ~Served /\ rows[boot].status # "Enable"
    /\ boot' = boot + 1
    /\ UNCHANGED <<rows, created, entries, lastId, req, ops, crashes, spoiled, tainted,
                   edited, twins>>

\* The save of the ids fails: cron.Run logs that and goes on.
StartRowUnsaved ==
    LET r == boot IN
    /\ DbMayFail /\ ~Served /\ rows[r].status = "Enable"
    /\ entries' = entries \cup {[id |-> i, job |-> r] : i \in NewIds(rows[r].spec)}
    /\ lastId' = lastId + rows[r].spec.registers
    /\ spoiled' = spoiled \cup {"database"} /\ tainted' = TRUE
    /\ boot' = boot + 1
    /\ UNCHANGED <<rows, created, req, ops, crashes, edited, twins>>

-----------------------------------------------------------------------------
Begin(h) == \/ BeginCreate(h) \/ BeginImport(h) \/ BeginUpdate(h)
            \/ BeginUpdateStatus(h) \/ BeginDelete(h)

Next ==
    \/ \E h \in Requests : Begin(h) \/ StartJob(h) \/ StopJob(h) \/ Write(h) \/ WriteFails(h)
    \/ Crash \/ StartRow \/ SkipRow \/ StartRowUnsaved

Spec == Init /\ [][Next]_vars

-----------------------------------------------------------------------------
Entries(r) == {e \in entries : e.job = r}
EntryIds(r) == {e.id : e \in Entries(r)}

\* The types of the variables.
TypeOK ==
    /\ boot \in 1..MaxRows + 1 /\ created \in 0..MaxRows
    /\ \A r \in Rows : rows[r] = NoRow \/
          /\ rows[r].name \in Names /\ rows[r].status \in Statuses
          /\ rows[r].spec \in Specs /\ rows[r].ids \subseteq Nat
    /\ \A e \in entries : e.id \in 1..lastId /\ e.job \in 0..MaxRows
    /\ \A h \in Requests :
          /\ req[h].op \in {"none", "create", "import", "update", "enable", "disable", "delete"}
          /\ req[h].pc \in {"idle", "schedule", "write"} /\ req[h].job \in 0..MaxRows
    /\ lastId \in Nat /\ ops \in 0..MaxOps /\ crashes \in 0..MaxCrash
    /\ spoiled \subseteq {"overlap", "spec", "database"} /\ tainted \in BOOLEAN
    /\ edited \subseteq Rows /\ twins \subseteq Names

\* When no request is served, the scheduler runs only entries of enabled rows, and
\* a row lists all the entries of its job, or nobody could ever remove them.  Only
\* overlapping requests, a refused spec or a failed write leave orphans behind.
NoOrphans ==
    (Quiet /\ spoiled = {}) => \A e \in entries :
        /\ e.job \in Existing
        /\ rows[e.job].status = "Enable" /\ e.id \in rows[e.job].ids

\* When no request is served, an enabled row runs once per part of its spec, with
\* the same exceptions and one more: a row that was edited while Pending says
\* Enable and has no entry until it is enabled again or the agent restarts.
EnabledIsScheduled ==
    (Quiet /\ spoiled = {} /\ ~tainted) => \A r \in Existing \ edited :
        rows[r].status = "Enable" => /\ Cardinality(Entries(r)) = rows[r].spec.parts
                                     /\ rows[r].ids = EntryIds(r)

\* A request takes no entry of another job out of the scheduler, as long as no row
\* holds ids of an earlier process, which a failed write or an overlap leave.
OthersKeepRunning ==
    [][\A e \in entries \ entries' :
          \/ tainted \/ Crash
          \/ \E h \in Requests : Busy(h) /\ req[h].job = e.job]_vars

\* No two cronjobs have one name, which is also that of the directory their scripts
\* are written to and that Delete removes, unless one of them was given the name by
\* Update, which does not look for it, while another row had it, or both were to
\* get it from requests served at one time.
NamesAreUnique ==
    \A r, q \in Existing :
        r # q /\ rows[r].name = rows[q].name => rows[r].name \in twins

\* The cronjob page: "This will stop the scheduled task from automatically
\* executing", and the row of a stopped task says Disable.
DisabledDoesNotRun ==
    Quiet => \A r \in Existing : rows[r].status = "Disable" => Entries(r) = {}
=============================================================================
