-------------------------- MODULE SchemaMigration --------------------------
(***************************************************************************)
(* Store.Migrate as every command runs it at start-up: the ledger of       *)
(* applied files, the apply loop over the embedded SQL files, and the      *)
(* reconciler that makes the database match what those files declare.      *)
(*                                                                         *)
(* A build embeds an ordered list of files, and a later build may edit a   *)
(* file that an earlier one already applied.  A statement names the object *)
(* it creates, drops or needs.  A failed statement makes the process exit, *)
(* so it is the same step as a crash; the platform starts it again.        *)
(***************************************************************************)
EXTENDS Integers, Sequences

CONSTANTS
    Procs,      \* processes that call Migrate at start-up
    Builds,     \* versions of the binary
    FilesOf,    \* FilesOf[v]: names of the files build v embeds, in order
    Stmts,      \* Stmts[v][f]: the statements of file f in build v
    Columns,    \* column names
    Tables,     \* names of tables
    Views,      \* names of materialized views
    Protected,  \* protectedTables
    Mode,       \* NAGG_SCHEMA_RECONCILE
    Deployable, \* pairs <<v, w>>: build w may be deployed over build v
    FirstBuild, \* the build of the first deployment
    MaxDeploys, \* bound on the deployments after the first
    MaxFaults   \* bound on crashes and failed statements

Objects == Tables \union Views

\* A statement creates an object with its columns, drops one, or needs one to
\* exist (ALTER, INSERT ... SELECT).
StmtsSet == [op : {"create", "drop", "use"}, obj : Objects, cols : SUBSET Columns]

ASSUME FilesAssumption ==
    /\ \A v \in Builds : FilesOf[v] \in Seq(DOMAIN Stmts[v])
    /\ \A v \in Builds : \A f \in DOMAIN Stmts[v] :
          /\ Stmts[v][f] \in Seq(StmtsSet)
          /\ \A i \in DOMAIN Stmts[v][f] :
                Stmts[v][f][i].op = "drop" => Stmts[v][f][i].obj \notin Protected

ASSUME NamesAssumption ==
    /\ Tables \intersect Views = {} /\ Protected \subseteq Tables
    /\ FirstBuild \in Builds /\ Mode \in {"off", "dry-run", "on"}
    /\ MaxDeploys \in Nat /\ MaxFaults \in Nat

VARIABLES
    schema,    \* system.tables and system.columns: existing object -> columns
    ledger,    \* names in schema_migrations
    deployed,  \* the build the platform starts processes with
    deploys,   \* number of deployments so far
    faults,    \* number of crashes and failed statements so far
    pc,        \* where each process is
    build,     \* the build each process runs
    applied,   \* the ledger as the running Migrate read it
    file,      \* index of the file its apply loop is at
    stmt,      \* index of the statement within that file
    seen,      \* actualTables: names read from system.tables
    plan       \* the ReconcilePlan still to execute

database == <<schema, ledger>>
platform == <<deployed, deploys, faults>>
locals == <<build, applied, file, stmt, seen, plan>>
vars == <<database, platform, pc, locals>>

PCs == {"down", "ledger", "apply", "tables", "columns", "reconcile", "up"}

-----------------------------------------------------------------------------
(* What a build declares *)

\* The places <<file, statement>> of build v's CREATEs of o, in apply order.
CreationsOf(v, o) ==
    {x \in UNION {{k} \X DOMAIN Stmts[v][FilesOf[v][k]] : k \in DOMAIN FilesOf[v]} :
        /\ Stmts[v][FilesOf[v][x[1]]][x[2]].op = "create"
        /\ Stmts[v][FilesOf[v][x[1]]][x[2]].obj = o}

Before(x, y) == x[1] < y[1] \/ (x[1] = y[1] /\ x[2] <= y[2])

\* The parser overwrites: the last CREATE of a table gives its columns.
ColumnsOf(v, o) ==
    LET x == CHOOSE y \in CreationsOf(v, o) : \A z \in CreationsOf(v, o) : Before(z, y)
    IN Stmts[v][FilesOf[v][x[1]]][x[2]].cols

\* DesiredSchema of each build.
Desired == [v \in Builds |->
    [o \in {o \in Objects : CreationsOf(v, o) # {}} |-> ColumnsOf(v, o)]]

Declared(v) == DOMAIN Desired[v]

\* Deployments that only go forward, of files as the repository edits them: a file has a
\* name of its own and is never deleted; what it drops and the build declares, it creates
\* again; and an applied file only loses the CREATEs of what is not declared any more.
Names(v) == {FilesOf[v][k] : k \in DOMAIN FilesOf[v]}
CreatesAt(v, f, i, o) == Stmts[v][f][i].op = "create" /\ Stmts[v][f][i].obj = o
Creates(v, f) == {o \in Objects : \E i \in DOMAIN Stmts[v][f] : CreatesAt(v, f, i, o)}

RebuildsWhatItDrops(v, f) ==
    \A i \in DOMAIN Stmts[v][f] : Stmts[v][f][i].op = "drop" /\ Stmts[v][f][i].obj \in Declared(v) =>
        \E j \in DOMAIN Stmts[v][f] : j > i /\ CreatesAt(v, f, j, Stmts[v][f][i].obj)

ForwardHistory ==
    /\ \A v \in Builds : \A k, l \in DOMAIN FilesOf[v] : FilesOf[v][k] = FilesOf[v][l] => k = l
    /\ \A v \in Builds : \A f \in Names(v) : RebuildsWhatItDrops(v, f)
    /\ \A u, v, w \in Builds :
          <<u, v>> \in Deployable /\ <<v, w>> \in Deployable => <<u, w>> \in Deployable
    /\ \A v, w \in Builds : <<v, w>> \in Deployable =>
          Names(v) \subseteq Names(w) /\ \A f \in Names(v) : Creates(w, f) = Creates(v, f) \intersect Declared(w)

-----------------------------------------------------------------------------
(* The reconcile plan *)

Plans == [dropViews : SUBSET Views, dropTables : SUBSET Tables,
          addColumns : SUBSET (Tables \X Columns),
          dropColumns : SUBSET (Tables \X Columns)]
NoPlan == [dropViews |-> {}, dropTables |-> {}, addColumns |-> {}, dropColumns |-> {}]

\* computeReconcilePlan on the names and the columns that were read.
ComputePlan(v, names) ==
    LET kept == names \intersect Declared(v) \intersect Tables
        actual(t) == IF t \in DOMAIN schema THEN schema[t] ELSE {}
    IN [dropViews |-> (names \intersect Views) \ Declared(v),
        dropTables |-> (names \intersect Tables) \ Declared(v),
        addColumns |-> {x \in kept \X Columns :
                           x[2] \in Desired[v][x[1]] /\ x[2] \notin actual(x[1])},
        dropColumns |-> {x \in kept \X Columns :
                           x[2] \notin Desired[v][x[1]] /\ x[2] \in actual(x[1])}]

\* Mutant of Guarded: only the tables are guarded, not their columns.
GuardedTables(pl) == [pl EXCEPT !.dropTables = @ \ Protected]

\* guardProtectedTables
Guarded(pl) ==
    [pl EXCEPT !.dropTables = @ \ Protected,
               !.dropColumns = {x \in @ : x[1] \notin Protected}]

-----------------------------------------------------------------------------
Init ==
    /\ schema = [o \in {} |-> {}] /\ ledger = {}
    /\ deployed = FirstBuild /\ deploys = 0 /\ faults = 0
    /\ pc = [p \in Procs |-> "down"]
    /\ build = [p \in Procs |-> FirstBuild]
    /\ applied = [p \in Procs |-> {}]
    /\ file = [p \in Procs |-> 1] /\ stmt = [p \in Procs |-> 1]
    /\ seen = [p \in Procs |-> {}] /\ plan = [p \in Procs |-> NoPlan]

Goto(p, l) == pc' = [pc EXCEPT ![p] = l]
Drop(o) == schema' = [x \in DOMAIN schema \ {o} |-> schema[x]]
ForgetProgress(p) ==
    /\ applied' = [applied EXCEPT ![p] = {}]
    /\ file' = [file EXCEPT ![p] = 1] /\ stmt' = [stmt EXCEPT ![p] = 1]
ForgetLocals(p) ==
    /\ ForgetProgress(p)
    /\ seen' = [seen EXCEPT ![p] = {}] /\ plan' = [plan EXCEPT ![p] = NoPlan]

\* The platform starts the process with the deployed build.
Start(p) ==
    /\ pc[p] = "down"
    /\ Goto(p, "ledger") /\ build' = [build EXCEPT ![p] = deployed]
    /\ UNCHANGED <<database, platform, applied, file, stmt, seen, plan>>

\* The ledger table exists after the bootstrap; its rows are read once.
LoadLedger(p) ==
    /\ pc[p] = "ledger"
    /\ applied' = [applied EXCEPT ![p] = ledger] /\ Goto(p, "apply")
    /\ UNCHANGED <<database, platform, build, file, stmt, seen, plan>>

AtFile(p) == pc[p] = "apply" /\ file[p] <= Len(FilesOf[build[p]])
CurrentName(p) == FilesOf[build[p]][file[p]]
NextFile(p) ==
    file' = [file EXCEPT ![p] = @ + 1] /\ stmt' = [stmt EXCEPT ![p] = 1]

SkipApplied(p) ==
    /\ AtFile(p) /\ CurrentName(p) \in applied[p]
    /\ NextFile(p)
    /\ UNCHANGED <<database, platform, pc, build, applied, seen, plan>>

CurrentFile(p) == Stmts[build[p]][CurrentName(p)]

\* Mutant of ExecCreate: a CREATE without IF NOT EXISTS.
ExecCreateStrict(s) ==
    s.obj \notin DOMAIN schema /\ schema' = [o \in DOMAIN schema \union {s.obj} |->
        IF o = s.obj THEN s.cols ELSE schema[o]]

\* CREATE ... IF NOT EXISTS leaves an existing object as it is.
ExecCreate(s) ==
    schema' = [o \in DOMAIN schema \union {s.obj} |->
        IF o \in DOMAIN schema THEN schema[o] ELSE s.cols]

ApplyStatement(p) ==
    /\ AtFile(p) /\ CurrentName(p) \notin applied[p] /\ stmt[p] <= Len(CurrentFile(p))
    /\ LET s == CurrentFile(p)[stmt[p]] IN
        \/ s.op = "create" /\ ExecCreate(s)
        \/ s.op = "drop" /\ Drop(s.obj)
        \/ s.op = "use" /\ s.obj \in DOMAIN schema /\ UNCHANGED schema
    /\ stmt' = [stmt EXCEPT ![p] = @ + 1]
    /\ UNCHANGED <<ledger, platform, pc, build, applied, file, seen, plan>>

\* Mutant of FileDone: a file is recorded before its last statement has run.
FileDoneEarly(p) == stmt[p] >= Len(CurrentFile(p))

FileDone(p) == stmt[p] > Len(CurrentFile(p))

RecordMigration(p) ==
    /\ AtFile(p) /\ CurrentName(p) \notin applied[p] /\ FileDone(p)
    /\ ledger' = ledger \union {CurrentName(p)}
    /\ NextFile(p)
    /\ UNCHANGED <<schema, platform, pc, build, applied, seen, plan>>

\* All files applied: the reconciler runs unless it is off.
BeginReconcile(p) ==
    /\ pc[p] = "apply" /\ file[p] > Len(FilesOf[build[p]])
    /\ Goto(p, IF Mode = "off" THEN "up" ELSE "tables") /\ ForgetProgress(p)
    /\ UNCHANGED <<database, platform, build, seen, plan>>

\* It refuses a schema that declares no table at all.
ReadTables(p) ==
    /\ pc[p] = "tables" /\ Declared(build[p]) \intersect Tables # {}
    /\ seen' = [seen EXCEPT ![p] = DOMAIN schema] /\ Goto(p, "columns")
    /\ UNCHANGED <<database, platform, build, applied, file, stmt, plan>>

ReadColumns(p) ==
    /\ pc[p] = "columns"
    /\ seen' = [seen EXCEPT ![p] = {}]
    /\ IF Mode = "dry-run"
       THEN Goto(p, "up") /\ UNCHANGED plan
       ELSE /\ Goto(p, "reconcile")
            /\ plan' = [plan EXCEPT ![p] = Guarded(ComputePlan(build[p], seen[p]))]
    /\ UNCHANGED <<database, platform, build, applied, file, stmt>>

DropViewOf(p, o) ==
    /\ pc[p] = "reconcile"
    /\ Drop(o) /\ plan' = [plan EXCEPT ![p].dropViews = @ \ {o}]
    /\ UNCHANGED <<ledger, platform, pc, build, applied, file, stmt, seen>>
DropView(p) == \E o \in plan[p].dropViews : DropViewOf(p, o)

DropTableOf(p, o) ==
    /\ pc[p] = "reconcile" /\ plan[p].dropViews = {}
    /\ Drop(o) /\ plan' = [plan EXCEPT ![p].dropTables = @ \ {o}]
    /\ UNCHANGED <<ledger, platform, pc, build, applied, file, stmt, seen>>
DropTable(p) == \E o \in plan[p].dropTables : DropTableOf(p, o)

DropsDone(p) == plan[p].dropViews = {} /\ plan[p].dropTables = {}

AddColumnOf(p, x) ==
    /\ pc[p] = "reconcile" /\ DropsDone(p)
    /\ x[1] \in DOMAIN schema
    /\ schema' = [schema EXCEPT ![x[1]] = @ \union {x[2]}]
    /\ plan' = [plan EXCEPT ![p].addColumns = @ \ {x}]
    /\ UNCHANGED <<ledger, platform, pc, build, applied, file, stmt, seen>>
AddColumn(p) == \E x \in plan[p].addColumns : AddColumnOf(p, x)

\* A column that ClickHouse refuses to drop is skipped.
DropColumnOf(p, x) ==
    /\ pc[p] = "reconcile" /\ DropsDone(p) /\ plan[p].addColumns = {}
    /\ \/ UNCHANGED schema
       \/ x[1] \in DOMAIN schema /\ schema' = [schema EXCEPT ![x[1]] = @ \ {x[2]}]
    /\ plan' = [plan EXCEPT ![p].dropColumns = @ \ {x}]
    /\ UNCHANGED <<ledger, platform, pc, build, applied, file, stmt, seen>>
DropColumn(p) == \E x \in plan[p].dropColumns : DropColumnOf(p, x)

FinishReconcile(p) ==
    /\ pc[p] = "reconcile" /\ plan[p] = NoPlan
    /\ Goto(p, "up")
    /\ UNCHANGED <<database, platform, locals>>

\* A crash, or a statement or read that fails: the process exits.
Fail(p) ==
    /\ pc[p] # "down" /\ faults < MaxFaults
    /\ Goto(p, "down") /\ ForgetLocals(p) /\ faults' = faults + 1
    /\ UNCHANGED <<database, deployed, deploys, build>>

\* A deployment; a running process of another build is then replaced.
Deploy(v) ==
    /\ deploys < MaxDeploys /\ <<deployed, v>> \in Deployable
    /\ deployed' = v /\ deploys' = deploys + 1
    /\ UNCHANGED <<database, faults, pc, locals>>

Replace(p) ==
    /\ pc[p] = "up" /\ build[p] # deployed
    /\ Goto(p, "down") /\ ForgetLocals(p)
    /\ UNCHANGED <<database, platform, build>>

Migrate(p) ==
    \/ Start(p) \/ LoadLedger(p) \/ SkipApplied(p) \/ ApplyStatement(p)
    \/ RecordMigration(p) \/ BeginReconcile(p) \/ ReadTables(p) \/ ReadColumns(p)
    \/ DropView(p) \/ DropTable(p) \/ AddColumn(p) \/ DropColumn(p)
    \/ FinishReconcile(p) \/ Replace(p)

Next ==
    \/ \E p \in Procs : Migrate(p) \/ Fail(p)
    \/ \E v \in Builds : Deploy(v)

Spec == Init /\ [][Next]_vars

\* The platform keeps restarting a process, and a running one keeps running.
FairSpec == Spec /\ \A p \in Procs : WF_vars(Migrate(p))

-----------------------------------------------------------------------------
(* Properties *)

\* A process has a plan only while it reconciles and a place in the files only
\* while it applies them, and views have no columns to reconcile.
TypeOK ==
    /\ DOMAIN schema \subseteq Objects
    /\ \A o \in DOMAIN schema : schema[o] \subseteq Columns
    /\ deployed \in Builds /\ deploys \in 0..MaxDeploys /\ faults \in 0..MaxFaults
    /\ pc \in [Procs -> PCs] /\ build \in [Procs -> Builds]
    /\ seen \in [Procs -> SUBSET Objects]
    /\ file \in [Procs -> Nat \ {0}] /\ stmt \in [Procs -> Nat \ {0}]
    /\ applied \in [Procs -> SUBSET ledger]
    /\ plan \in [Procs -> Plans]
    /\ \A p \in Procs :
        /\ plan[p] # NoPlan => pc[p] = "reconcile"
        /\ applied[p] # {} \/ file[p] # 1 \/ stmt[p] # 1 => pc[p] = "apply"

\* Every process has finished its start-up with the deployed build.
Settled == \A p \in Procs : pc[p] = "up" /\ build[p] = deployed

\* Once every process is up, everything the deployed build declares exists with
\* its columns: the files it skipped had really been applied, and nothing that
\* reconciling or re-running did took a declared object away (store.go:537).  A
\* deployment that only goes forward, that is: after a rollback the ledger still has
\* the files whose objects the other build's reconciler has dropped.
DeclaredExists == Settled =>
    /\ Declared(deployed) \subseteq DOMAIN schema
    /\ \A t \in Declared(deployed) \intersect Tables : Desired[deployed][t] \subseteq schema[t]

\* Once every process is up, nothing undeclared is left but protected tables,
\* whatever another process created or dropped between the reconciler's reads
\* and its drops (schema_reconcile.go:306).
UndeclaredStripped == (Settled /\ Mode = "on") =>
    DOMAIN schema \subseteq Declared(deployed) \union Protected

\* No step of any build ever takes away a raw ingested table or one of its
\* columns, not even after a rollback to a build that does not know the column
\* (schema_reconcile.go:11).
ProtectedSurvives == [][\A t \in Protected \intersect DOMAIN schema :
    t \in DOMAIN schema' /\ schema[t] \subseteq schema'[t]]_vars

\* A start-up interrupted at any statement can be run again to its end: the
\* processes all come up with the deployed build (migrations_test.go:70).
ComesUp == <>[]Settled

\* What a deployment leaves behind is what its build declares, nothing less and nothing
\* more, whichever statements of whichever processes were lost or done twice.
SchemaMatchesBuild == DeclaredExists /\ UndeclaredStripped
=============================================================================
