----------------------------- MODULE StoreProofs -----------------------------
(***************************************************************************)
(* Proofs about what may take rows, columns and tables away from the       *)
(* store: SchemaMigration, for any builds whose files do not drop a        *)
(* protected table themselves, and Retention, for any events, parts, clock *)
(* and bounds.  The two share no variable.                                 *)
(*                                                                         *)
(* A step of the reconciler drops what the running plan says, and the plan *)
(* was made earlier, from a schema that others have changed since.  So the *)
(* guard must be a property of the plan itself, whatever the database      *)
(* looks like when the plan is executed: that is PlanKeepsProtected.       *)
(*                                                                         *)
(* That the database comes to what a build declares has two halves.  What  *)
(* is left over has somebody who will still come across it (StrayInv), for *)
(* any number of processes; what is missing is still to be created by the  *)
(* start-up that is under way (DeclaredOf), if that is the only one.       *)
(***************************************************************************)
EXTENDS SchemaMigration, Retention, WellFoundedInduction, TLAPS

-----------------------------------------------------------------------------
(* The plans of the reconciler *)

\* No plan, at any stage of its execution, takes away a protected table or column.
PlanKeepsProtected == \A p \in Procs :
    /\ plan[p].dropTables \intersect Protected = {}
    /\ \A x \in plan[p].dropColumns : x[1] \notin Protected

MigrationInv == TypeOK /\ PlanKeepsProtected

\* What a guarded plan may contain.
LEMMA GuardedPlan ==
    ASSUME NEW v \in Builds, NEW names \in SUBSET Objects
    PROVE  LET pl == Guarded(ComputePlan(v, names)) IN
             /\ pl \in Plans
             /\ pl.dropTables \intersect Protected = {}
             /\ \A x \in pl.dropColumns : x[1] \notin Protected
<1> DEFINE pl == ComputePlan(v, names)
<1>1. pl \in Plans
  BY DEF ComputePlan, Plans
<1> HIDE DEF pl
<1>2. Guarded(pl) \in Plans
  BY <1>1 DEF Guarded, Plans
<1>3. /\ Guarded(pl).dropTables = pl.dropTables \ Protected
      /\ Guarded(pl).dropColumns = {x \in pl.dropColumns : x[1] \notin Protected}
  BY <1>1 DEF Guarded, Plans
<1> QED
  BY <1>2, <1>3 DEF pl

\* The statement an apply step executes is one of the build's statements, and
\* does not drop a protected table.
LEMMA CurrentStatement ==
    ASSUME TypeOK, NEW p \in Procs, AtFile(p), stmt[p] <= Len(CurrentFile(p))
    PROVE  /\ CurrentFile(p)[stmt[p]] \in StmtsSet
           /\ CurrentFile(p)[stmt[p]].op = "drop" =>
                CurrentFile(p)[stmt[p]].obj \notin Protected
<1>1. build[p] \in Builds /\ file[p] \in Nat \ {0} /\ stmt[p] \in Nat \ {0}
  BY DEF TypeOK
<1>2. CurrentName(p) \in DOMAIN Stmts[build[p]]
  BY <1>1, FilesAssumption DEF AtFile, CurrentName
<1>3. CurrentFile(p) \in Seq(StmtsSet) /\ stmt[p] \in DOMAIN CurrentFile(p)
  BY <1>1, <1>2, FilesAssumption DEF CurrentFile
<1>4. CurrentFile(p)[stmt[p]] \in StmtsSet
  BY <1>3
<1>5. CurrentFile(p)[stmt[p]].op = "drop" => CurrentFile(p)[stmt[p]].obj \notin Protected
  BY <1>1, <1>2, <1>3, FilesAssumption DEF CurrentFile
<1> QED
  BY <1>4, <1>5

LEMMA NoPlanType == NoPlan \in Plans
  BY DEF NoPlan, Plans

LEMMA InitMigrationInv == Init => MigrationInv
<1> SUFFICES ASSUME Init PROVE MigrationInv
  OBVIOUS
<1>1. TypeOK
  BY NamesAssumption, NoPlanType DEF Init, TypeOK, PCs
<1>2. PlanKeepsProtected
  BY DEF Init, PlanKeepsProtected, NoPlan
<1> QED
  BY <1>1, <1>2 DEF MigrationInv

-----------------------------------------------------------------------------
\* The parts of TypeOK that speak of the database.
SchemaType == /\ DOMAIN schema \subseteq Objects
              /\ \A o \in DOMAIN schema : schema[o] \subseteq Columns

LEMMA DropSchemaType ==
    ASSUME SchemaType, NEW o, Drop(o)
    PROVE  SchemaType'
  BY DEF SchemaType, Drop

\* Crossing something off a plan leaves a plan that drops no more (reconcileSchema).
LEMMA ShrunkPlans ==
    ASSUME NEW pl \in Plans, NEW y
    PROVE  /\ LET q == [pl EXCEPT !.dropViews = @ \ {y}]
              IN  q \in Plans /\ q.dropTables \subseteq pl.dropTables /\ q.dropColumns \subseteq pl.dropColumns
           /\ LET q == [pl EXCEPT !.dropTables = @ \ {y}]
              IN  q \in Plans /\ q.dropTables \subseteq pl.dropTables /\ q.dropColumns \subseteq pl.dropColumns
           /\ LET q == [pl EXCEPT !.addColumns = @ \ {y}]
              IN  q \in Plans /\ q.dropTables \subseteq pl.dropTables /\ q.dropColumns \subseteq pl.dropColumns
           /\ LET q == [pl EXCEPT !.dropColumns = @ \ {y}]
              IN  q \in Plans /\ q.dropTables \subseteq pl.dropTables /\ q.dropColumns \subseteq pl.dropColumns
<1>1. LET q == [pl EXCEPT !.dropViews = @ \ {y}]
      IN  q \in Plans /\ q.dropTables \subseteq pl.dropTables /\ q.dropColumns \subseteq pl.dropColumns
  BY DEF Plans
<1>2. LET q == [pl EXCEPT !.dropTables = @ \ {y}]
      IN  q \in Plans /\ q.dropTables \subseteq pl.dropTables /\ q.dropColumns \subseteq pl.dropColumns
  BY DEF Plans
<1>3. LET q == [pl EXCEPT !.addColumns = @ \ {y}]
      IN  q \in Plans /\ q.dropTables \subseteq pl.dropTables /\ q.dropColumns \subseteq pl.dropColumns
  BY DEF Plans
<1>4. LET q == [pl EXCEPT !.dropColumns = @ \ {y}]
      IN  q \in Plans /\ q.dropTables \subseteq pl.dropTables /\ q.dropColumns \subseteq pl.dropColumns
  BY DEF Plans
<1> QED
  BY <1>1, <1>2, <1>3, <1>4

\* A step that crosses something off the running plan.
LEMMA PlanProgress ==
    ASSUME MigrationInv, NEW p \in Procs, pc[p] = "reconcile", NEW q \in Plans,
           q.dropTables \subseteq plan[p].dropTables,
           q.dropColumns \subseteq plan[p].dropColumns,
           plan' = [plan EXCEPT ![p] = q], SchemaType',
           UNCHANGED <<ledger, platform, pc, build, applied, file, stmt, seen>>
    PROVE  MigrationInv'
<1>1. TypeOK'
  BY DEF MigrationInv, TypeOK, SchemaType, platform
<1>2. PlanKeepsProtected'
  BY DEF MigrationInv, TypeOK, PlanKeepsProtected
<1> QED
  BY <1>1, <1>2 DEF MigrationInv

LEMMA NextMigrationInv == MigrationInv /\ [Next]_vars => MigrationInv'
<1> SUFFICES ASSUME MigrationInv, [Next]_vars PROVE MigrationInv'
  OBVIOUS
<1> USE DEF MigrationInv
<1>t. SchemaType
  BY DEF TypeOK, SchemaType
<1>1. ASSUME NEW p \in Procs, Start(p) PROVE MigrationInv'
  BY <1>1 DEF Start, TypeOK, PCs, PlanKeepsProtected, Goto, database, platform
<1>2. ASSUME NEW p \in Procs, LoadLedger(p) PROVE MigrationInv'
  BY <1>2 DEF LoadLedger, TypeOK, PCs, PlanKeepsProtected, Goto, database, platform
<1>3. ASSUME NEW p \in Procs, SkipApplied(p) PROVE MigrationInv'
  BY <1>3 DEF SkipApplied, AtFile, NextFile, TypeOK, PlanKeepsProtected, database, platform
<1>4. ASSUME NEW p \in Procs, ApplyStatement(p) PROVE MigrationInv'
  <2>1. CurrentFile(p)[stmt[p]] \in StmtsSet
    BY <1>4, CurrentStatement DEF ApplyStatement
  <2>2. SchemaType'
    <3> DEFINE s == CurrentFile(p)[stmt[p]]
    <3>1. CASE ExecCreate(s)
      BY <3>1, <2>1, <1>t DEF ExecCreate, SchemaType, StmtsSet
    <3>2. CASE Drop(s.obj)
      BY <3>2, <1>t, DropSchemaType
    <3>3. CASE UNCHANGED schema
      BY <3>3, <1>t DEF SchemaType
    <3> QED
      BY <1>4, <3>1, <3>2, <3>3 DEF ApplyStatement
  <2> QED
    BY <1>4, <2>2 DEF ApplyStatement, AtFile, TypeOK, SchemaType, PlanKeepsProtected, platform
<1>5. ASSUME NEW p \in Procs, RecordMigration(p) PROVE MigrationInv'
  BY <1>5 DEF RecordMigration, AtFile, NextFile, TypeOK, PlanKeepsProtected, platform
<1>6. ASSUME NEW p \in Procs, BeginReconcile(p) PROVE MigrationInv'
  BY <1>6 DEF BeginReconcile, ForgetProgress, TypeOK, PCs, PlanKeepsProtected, Goto, database, platform
<1>7. ASSUME NEW p \in Procs, ReadTables(p) PROVE MigrationInv'
  BY <1>7 DEF ReadTables, TypeOK, PCs, PlanKeepsProtected, Goto, database, platform
<1>8. ASSUME NEW p \in Procs, ReadColumns(p) PROVE MigrationInv'
  <2>1. build[p] \in Builds /\ seen[p] \in SUBSET Objects
    BY DEF TypeOK
  <2> DEFINE pl == Guarded(ComputePlan(build[p], seen[p]))
  <2>2. /\ pl \in Plans /\ pl.dropTables \intersect Protected = {}
        /\ \A x \in pl.dropColumns : x[1] \notin Protected
    BY <2>1, GuardedPlan
  <2>3. plan' = plan \/ (plan' = [plan EXCEPT ![p] = pl] /\ pc' = [pc EXCEPT ![p] = "reconcile"])
    BY <1>8 DEF ReadColumns, Goto
  <2> HIDE DEF pl
  <2>4. PlanKeepsProtected'
    BY <2>2, <2>3 DEF PlanKeepsProtected, TypeOK
  <2>5. plan[p] = NoPlan
    BY <1>8 DEF ReadColumns, TypeOK
  <2>6. TypeOK'
    BY <1>8, <2>2, <2>3, <2>5 DEF ReadColumns, TypeOK, PCs, Plans, Goto, database, platform
  <2> QED
    BY <2>4, <2>6
<1>9. ASSUME NEW p \in Procs, DropView(p) PROVE MigrationInv'
  <2>1. PICK y \in plan[p].dropViews : DropViewOf(p, y)
    BY <1>9 DEF DropView
  <2> DEFINE q == [plan[p] EXCEPT !.dropViews = @ \ {y}]
  <2>2. /\ q \in Plans /\ q.dropTables \subseteq plan[p].dropTables
        /\ q.dropColumns \subseteq plan[p].dropColumns
    <3>1. plan[p] \in Plans
      BY DEF TypeOK
    <3> QED
      BY <3>1, ShrunkPlans
  <2>3. plan' = [plan EXCEPT ![p] = q]
    BY <2>1 DEF DropViewOf, TypeOK
  <2>4. SchemaType'
    BY <2>1, <1>t, DropSchemaType DEF DropViewOf
  <2> QED
    BY <2>1, <2>2, <2>3, <2>4, PlanProgress DEF DropViewOf
<1>10. ASSUME NEW p \in Procs, DropTable(p) PROVE MigrationInv'
  <2>1. PICK y \in plan[p].dropTables : DropTableOf(p, y)
    BY <1>10 DEF DropTable
  <2> DEFINE q == [plan[p] EXCEPT !.dropTables = @ \ {y}]
  <2>2. /\ q \in Plans /\ q.dropTables \subseteq plan[p].dropTables
        /\ q.dropColumns \subseteq plan[p].dropColumns
    <3>1. plan[p] \in Plans
      BY DEF TypeOK
    <3> QED
      BY <3>1, ShrunkPlans
  <2>3. plan' = [plan EXCEPT ![p] = q]
    BY <2>1 DEF DropTableOf, TypeOK
  <2>4. SchemaType'
    BY <2>1, <1>t, DropSchemaType DEF DropTableOf
  <2> QED
    BY <2>1, <2>2, <2>3, <2>4, PlanProgress DEF DropTableOf
<1>11. ASSUME NEW p \in Procs, AddColumn(p) PROVE MigrationInv'
  <2>1. PICK y \in plan[p].addColumns : AddColumnOf(p, y)
    BY <1>11 DEF AddColumn
  <2> DEFINE q == [plan[p] EXCEPT !.addColumns = @ \ {y}]
  <2>2. /\ q \in Plans /\ q.dropTables \subseteq plan[p].dropTables
        /\ q.dropColumns \subseteq plan[p].dropColumns
    <3>1. plan[p] \in Plans
      BY DEF TypeOK
    <3> QED
      BY <3>1, ShrunkPlans
  <2>3. plan' = [plan EXCEPT ![p] = q]
    BY <2>1 DEF AddColumnOf, TypeOK
  <2>4. SchemaType'
    BY <2>1, <1>t DEF AddColumnOf, SchemaType, TypeOK, Plans
  <2> QED
    BY <2>1, <2>2, <2>3, <2>4, PlanProgress DEF AddColumnOf
<1>12. ASSUME NEW p \in Procs, DropColumn(p) PROVE MigrationInv'
  <2>1. PICK y \in plan[p].dropColumns : DropColumnOf(p, y)
    BY <1>12 DEF DropColumn
  <2> DEFINE q == [plan[p] EXCEPT !.dropColumns = @ \ {y}]
  <2>2. /\ q \in Plans /\ q.dropTables \subseteq plan[p].dropTables
        /\ q.dropColumns \subseteq plan[p].dropColumns
    <3>1. plan[p] \in Plans
      BY DEF TypeOK
    <3> QED
      BY <3>1, ShrunkPlans
  <2>3. plan' = [plan EXCEPT ![p] = q]
    BY <2>1 DEF DropColumnOf, TypeOK
  <2>4. SchemaType'
    BY <2>1, <1>t DEF DropColumnOf, SchemaType, TypeOK, Plans
  <2> QED
    BY <2>1, <2>2, <2>3, <2>4, PlanProgress DEF DropColumnOf
<1>13. ASSUME NEW p \in Procs, FinishReconcile(p) PROVE MigrationInv'
  BY <1>13 DEF FinishReconcile, TypeOK, PCs, PlanKeepsProtected, Goto, database, platform, locals
<1>14. ASSUME NEW p \in Procs, Replace(p) PROVE MigrationInv'
  BY <1>14, NoPlanType DEF Replace, ForgetLocals, ForgetProgress, TypeOK, PCs,
        PlanKeepsProtected, Goto, database, platform, NoPlan, Plans
<1>15. ASSUME NEW p \in Procs, Fail(p) PROVE MigrationInv'
  BY <1>15, NoPlanType, NamesAssumption DEF Fail, ForgetLocals, ForgetProgress, TypeOK, PCs,
        PlanKeepsProtected, Goto, database, NoPlan, Plans
<1>16. ASSUME NEW v \in Builds, Deploy(v) PROVE MigrationInv'
  BY <1>16, NamesAssumption DEF Deploy, TypeOK, PlanKeepsProtected, database, locals
<1>17. CASE UNCHANGED vars
  BY <1>17 DEF vars, database, platform, locals, TypeOK, PlanKeepsProtected
<1> QED
  BY <1>1, <1>2, <1>3, <1>4, <1>5, <1>6, <1>7, <1>8, <1>9, <1>10, <1>11, <1>12, <1>13,
     <1>14, <1>15, <1>16, <1>17 DEF Next, Migrate

-----------------------------------------------------------------------------
\* A protected table and its columns are still there after a step.
Kept == \A t \in Protected \intersect DOMAIN schema :
    t \in DOMAIN schema' /\ schema[t] \subseteq schema'[t]

LEMMA NextKept == MigrationInv /\ [Next]_vars => Kept
<1> SUFFICES ASSUME MigrationInv, [Next]_vars PROVE Kept
  OBVIOUS
<1> USE DEF MigrationInv
<1>1. ASSUME NEW p \in Procs, ApplyStatement(p) PROVE Kept
  <2> DEFINE s == CurrentFile(p)[stmt[p]]
  <2>1. s.op = "drop" => s.obj \notin Protected
    BY <1>1, CurrentStatement DEF ApplyStatement
  <2>2. CASE s.op = "create" /\ ExecCreate(s)
    BY <2>2 DEF ExecCreate, Kept
  <2>3. CASE s.op = "drop" /\ Drop(s.obj)
    BY <2>1, <2>3 DEF Drop, Kept
  <2>4. CASE UNCHANGED schema
    BY <2>4 DEF Kept
  <2> QED
    BY <1>1, <2>2, <2>3, <2>4 DEF ApplyStatement
<1>2. ASSUME NEW p \in Procs, DropView(p) PROVE Kept
  <2>1. PICK y \in plan[p].dropViews : DropViewOf(p, y)
    BY <1>2 DEF DropView
  <2> QED
    BY <2>1, NamesAssumption DEF DropViewOf, Drop, Kept, TypeOK, Plans
<1>3. ASSUME NEW p \in Procs, DropTable(p) PROVE Kept
  <2>1. PICK y \in plan[p].dropTables : DropTableOf(p, y)
    BY <1>3 DEF DropTable
  <2> QED
    BY <2>1 DEF DropTableOf, Drop, Kept, PlanKeepsProtected
<1>4. ASSUME NEW p \in Procs, AddColumn(p) PROVE Kept
  <2>1. PICK y \in plan[p].addColumns : AddColumnOf(p, y)
    BY <1>4 DEF AddColumn
  <2> QED
    BY <2>1 DEF AddColumnOf, Kept
<1>5. ASSUME NEW p \in Procs, DropColumn(p) PROVE Kept
  <2>1. PICK y \in plan[p].dropColumns : DropColumnOf(p, y)
    BY <1>5 DEF DropColumn
  <2> QED
    BY <2>1 DEF DropColumnOf, Kept, PlanKeepsProtected
<1>6. CASE UNCHANGED schema
  BY <1>6 DEF Kept
<1> QED
  BY <1>1, <1>2, <1>3, <1>4, <1>5, <1>6
  DEF Next, Migrate, Start, LoadLedger, SkipApplied, RecordMigration, BeginReconcile,
      ReadTables, ReadColumns, FinishReconcile, Replace, Fail, Deploy, vars, database

-----------------------------------------------------------------------------
LEMMA MigrationInvariant == Spec => []MigrationInv
  BY InitMigrationInv, NextMigrationInv, PTL DEF Spec

\* Type correctness: the running plan only names views, tables and columns, and
\* exists only while a process reconciles.
THEOREM MigrationTypes == Spec => []TypeOK
<1>1. MigrationInv => TypeOK
  BY DEF MigrationInv
<1> QED
  BY <1>1, MigrationInvariant, PTL

\* Raw ingested tables and their columns survive every step of every migrator,
\* for every build, rollback, crash and interleaving (schema_reconcile.go:11).
THEOREM MigrationKeepsProtected == Spec => ProtectedSurvives
<1>1. MigrationInv /\ [Next]_vars => [Kept]_vars
  BY NextKept
<1> QED
  BY <1>1, MigrationInvariant, PTL DEF Spec, ProtectedSurvives, Kept

-----------------------------------------------------------------------------
(* What no build declares *)

\* Process p has an object o that build w does not declare still to come across.
WillStrip(p, w, o) ==
    \/ build[p] # w \/ pc[p] \in {"down", "ledger", "apply", "tables"}
    \/ pc[p] = "columns" /\ o \in seen[p]
    \/ pc[p] = "reconcile" /\ o \in plan[p].dropViews \union plan[p].dropTables

\* Nothing undeclared is left without a process that will drop it.
StrayInv ==
    \A o \in DOMAIN schema \ Protected, w \in Builds :
        o \in Declared(w) \/ \E p \in Procs : WillStrip(p, w, o)

\* The others stay as they are, and q keeps what it has still to strip.
LEMMA StrayStep ==
    ASSUME StrayInv, NEW q \in Procs,
           \A p \in Procs \ {q} : /\ pc'[p] = pc[p] /\ build'[p] = build[p]
                                  /\ seen'[p] = seen[p] /\ plan'[p] = plan[p],
           \A o \in DOMAIN schema' \ Protected, w \in Builds :
               o \notin Declared(w) /\ (WillStrip(q, w, o) \/ o \notin DOMAIN schema) => WillStrip(q, w, o)'
    PROVE  StrayInv'
<1> SUFFICES ASSUME NEW o \in DOMAIN schema' \ Protected, NEW w \in Builds, o \notin Declared(w)
             PROVE  \E p \in Procs : WillStrip(p, w, o)'
  BY DEF StrayInv, Declared
<1>1. CASE o \notin DOMAIN schema
  BY <1>1
<1>2. CASE o \in DOMAIN schema
  <2>1. PICK p \in Procs : WillStrip(p, w, o)
    BY <1>2 DEF StrayInv
  <2>2. CASE p = q
    BY <2>1, <2>2
  <2>3. CASE p # q
    BY <2>1, <2>3 DEF WillStrip
  <2> QED
    BY <2>2, <2>3
<1> QED
  BY <1>1, <1>2

\* Every step of a migrator or a deployment leaves as stray only what a reconciler has
\* still to strip.
LEMMA StrayNext ==
    ASSUME MigrationInv, StrayInv, Mode = "on", [Next]_vars
    PROVE  StrayInv'
<1>t. TypeOK
  BY DEF MigrationInv
<1>1. ASSUME NEW q \in Procs,
             Start(q) \/ LoadLedger(q) \/ SkipApplied(q) \/ ApplyStatement(q) \/ RecordMigration(q)
                 \/ BeginReconcile(q) \/ Replace(q) \/ Fail(q)
      PROVE  StrayInv'
  <2>1. pc'[q] \in {"down", "ledger", "apply", "tables"}
    BY <1>t, <1>1, NamesAssumption DEF Start, LoadLedger, SkipApplied, ApplyStatement, RecordMigration, BeginReconcile, Replace,
        Fail, AtFile, Goto, TypeOK
  <2>2. \A p \in Procs \ {q} : /\ pc'[p] = pc[p] /\ build'[p] = build[p]
                               /\ seen'[p] = seen[p] /\ plan'[p] = plan[p]
    BY <1>t, <1>1 DEF Start, LoadLedger, SkipApplied, ApplyStatement, RecordMigration, BeginReconcile, Replace,
        Fail, Goto, ForgetLocals, TypeOK
  <2> QED
    BY <2>1, <2>2, StrayStep DEF WillStrip
<1>2. ASSUME NEW q \in Procs, ReadTables(q) PROVE StrayInv'
  <2>1. /\ pc' = [pc EXCEPT ![q] = "columns"] /\ seen' = [seen EXCEPT ![q] = DOMAIN schema]
        /\ schema' = schema /\ build' = build /\ plan' = plan
    BY <1>2 DEF ReadTables, Goto, database
  <2>2. \A o \in DOMAIN schema', w \in Builds : WillStrip(q, w, o)'
    BY <1>t, <2>1 DEF WillStrip, TypeOK
  <2> QED
    BY <1>t, <2>1, <2>2, StrayStep DEF TypeOK
<1>3. ASSUME NEW q \in Procs, ReadColumns(q) PROVE StrayInv'
  <2> DEFINE pl == Guarded(ComputePlan(build[q], seen[q]))
  <2>1. /\ pc[q] = "columns" /\ pc' = [pc EXCEPT ![q] = "reconcile"] /\ schema' = schema /\ build' = build
        /\ plan' = [plan EXCEPT ![q] = pl] /\ seen' = [seen EXCEPT ![q] = {}]
    BY <1>3 DEF ReadColumns, Goto, database
  <2>2. pl.dropViews \union pl.dropTables = {o \in seen[q] \intersect Objects : o \notin Declared(build[q])
                                                /\ (o \in Tables => o \notin Protected)}
    BY NamesAssumption DEF Guarded, ComputePlan, Objects
  <2> HIDE DEF pl
  <2>3. ASSUME NEW o \in DOMAIN schema' \ Protected, NEW w \in Builds, o \notin Declared(w),
               WillStrip(q, w, o) \/ o \notin DOMAIN schema
        PROVE  WillStrip(q, w, o)'
    <3>1. o \in Objects /\ pc'[q] = "reconcile" /\ plan'[q] = pl /\ build'[q] = build[q]
      BY <1>t, <2>1, <2>3 DEF TypeOK
    <3>2. build[q] # w \/ o \in seen[q]
      BY <2>1, <2>3 DEF WillStrip
    <3> QED
      BY <2>2, <2>3, <3>1, <3>2 DEF WillStrip
  <2>4. \A p \in Procs \ {q} : /\ pc'[p] = pc[p] /\ build'[p] = build[p]
                               /\ seen'[p] = seen[p] /\ plan'[p] = plan[p]
    BY <1>t, <2>1 DEF TypeOK
  <2> QED
    BY <2>3, <2>4, StrayStep
<1>4. ASSUME NEW q \in Procs, NEW o, Drop(o), NEW pl, plan' = [plan EXCEPT ![q] = pl],
             plan[q].dropViews \union plan[q].dropTables \subseteq pl.dropViews \union pl.dropTables \union {o},
             UNCHANGED <<pc, build, seen>>
      PROVE  StrayInv'
  <2>1. plan'[q] = pl /\ \A p \in Procs \ {q} : plan'[p] = plan[p]
    BY <1>t, <1>4 DEF TypeOK
  <2>2. DOMAIN schema' = DOMAIN schema \ {o}
    BY <1>4 DEF Drop
  <2> QED
    BY <1>4, <2>1, <2>2, StrayStep DEF WillStrip
<1>5. ASSUME NEW q \in Procs, DropView(q) PROVE StrayInv'
  <2>1. PICK y \in plan[q].dropViews : DropViewOf(q, y)
    BY <1>5 DEF DropView
  <2>2. plan[q] \in Plans
    BY <1>t DEF TypeOK
  <2> DEFINE pl == [plan[q] EXCEPT !.dropViews = @ \ {y}]
  <2>3. plan' = [plan EXCEPT ![q] = pl] /\ Drop(y) /\ UNCHANGED <<pc, build, seen>>
    BY <2>1 DEF DropViewOf
  <2>4. plan[q].dropViews \union plan[q].dropTables \subseteq pl.dropViews \union pl.dropTables \union {y}
    BY <2>2 DEF Plans
  <2> HIDE DEF pl
  <2> QED
    BY <1>4, <2>3, <2>4
<1>6. ASSUME NEW q \in Procs, DropTable(q) PROVE StrayInv'
  <2>1. PICK y \in plan[q].dropTables : DropTableOf(q, y)
    BY <1>6 DEF DropTable
  <2>2. plan[q] \in Plans
    BY <1>t DEF TypeOK
  <2> DEFINE pl == [plan[q] EXCEPT !.dropTables = @ \ {y}]
  <2>3. plan' = [plan EXCEPT ![q] = pl] /\ Drop(y) /\ UNCHANGED <<pc, build, seen>>
    BY <2>1 DEF DropTableOf
  <2>4. plan[q].dropViews \union plan[q].dropTables \subseteq pl.dropViews \union pl.dropTables \union {y}
    BY <2>2 DEF Plans
  <2> HIDE DEF pl
  <2> QED
    BY <1>4, <2>3, <2>4
<1>7. ASSUME NEW q \in Procs, AddColumn(q) \/ DropColumn(q) PROVE StrayInv'
  <2>1. DOMAIN schema' = DOMAIN schema /\ UNCHANGED <<pc, build, seen>>
    BY <1>7 DEF AddColumn, AddColumnOf, DropColumn, DropColumnOf
  <2>2. /\ \A p \in Procs \ {q} : plan'[p] = plan[p]
        /\ plan'[q].dropViews = plan[q].dropViews /\ plan'[q].dropTables = plan[q].dropTables
    BY <1>t, <1>7 DEF AddColumn, AddColumnOf, DropColumn, DropColumnOf, TypeOK, Plans
  <2> QED
    BY <2>1, <2>2, StrayStep DEF WillStrip
<1>8. ASSUME NEW q \in Procs, FinishReconcile(q) PROVE StrayInv'
  <2>1. /\ pc[q] = "reconcile" /\ plan[q] = NoPlan /\ pc' = [pc EXCEPT ![q] = "up"]
        /\ UNCHANGED <<schema, build, seen, plan>>
    BY <1>8 DEF FinishReconcile, Goto, database, locals
  <2>2. \A w \in Builds, o \in DOMAIN schema : WillStrip(q, w, o) => build[q] # w
    BY <2>1 DEF WillStrip, NoPlan
  <2> QED
    BY <1>t, <2>1, <2>2, StrayStep DEF WillStrip, TypeOK
<1>9. CASE (\E v \in Builds : Deploy(v)) \/ UNCHANGED vars
  <2>1. UNCHANGED <<schema, pc, build, seen, plan>>
    BY <1>9 DEF Deploy, vars, database, locals
  <2> QED
    BY <2>1 DEF StrayInv, WillStrip
<1> QED
  BY <1>1, <1>2, <1>3, <1>5, <1>6, <1>7, <1>8, <1>9 DEF Next, Migrate

\* Once every process is up with the deployed build, nothing undeclared is left but
\* protected tables, for any number of processes, whatever old and new builds created and
\* dropped between the reads and the drops of each other's reconcilers, in any sequence of
\* deployments and rollbacks (schema_reconcile.go:306).
THEOREM MigrationStripsUndeclared == Spec => []UndeclaredStripped
<1>1. CASE Mode # "on"
  <2>1. UndeclaredStripped
    BY <1>1 DEF UndeclaredStripped
  <2> QED
    BY <2>1, PTL
<1>2. CASE Mode = "on"
  <2>1. Init => StrayInv
    BY DEF Init, StrayInv
  <2>2. MigrationInv /\ StrayInv /\ [Next]_vars => StrayInv'
    BY <1>2, StrayNext
  <2>3. MigrationInv /\ StrayInv => UndeclaredStripped
    BY DEF MigrationInv, TypeOK, StrayInv, WillStrip, UndeclaredStripped, Settled
  <2> QED
    BY <2>1, <2>2, <2>3, MigrationInvariant, PTL DEF Spec
<1> QED
  BY <1>1, <1>2

-----------------------------------------------------------------------------
(* What a build declares *)

\* An object that a build declares is there, or a file that is still to be applied creates it.
Creatable(v) ==
    \A o \in Declared(v) \ DOMAIN schema : \E f \in Names(v) \ ledger : o \in Creates(v, f)

\* While p applies its files: what it has recorded, and what of the file it is at exists.
ApplyInv(p) ==
    /\ file[p] <= Len(FilesOf[build[p]]) + 1
    /\ ledger = applied[p] \union {FilesOf[build[p]][k] : k \in 1..(file[p] - 1)}
    /\ AtFile(p) /\ CurrentName(p) \notin applied[p] =>
        \A o \in Creates(build[p], CurrentName(p)) : o \in DOMAIN schema \/
            \E i \in DOMAIN CurrentFile(p) : i >= stmt[p] /\ CreatesAt(build[p], CurrentName(p), i, o)

\* While p reconciles: its plan adds what is missing and takes nothing declared away.
ReconcileInv(p) ==
    /\ (plan[p].dropViews \union plan[p].dropTables) \intersect Declared(build[p]) = {}
    /\ \A t \in Declared(build[p]) \intersect Tables : \A c \in Desired[build[p]][t] :
        /\ c \in schema[t] \/ <<t, c>> \in plan[p].addColumns
        /\ <<t, c>> \notin plan[p].dropColumns

DeclaredOf(p) ==
    /\ ledger \subseteq Names(build[p]) /\ Creatable(build[p])
    /\ build[p] = deployed \/ <<build[p], deployed>> \in Deployable
    /\ pc[p] = "apply" => ApplyInv(p)
    /\ pc[p] \in {"tables", "columns", "reconcile", "up"} => Declared(build[p]) \subseteq DOMAIN schema
    /\ pc[p] = "columns" => seen[p] = DOMAIN schema
    /\ pc[p] \in {"reconcile", "up"} => ReconcileInv(p)

OneProcess == \E p \in Procs : Procs = {p}

\* A build declares what its files create.
LEMMA FilesDeclare ==
    ASSUME NEW v \in Builds
    PROVE  /\ \A f \in Names(v) : f \in DOMAIN Stmts[v] /\ Creates(v, f) \subseteq Declared(v)
           /\ \A o \in Declared(v) : o \in Objects /\ \E f \in Names(v) : o \in Creates(v, f)
<1>1. \A f \in Names(v) : f \in DOMAIN Stmts[v]
  BY FilesAssumption DEF Names
<1>2. Declared(v) = {o \in Objects : CreationsOf(v, o) # {}}
  BY DEF Declared, Desired
<1>3. ASSUME NEW f \in Names(v), NEW o \in Creates(v, f) PROVE o \in Declared(v)
  <2>1. PICK k \in DOMAIN FilesOf[v] : FilesOf[v][k] = f
    BY DEF Names
  <2>2. PICK i \in DOMAIN Stmts[v][f] : CreatesAt(v, f, i, o)
    BY DEF Creates
  <2>3. <<k, i>> \in CreationsOf(v, o)
    BY <2>1, <2>2 DEF CreationsOf, CreatesAt
  <2> QED
    BY <1>2, <2>3 DEF Creates
<1>4. ASSUME NEW o \in Declared(v) PROVE o \in Objects /\ \E f \in Names(v) : o \in Creates(v, f)
  <2>1. PICK x : x \in CreationsOf(v, o)
    BY <1>2
  <2>2. PICK k \in DOMAIN FilesOf[v] : x \in {k} \X DOMAIN Stmts[v][FilesOf[v][k]]
    BY <2>1 DEF CreationsOf
  <2>3. x[1] = k /\ x[2] \in DOMAIN Stmts[v][FilesOf[v][k]] /\ CreatesAt(v, FilesOf[v][k], x[2], o)
    BY <2>1, <2>2 DEF CreationsOf, CreatesAt
  <2> QED
    BY <1>2, <2>3 DEF Creates, Names
<1> QED
  BY <1>1, <1>3, <1>4

\* A bounded set of numbers has a largest one.
LEMMA Largest ==
    ASSUME NEW T \in SUBSET Nat, NEW n \in Nat, T # {}, \A t \in T : t <= n
    PROVE  \E t \in T : \A u \in T : u <= t
<1>1. \A t \in T : t \in Nat /\ n - t \in Nat
  OBVIOUS
<1> DEFINE D == {m \in Nat : \E t \in T : m = n - t}
<1>2. D \subseteq Nat /\ D # {}
  <2>1. PICK t \in T : TRUE
    OBVIOUS
  <2>2. n - t \in D
    BY <1>1
  <2> QED
    BY <2>2
<1>3. PICK d \in D : \A e \in D : <<e, d>> \notin OpToRel(<, Nat)
  BY <1>2, NatLessThanWellFounded, WFMin
<1>4. PICK t \in T : d = n - t
  BY <1>3
<1>5. ASSUME NEW u \in T PROVE u <= t
  <2>1. n - u \in D /\ <<n - u, d>> \notin OpToRel(<, Nat)
    BY <1>1, <1>3
  <2>2. n - u \in Nat /\ d \in Nat /\ ~(n - u < d)
    BY <1>1, <1>3, <2>1 DEF OpToRel
  <2> QED
    BY <1>1, <1>4, <2>2
<1> QED
  BY <1>5

\* The columns that the last CREATE of a table gives it are columns.
LEMMA DesiredColumns ==
    ASSUME NEW v \in Builds, NEW o \in Declared(v)
    PROVE  Desired[v][o] \subseteq Columns
<1> DEFINE C == CreationsOf(v, o)
           S(k) == Stmts[v][FilesOf[v][k]]
           K == {x[1] : x \in C}
<1>1. C # {} /\ Desired[v][o] = ColumnsOf(v, o)
  BY DEF Declared, Desired
<1>2. ASSUME NEW x \in C
      PROVE  /\ x[1] \in DOMAIN FilesOf[v] /\ x[1] \in Nat /\ x[1] <= Len(FilesOf[v])
             /\ x[2] \in DOMAIN S(x[1]) /\ x[2] \in Nat /\ x[2] <= Len(S(x[1]))
             /\ S(x[1])[x[2]] \in StmtsSet /\ x = <<x[1], x[2]>>
  <2>1. PICK k \in DOMAIN FilesOf[v] : x \in {k} \X DOMAIN Stmts[v][FilesOf[v][k]]
    BY <1>2 DEF CreationsOf
  <2>2. x[1] = k /\ x[2] \in DOMAIN S(k) /\ x = <<x[1], x[2]>>
    BY <2>1
  <2>3. FilesOf[v] \in Seq(DOMAIN Stmts[v]) /\ FilesOf[v][k] \in DOMAIN Stmts[v]
    BY <2>1, FilesAssumption
  <2>4. S(k) \in Seq(StmtsSet)
    BY <2>3, FilesAssumption
  <2> HIDE DEF S
  <2> QED
    BY <2>1, <2>2, <2>3, <2>4
<1> HIDE DEF C
<1>3. PICK k \in K : \A l \in K : l <= k
  <2>1. K \in SUBSET Nat /\ K # {} /\ Len(FilesOf[v]) \in Nat /\ \A l \in K : l <= Len(FilesOf[v])
    BY <1>1, <1>2, FilesAssumption
  <2> QED
    BY <2>1, Largest
<1> DEFINE I == {x[2] : x \in {y \in C : y[1] = k}}
<1>4. PICK i \in I : \A j \in I : j <= i
  <2>1. I # {}
    BY <1>3
  <2>2. PICK n \in Nat : \A j \in I : j \in Nat /\ j <= n
    <3>1. PICK x \in C : x[1] = k
      BY <1>3
    <3>2. FilesOf[v][k] \in DOMAIN Stmts[v]
      BY <1>2, <3>1, FilesAssumption
    <3>3. Len(S(k)) \in Nat
      BY <3>2, FilesAssumption
    <3> QED
      BY <1>2, <3>3
  <2> QED
    BY <2>1, <2>2, Largest
<1>5. <<k, i>> \in C /\ \A z \in C : Before(z, <<k, i>>)
  <2>1. PICK x \in C : x[1] = k /\ x[2] = i
    BY <1>4
  <2>2. x = <<k, i>> /\ k \in Nat /\ i \in Nat
    BY <1>2, <2>1
  <2>3. ASSUME NEW z \in C PROVE Before(z, <<k, i>>)
    <3>1. z[1] \in Nat /\ z[2] \in Nat /\ z[1] <= k
      BY <1>2, <1>3
    <3>2. z[1] = k => z[2] <= i
      BY <1>4
    <3> QED
      BY <2>2, <3>1, <3>2 DEF Before
  <2> QED
    BY <2>1, <2>2, <2>3
<1> DEFINE last == CHOOSE y \in C : \A z \in C : Before(z, y)
<1>6. last \in C
  BY <1>5
<1>7. ColumnsOf(v, o) = S(last[1])[last[2]].cols
  BY DEF ColumnsOf, C
<1> HIDE DEF last, S
<1> QED
  BY <1>1, <1>2, <1>6, <1>7 DEF StmtsSet

\* What is there to be created stays so when a later build takes over.
LEMMA CreatableForward ==
    ASSUME ForwardHistory, NEW v \in Builds, NEW w \in Builds, v = w \/ <<v, w>> \in Deployable,
           ledger \subseteq Names(v), Creatable(v)
    PROVE  ledger \subseteq Names(w) /\ Creatable(w)
<1>1. CASE v = w
  BY <1>1
<1>2. CASE <<v, w>> \in Deployable
  <2>1. Names(v) \subseteq Names(w) /\ \A f \in Names(v) : Creates(w, f) = Creates(v, f) \intersect Declared(w)
    BY <1>2 DEF ForwardHistory
  <2>2. ASSUME NEW o \in Declared(w) \ DOMAIN schema
        PROVE  \E f \in Names(w) \ ledger : o \in Creates(w, f)
    <3>1. PICK f \in Names(w) : o \in Creates(w, f)
      BY FilesDeclare
    <3>2. CASE f \notin ledger
      BY <3>1, <3>2
    <3>3. CASE f \in ledger
      <4>1. f \in Names(v) /\ o \in Creates(v, f) /\ o \in Declared(v)
        BY <2>1, <3>1, <3>3, FilesDeclare
      <4>2. PICK g \in Names(v) \ ledger : o \in Creates(v, g)
        BY <2>2, <4>1 DEF Creatable
      <4> QED
        BY <2>1, <2>2, <4>2
    <3> QED
      BY <3>2, <3>3
  <2> QED
    BY <2>1, <2>2 DEF Creatable
<1> QED
  BY <1>1, <1>2

\* Where p is in its files.
LEMMA AtAFile ==
    ASSUME TypeOK, NEW p \in Procs, AtFile(p)
    PROVE  /\ file[p] \in DOMAIN FilesOf[build[p]] /\ build[p] \in Builds /\ stmt[p] \in Nat \ {0}
           /\ CurrentName(p) \in Names(build[p]) /\ CurrentFile(p) \in Seq(StmtsSet)
           /\ CurrentFile(p) = Stmts[build[p]][CurrentName(p)]
<1>1. build[p] \in Builds /\ file[p] \in Nat \ {0} /\ stmt[p] \in Nat \ {0}
  BY DEF TypeOK
<1>2. FilesOf[build[p]] \in Seq(DOMAIN Stmts[build[p]])
  BY <1>1, FilesAssumption
<1>3. file[p] \in DOMAIN FilesOf[build[p]]
  BY <1>1, <1>2 DEF AtFile
<1>4. CurrentName(p) \in Names(build[p]) /\ CurrentName(p) \in DOMAIN Stmts[build[p]]
  BY <1>2, <1>3 DEF CurrentName, Names
<1> QED
  BY <1>1, <1>3, <1>4, FilesAssumption DEF CurrentFile

\* At its first statement, a file has all its CREATEs still to come.
LEMMA FirstStatement ==
    ASSUME NEW v \in Builds, NEW f \in Names(v), NEW o \in Creates(v, f)
    PROVE  \E i \in DOMAIN Stmts[v][f] : i >= 1 /\ CreatesAt(v, f, i, o)
<1>1. Stmts[v][f] \in Seq(StmtsSet)
  BY FilesDeclare, FilesAssumption
<1>2. PICK i \in DOMAIN Stmts[v][f] : CreatesAt(v, f, i, o)
  BY DEF Creates
<1> QED
  BY <1>1, <1>2

\* p goes on to its next file, the last one being recorded.
LEMMA NextFileKeeps ==
    ASSUME TypeOK, NEW p \in Procs, DeclaredOf(p), AtFile(p), NextFile(p),
           UNCHANGED <<schema, platform, pc, build, applied>>,
           ledger' = ledger \union {CurrentName(p)},
           CurrentName(p) \in applied[p] \/ \A o \in Creates(build[p], CurrentName(p)) : o \in DOMAIN schema
    PROVE  DeclaredOf(p)'
<1>1. /\ file[p] \in DOMAIN FilesOf[build[p]] /\ build[p] \in Builds
      /\ CurrentName(p) \in Names(build[p]) /\ pc[p] = "apply" /\ ApplyInv(p)
  BY AtAFile DEF AtFile, DeclaredOf
<1>2. file'[p] = file[p] + 1 /\ stmt'[p] = 1 /\ file[p] \in Nat \ {0} /\ FilesOf[build[p]] \in Seq(DOMAIN Stmts[build[p]])
  BY <1>1, FilesAssumption DEF NextFile, TypeOK
<1>3. Creatable(build[p])'
  <2> SUFFICES ASSUME NEW o \in Declared(build[p]) \ DOMAIN schema
               PROVE  \E f \in Names(build[p]) \ ledger' : o \in Creates(build[p], f)
    BY DEF Creatable
  <2>1. PICK f \in Names(build[p]) \ ledger : o \in Creates(build[p], f)
    BY DEF DeclaredOf, Creatable
  <2>2. f # CurrentName(p)
    BY <1>1, <2>1 DEF ApplyInv
  <2> QED
    BY <2>1, <2>2
<1>4. ApplyInv(p)'
  <2>1. file'[p] <= Len(FilesOf[build[p]]) + 1
    BY <1>1, <1>2
  <2>2. {FilesOf[build[p]][k] : k \in 1..(file'[p] - 1)}
            = {FilesOf[build[p]][k] : k \in 1..(file[p] - 1)} \union {CurrentName(p)}
    <3>1. 1..(file'[p] - 1) = 1..(file[p] - 1) \union {file[p]}
      BY <1>2
    <3> QED
      BY <3>1 DEF CurrentName
  <2>3. ledger' = applied[p] \union {FilesOf[build[p]][k] : k \in 1..(file'[p] - 1)}
    BY <1>1, <2>2 DEF ApplyInv
  <2>4. ASSUME AtFile(p)', NEW o \in Creates(build[p], CurrentName(p)')
        PROVE  \E i \in DOMAIN CurrentFile(p)' : i >= stmt'[p] /\ CreatesAt(build[p], CurrentName(p)', i, o)
    <3>1. file'[p] \in DOMAIN FilesOf[build[p]] /\ CurrentName(p)' = FilesOf[build[p]][file'[p]]
      BY <1>2, <2>4 DEF AtFile, CurrentName
    <3>2. CurrentName(p)' \in Names(build[p]) /\ CurrentFile(p)' = Stmts[build[p]][CurrentName(p)']
      BY <3>1 DEF Names, CurrentFile
    <3> HIDE DEF Creates
    <3> QED
      BY <1>1, <1>2, <2>4, <3>2, FirstStatement
  <2> QED
    BY <2>1, <2>3, <2>4 DEF ApplyInv
<1>5. ledger' \subseteq Names(build[p])
  BY <1>1 DEF DeclaredOf
<1> QED
  BY <1>1, <1>3, <1>4, <1>5 DEF DeclaredOf, platform

\* A statement of a file that is not in the ledger: what it drops comes again.
LEMMA StatementKeeps ==
    ASSUME TypeOK, ForwardHistory, NEW p \in Procs, DeclaredOf(p), ApplyStatement(p)
    PROVE  DeclaredOf(p)'
<1> DEFINE v == build[p]
           f == CurrentName(p)
           n == stmt[p]
           st == CurrentFile(p)[n]
<1>1. /\ AtFile(p) /\ f \notin applied[p] /\ n <= Len(CurrentFile(p))
      /\ \/ st.op = "create" /\ ExecCreate(st)
         \/ st.op = "drop" /\ Drop(st.obj)
         \/ st.op = "use" /\ schema' = schema
      /\ stmt' = [stmt EXCEPT ![p] = n + 1]
      /\ UNCHANGED <<ledger, platform, pc, build, applied, file, seen, plan>>
  BY DEF ApplyStatement
<1>2. /\ file[p] \in DOMAIN FilesOf[v] /\ v \in Builds /\ n \in Nat \ {0}
      /\ f \in Names(v) /\ CurrentFile(p) \in Seq(StmtsSet) /\ CurrentFile(p) = Stmts[v][f] /\ pc[p] = "apply"
  BY <1>1, AtAFile DEF AtFile
<1>3. n \in DOMAIN CurrentFile(p) /\ st \in StmtsSet
  BY <1>1, <1>2
<1>4. f \notin ledger
  <2>1. ledger = applied[p] \union {FilesOf[v][k] : k \in 1..(file[p] - 1)}
    BY <1>2 DEF DeclaredOf, ApplyInv
  <2>2. ASSUME NEW k \in 1..(file[p] - 1), FilesOf[v][k] = f PROVE FALSE
    <3>1. k \in DOMAIN FilesOf[v] /\ file[p] \in Nat
      BY <1>2, FilesAssumption DEF TypeOK
    <3>2. FilesOf[v][file[p]] = f
      BY DEF CurrentName
    <3> QED
      BY <1>2, <2>2, <3>1, <3>2 DEF ForwardHistory
  <2> QED
    BY <1>1, <2>1, <2>2
<1>5. stmt'[p] = n + 1
  BY <1>1 DEF TypeOK
<1>6. /\ CurrentName(p)' = f /\ CurrentFile(p)' = CurrentFile(p) /\ AtFile(p)'
  BY <1>1 DEF CurrentName, CurrentFile, AtFile
<1>7. ASSUME NEW o \in Creates(v, f), o \notin DOMAIN schema'
      PROVE  \E i \in DOMAIN CurrentFile(p) : i >= n + 1 /\ CreatesAt(v, f, i, o)
  <2>1. o \in DOMAIN schema \/ \E i \in DOMAIN CurrentFile(p) : i >= n /\ CreatesAt(v, f, i, o)
    BY <1>1, <1>2 DEF DeclaredOf, ApplyInv
  <2>2. CASE o \in DOMAIN schema
    <3>1. st.op = "drop" /\ st.obj = o
      BY <1>1, <1>7, <2>2 DEF ExecCreate, Drop
    <3>2. PICK j \in DOMAIN Stmts[v][f] : j > n /\ CreatesAt(v, f, j, o)
      BY <1>2, <1>3, <3>1, FilesDeclare DEF ForwardHistory, RebuildsWhatItDrops
    <3> QED
      BY <1>2, <3>2
  <2>3. CASE o \notin DOMAIN schema
    <3>1. PICK i \in DOMAIN CurrentFile(p) : i >= n /\ CreatesAt(v, f, i, o)
      BY <2>1, <2>3
    <3>2. i # n
      BY <1>1, <1>2, <1>7, <3>1 DEF CreatesAt, ExecCreate
    <3> QED
      BY <1>2, <3>1, <3>2
  <2> QED
    BY <2>2, <2>3
<1>8. Creatable(v)'
  <2> SUFFICES ASSUME NEW o \in Declared(v) \ DOMAIN schema'
               PROVE  \E g \in Names(v) \ ledger : o \in Creates(v, g)
    BY <1>1 DEF Creatable
  <2>1. CASE o \notin DOMAIN schema
    BY <2>1 DEF DeclaredOf, Creatable
  <2>2. CASE o \in DOMAIN schema
    <3>1. st.op = "drop" /\ st.obj = o
      BY <1>1, <2>2 DEF ExecCreate, Drop
    <3>2. PICK j \in DOMAIN Stmts[v][f] : CreatesAt(v, f, j, o)
      BY <1>2, <1>3, <3>1 DEF ForwardHistory, RebuildsWhatItDrops
    <3>3. o \in Creates(v, f)
      BY <1>2, <3>2, FilesDeclare DEF Creates
    <3> QED
      BY <1>2, <1>4, <3>3
  <2> QED
    BY <2>1, <2>2
<1>9. ApplyInv(p)'
  <2> HIDE DEF v, f, n
  <2>1. /\ file[p] <= Len(FilesOf[v]) + 1
        /\ ledger = applied[p] \union {FilesOf[v][k] : k \in 1..(file[p] - 1)}
    BY <1>2 DEF DeclaredOf, ApplyInv, v
  <2> QED
    BY <1>1, <1>5, <1>6, <1>7, <2>1 DEF ApplyInv, v, f, n
<1> QED
  BY <1>1, <1>2, <1>8, <1>9 DEF DeclaredOf, platform

\* The plan that p computes on the schema as it is.
LEMMA PlanKeepsDeclared ==
    ASSUME TypeOK, NEW v \in Builds, Declared(v) \subseteq DOMAIN schema
    PROVE  LET pl == Guarded(ComputePlan(v, DOMAIN schema)) IN
             /\ (pl.dropViews \union pl.dropTables) \intersect Declared(v) = {}
             /\ \A t \in Declared(v) \intersect Tables : \A c \in Desired[v][t] :
                  /\ c \in schema[t] \/ <<t, c>> \in pl.addColumns
                  /\ <<t, c>> \notin pl.dropColumns
<1> DEFINE cp == ComputePlan(v, DOMAIN schema)
           pl == Guarded(cp)
           kept == DOMAIN schema \intersect Declared(v) \intersect Tables
           actual(t) == IF t \in DOMAIN schema THEN schema[t] ELSE {}
<1>1. /\ cp.dropViews = (DOMAIN schema \intersect Views) \ Declared(v)
      /\ cp.dropTables = (DOMAIN schema \intersect Tables) \ Declared(v)
      /\ cp.addColumns = {x \in kept \X Columns : x[2] \in Desired[v][x[1]] /\ x[2] \notin actual(x[1])}
      /\ cp.dropColumns = {x \in kept \X Columns : x[2] \notin Desired[v][x[1]] /\ x[2] \in actual(x[1])}
      /\ cp = [dropViews |-> cp.dropViews, dropTables |-> cp.dropTables,
               addColumns |-> cp.addColumns, dropColumns |-> cp.dropColumns]
  BY DEF ComputePlan
<1> HIDE DEF cp
<1>2. /\ pl.dropViews = cp.dropViews /\ pl.dropTables \subseteq cp.dropTables
      /\ pl.addColumns = cp.addColumns /\ pl.dropColumns \subseteq cp.dropColumns
  BY <1>1 DEF Guarded
<1> HIDE DEF pl
<1>3. ASSUME NEW t \in Declared(v) \intersect Tables, NEW c \in Desired[v][t]
      PROVE  c \in schema[t] \/ <<t, c>> \in pl.addColumns
  <2>1. c \in Columns /\ t \in kept /\ actual(t) = schema[t]
    BY <1>3, DesiredColumns
  <2> QED
    BY <1>1, <1>2, <1>3, <2>1
<1>4. ASSUME NEW t \in Declared(v) \intersect Tables, NEW c \in Desired[v][t]
      PROVE  <<t, c>> \notin pl.dropColumns
  BY <1>1, <1>2, <1>4
<1>5. (pl.dropViews \union pl.dropTables) \intersect Declared(v) = {}
  BY <1>1, <1>2
<1> QED
  BY <1>3, <1>4, <1>5 DEF pl, cp

\* A step of the reconciler.
LEMMA ReconcileKeeps ==
    ASSUME TypeOK, NEW p \in Procs, DeclaredOf(p),
           DropView(p) \/ DropTable(p) \/ AddColumn(p) \/ DropColumn(p) \/ FinishReconcile(p)
    PROVE  DeclaredOf(p)'
<1>1. /\ pc[p] = "reconcile" /\ UNCHANGED <<ledger, platform, build, seen>>
      /\ Declared(build[p]) \subseteq DOMAIN schema /\ ReconcileInv(p) /\ plan[p] \in Plans /\ pc \in [Procs -> PCs]
  BY DEF DropView, DropViewOf, DropTable, DropTableOf, AddColumn, AddColumnOf, DropColumn, DropColumnOf,
         FinishReconcile, database, locals, DeclaredOf, TypeOK
<1>2. ASSUME Declared(build[p]) \subseteq DOMAIN schema', ReconcileInv(p)', pc'[p] \in {"reconcile", "up"}
      PROVE  DeclaredOf(p)'
  <2>1. Creatable(build[p])'
    BY <1>1, <1>2 DEF Creatable
  <2> QED
    BY <1>1, <1>2, <2>1 DEF DeclaredOf, platform
<1>3. ASSUME NEW o, Drop(o), o \notin Declared(build[p]), NEW pl \in Plans, plan' = [plan EXCEPT ![p] = pl], pc' = pc,
             pl.dropViews \subseteq plan[p].dropViews, pl.dropTables \subseteq plan[p].dropTables,
             pl.addColumns = plan[p].addColumns, pl.dropColumns = plan[p].dropColumns
      PROVE  DeclaredOf(p)'
  <2>1. plan'[p] = pl
    BY <1>3 DEF TypeOK
  <2>2. Declared(build[p]) \subseteq DOMAIN schema' /\ \A t \in Declared(build[p]) : schema'[t] = schema[t]
    BY <1>1, <1>3 DEF Drop
  <2>3. ReconcileInv(p)'
    BY <1>1, <1>3, <2>1, <2>2 DEF ReconcileInv
  <2> QED
    BY <1>1, <1>2, <1>3, <2>2, <2>3
<1>4. CASE DropView(p)
  <2>1. PICK y \in plan[p].dropViews : DropViewOf(p, y)
    BY <1>4 DEF DropView
  <2> DEFINE pl == [plan[p] EXCEPT !.dropViews = @ \ {y}]
  <2>2. plan' = [plan EXCEPT ![p] = pl] /\ Drop(y) /\ pc' = pc /\ y \notin Declared(build[p])
    BY <1>1, <2>1 DEF DropViewOf, ReconcileInv
  <2>3. /\ pl \in Plans /\ pl.dropViews \subseteq plan[p].dropViews /\ pl.dropTables = plan[p].dropTables
        /\ pl.addColumns = plan[p].addColumns /\ pl.dropColumns = plan[p].dropColumns
    BY <1>1 DEF Plans
  <2> HIDE DEF pl
  <2> QED
    BY <1>3, <2>2, <2>3
<1>5. CASE DropTable(p)
  <2>1. PICK y \in plan[p].dropTables : DropTableOf(p, y)
    BY <1>5 DEF DropTable
  <2> DEFINE pl == [plan[p] EXCEPT !.dropTables = @ \ {y}]
  <2>2. plan' = [plan EXCEPT ![p] = pl] /\ Drop(y) /\ pc' = pc /\ y \notin Declared(build[p])
    BY <1>1, <2>1 DEF DropTableOf, ReconcileInv
  <2>3. /\ pl \in Plans /\ pl.dropTables \subseteq plan[p].dropTables /\ pl.dropViews = plan[p].dropViews
        /\ pl.addColumns = plan[p].addColumns /\ pl.dropColumns = plan[p].dropColumns
    BY <1>1 DEF Plans
  <2> HIDE DEF pl
  <2> QED
    BY <1>3, <2>2, <2>3
<1>6. CASE AddColumn(p)
  <2>1. PICK x \in plan[p].addColumns : AddColumnOf(p, x)
    BY <1>6 DEF AddColumn
  <2> DEFINE pl == [plan[p] EXCEPT !.addColumns = @ \ {x}]
  <2>2. /\ plan'[p] = pl /\ pc' = pc /\ x[1] \in DOMAIN schema
        /\ schema' = [schema EXCEPT ![x[1]] = @ \union {x[2]}]
    BY <2>1 DEF AddColumnOf, TypeOK
  <2>3. /\ pl.dropTables = plan[p].dropTables /\ pl.dropViews = plan[p].dropViews
        /\ pl.addColumns = plan[p].addColumns \ {x} /\ pl.dropColumns = plan[p].dropColumns
    BY <1>1 DEF Plans
  <2> HIDE DEF pl
  <2>4. ReconcileInv(p)'
    <3>1. (plan'[p].dropViews \union plan'[p].dropTables) \intersect Declared(build[p]) = {}
      BY <1>1, <2>2, <2>3 DEF ReconcileInv
    <3>2. ASSUME NEW t \in Declared(build[p]) \intersect Tables, NEW c \in Desired[build[p]][t]
          PROVE  (c \in schema'[t] \/ <<t, c>> \in plan'[p].addColumns) /\ <<t, c>> \notin plan'[p].dropColumns
      <4>1. (c \in schema[t] \/ <<t, c>> \in plan[p].addColumns) /\ <<t, c>> \notin plan[p].dropColumns
        BY <1>1, <3>2 DEF ReconcileInv
      <4>2. CASE <<t, c>> = x
        BY <1>1, <2>2, <2>3, <4>1, <4>2
      <4>3. CASE <<t, c>> # x
        BY <1>1, <2>2, <2>3, <4>1, <4>3
      <4> QED
        BY <4>2, <4>3
    <3> QED
      BY <1>1, <3>1, <3>2 DEF ReconcileInv
  <2> QED
    BY <1>1, <1>2, <2>2, <2>4
<1>7. CASE DropColumn(p)
  <2>1. PICK x \in plan[p].dropColumns : DropColumnOf(p, x)
    BY <1>7 DEF DropColumn
  <2> DEFINE pl == [plan[p] EXCEPT !.dropColumns = @ \ {x}]
  <2>2. /\ plan'[p] = pl /\ pc' = pc
        /\ \/ schema' = schema
           \/ x[1] \in DOMAIN schema /\ schema' = [schema EXCEPT ![x[1]] = @ \ {x[2]}]
    BY <2>1 DEF DropColumnOf, TypeOK
  <2>3. /\ pl.dropTables = plan[p].dropTables /\ pl.dropViews = plan[p].dropViews
        /\ pl.addColumns = plan[p].addColumns /\ pl.dropColumns = plan[p].dropColumns \ {x}
    BY <1>1 DEF Plans
  <2>4. x \in Tables \X Columns
    BY <1>1, <2>1 DEF Plans
  <2> HIDE DEF pl
  <2>5. ReconcileInv(p)'
    <3>1. (plan'[p].dropViews \union plan'[p].dropTables) \intersect Declared(build[p]) = {}
      BY <1>1, <2>2, <2>3 DEF ReconcileInv
    <3>2. ASSUME NEW t \in Declared(build[p]) \intersect Tables, NEW c \in Desired[build[p]][t]
          PROVE  (c \in schema'[t] \/ <<t, c>> \in plan'[p].addColumns) /\ <<t, c>> \notin plan'[p].dropColumns
      <4>1. (c \in schema[t] \/ <<t, c>> \in plan[p].addColumns) /\ <<t, c>> \notin plan[p].dropColumns
        BY <1>1, <3>2 DEF ReconcileInv
      <4>2. <<t, c>> # x /\ x = <<x[1], x[2]>>
        BY <2>1, <2>4, <4>1
      <4>3. c \in schema[t] => c \in schema'[t]
        BY <1>1, <2>2, <4>2
      <4> QED
        BY <2>2, <2>3, <4>1, <4>3
    <3> QED
      BY <1>1, <3>1, <3>2 DEF ReconcileInv
  <2>6. DOMAIN schema' = DOMAIN schema
    BY <2>2
  <2> QED
    BY <1>1, <1>2, <2>2, <2>5, <2>6
<1>8. CASE FinishReconcile(p)
  <2>1. pc'[p] = "up" /\ schema' = schema /\ plan' = plan
    BY <1>1, <1>8 DEF FinishReconcile, Goto, database, locals
  <2>2. ReconcileInv(p)'
    BY <1>1, <2>1 DEF ReconcileInv
  <2> QED
    BY <1>1, <1>2, <2>1, <2>2
<1> QED
  BY <1>4, <1>5, <1>6, <1>7, <1>8

\* Every step leaves either what is declared, or a start-up that will still create it.
LEMMA DeclaredNext ==
    ASSUME MigrationInv, OneProcess, ForwardHistory, Mode = "on", NEW p \in Procs, DeclaredOf(p), [Next]_vars
    PROVE  DeclaredOf(p)'
<1>t. TypeOK /\ \A q \in Procs : q = p
  BY DEF MigrationInv, OneProcess
<1>b. build[p] \in Builds /\ deployed \in Builds /\ pc \in [Procs -> PCs] /\ build \in [Procs -> Builds]
  BY <1>t DEF TypeOK
<1>1. CASE Start(p)
  <2>1. build'[p] = deployed /\ pc'[p] = "ledger" /\ UNCHANGED <<schema, ledger, deployed>>
    BY <1>b, <1>1 DEF Start, Goto, database, platform
  <2>2. ledger \subseteq Names(deployed) /\ Creatable(deployed)
    <3>1. ledger \subseteq Names(build[p]) /\ Creatable(build[p])
          /\ (build[p] = deployed \/ <<build[p], deployed>> \in Deployable)
      BY DEF DeclaredOf
    <3> QED
      BY <1>b, <3>1, CreatableForward
  <2> QED
    BY <2>1, <2>2 DEF DeclaredOf, Creatable
<1>2. CASE LoadLedger(p)
  <2>1. /\ pc'[p] = "apply" /\ applied'[p] = ledger /\ file[p] = 1 /\ stmt[p] = 1
        /\ UNCHANGED <<schema, ledger, deployed, build, file, stmt>>
    BY <1>t, <1>2 DEF LoadLedger, Goto, TypeOK, database, platform
  <2>2. FilesOf[build[p]] \in Seq(DOMAIN Stmts[build[p]])
    BY <1>b, FilesAssumption
  <2>3. ApplyInv(p)'
    <3>1. {FilesOf[build[p]][k] : k \in 1..(file[p] - 1)} = {}
      BY <2>1
    <3>2. ASSUME AtFile(p)', NEW o \in Creates(build[p], CurrentName(p))
          PROVE  \E i \in DOMAIN CurrentFile(p) : i >= stmt[p] /\ CreatesAt(build[p], CurrentName(p), i, o)
      <4>1. CurrentName(p) \in Names(build[p]) /\ CurrentFile(p) = Stmts[build[p]][CurrentName(p)]
        BY <2>1, <2>2, <3>2 DEF AtFile, Names, CurrentName, CurrentFile
      <4> QED
        BY <1>b, <2>1, <3>2, <4>1, FirstStatement
    <3>3. file[p] <= Len(FilesOf[build[p]]) + 1
      BY <2>1, <2>2
    <3> QED
      BY <2>1, <3>1, <3>2, <3>3 DEF ApplyInv, CurrentName, CurrentFile
  <2> QED
    BY <2>1, <2>3 DEF DeclaredOf, Creatable
<1>3. CASE SkipApplied(p)
  <2>1. ledger' = ledger \union {CurrentName(p)}
    BY <1>t, <1>3 DEF SkipApplied, TypeOK, database
  <2> QED
    BY <1>t, <1>3, <2>1, NextFileKeeps DEF SkipApplied, database, platform
<1>4. CASE ApplyStatement(p)
  BY <1>t, <1>4, StatementKeeps
<1>5. CASE RecordMigration(p)
  <2>1. \A o \in Creates(build[p], CurrentName(p)) : o \in DOMAIN schema
    <3>1. AtFile(p) /\ CurrentName(p) \notin applied[p] /\ stmt[p] > Len(CurrentFile(p)) /\ ApplyInv(p)
      BY <1>5 DEF RecordMigration, FileDone, AtFile, DeclaredOf
    <3>2. CurrentFile(p) \in Seq(StmtsSet) /\ stmt[p] \in Nat
      BY <1>t, <3>1, AtAFile
    <3>3. \A i \in DOMAIN CurrentFile(p) : ~(i >= stmt[p])
      BY <3>1, <3>2
    <3> QED
      BY <3>1, <3>3 DEF ApplyInv
  <2> QED
    BY <1>t, <1>5, <2>1, NextFileKeeps DEF RecordMigration
<1>6. CASE BeginReconcile(p)
  <2>1. /\ pc'[p] = "tables" /\ UNCHANGED <<schema, ledger, deployed, build>> /\ pc[p] = "apply"
        /\ file[p] > Len(FilesOf[build[p]])
    BY <1>b, <1>6 DEF BeginReconcile, Goto, database, platform
  <2>2. Names(build[p]) \subseteq ledger
    <3>1. FilesOf[build[p]] \in Seq(DOMAIN Stmts[build[p]]) /\ file[p] \in Nat
      BY <1>b, <1>t, FilesAssumption DEF TypeOK
    <3>2. DOMAIN FilesOf[build[p]] \subseteq 1..(file[p] - 1)
      BY <2>1, <3>1
    <3>3. ledger = applied[p] \union {FilesOf[build[p]][k] : k \in 1..(file[p] - 1)}
      BY <2>1 DEF DeclaredOf, ApplyInv
    <3> QED
      BY <3>2, <3>3 DEF Names
  <2>3. Declared(build[p]) \subseteq DOMAIN schema
    BY <2>2 DEF DeclaredOf, Creatable
  <2> QED
    BY <2>1, <2>3 DEF DeclaredOf, Creatable
<1>7. CASE ReadTables(p)
  <2>1. /\ pc'[p] = "columns" /\ seen'[p] = DOMAIN schema /\ UNCHANGED <<schema, ledger, deployed, build>>
        /\ pc[p] = "tables"
    BY <1>t, <1>7 DEF ReadTables, Goto, TypeOK, database, platform
  <2> QED
    BY <2>1 DEF DeclaredOf, Creatable
<1>8. CASE ReadColumns(p)
  <2> DEFINE pl == Guarded(ComputePlan(build[p], DOMAIN schema))
  <2>1. pc[p] = "columns" /\ seen[p] = DOMAIN schema /\ Declared(build[p]) \subseteq DOMAIN schema
    BY <1>8 DEF ReadColumns, DeclaredOf
  <2>2. pc'[p] = "reconcile" /\ plan'[p] = pl /\ UNCHANGED <<schema, ledger, deployed, build>>
    BY <1>t, <1>8, <2>1 DEF ReadColumns, Goto, TypeOK, database, platform
  <2>3. /\ (pl.dropViews \union pl.dropTables) \intersect Declared(build[p]) = {}
        /\ \A t \in Declared(build[p]) \intersect Tables : \A c \in Desired[build[p]][t] :
             /\ c \in schema[t] \/ <<t, c>> \in pl.addColumns
             /\ <<t, c>> \notin pl.dropColumns
    BY <1>t, <1>b, <2>1, PlanKeepsDeclared
  <2> HIDE DEF pl
  <2>4. ReconcileInv(p)'
    BY <2>2, <2>3 DEF ReconcileInv
  <2> QED
    BY <2>1, <2>2, <2>4 DEF DeclaredOf, Creatable
<1>9. CASE DropView(p) \/ DropTable(p) \/ AddColumn(p) \/ DropColumn(p) \/ FinishReconcile(p)
  BY <1>t, <1>9, ReconcileKeeps
<1>10. CASE Replace(p) \/ Fail(p)
  <2>1. pc'[p] = "down" /\ UNCHANGED <<schema, ledger, deployed, build>>
    BY <1>b, <1>10 DEF Replace, Fail, Goto, database, platform
  <2> QED
    BY <2>1 DEF DeclaredOf, Creatable
<1>11. ASSUME NEW v \in Builds, Deploy(v) PROVE DeclaredOf(p)'
  <2>1. deployed' = v /\ <<deployed, v>> \in Deployable /\ UNCHANGED <<schema, ledger, pc, locals>>
    BY <1>11 DEF Deploy, database
  <2>2. <<build[p], v>> \in Deployable
    BY <1>b, <2>1 DEF ForwardHistory, DeclaredOf
  <2> QED
    BY <2>1, <2>2 DEF DeclaredOf, Creatable, ApplyInv, ReconcileInv, AtFile, CurrentName, CurrentFile, locals
<1>12. CASE UNCHANGED vars
  <2>1. UNCHANGED <<schema, ledger, deployed, pc, build, applied, file, stmt, seen, plan>>
    BY <1>12 DEF vars, database, platform, locals
  <2> QED
    BY <2>1 DEF DeclaredOf, Creatable, ApplyInv, ReconcileInv, AtFile, CurrentName, CurrentFile
<1> QED
  <2>1. CASE \E q \in Procs : Migrate(q) \/ Fail(q)
    <3>1. Migrate(p) \/ Fail(p)
      BY <1>t, <2>1
    <3> QED
      BY <1>1, <1>2, <1>3, <1>4, <1>5, <1>6, <1>7, <1>8, <1>9, <1>10, <3>1 DEF Migrate
  <2> QED
    BY <1>11, <1>12, <2>1 DEF Next

\* Once the process is up with the deployed build, the database is what that build's files
\* declare, nothing missing and nothing left (store.go:537): for one process, deployments
\* that only go forward, and a reconciler that is on.  Each is needed: after a rollback the
\* ledger has files whose objects were dropped, an old process may drop what a new one has
\* just created, and without the reconciler edited columns are never added.
THEOREM MigrationMatchesBuild ==
    ASSUME OneProcess, ForwardHistory, Mode = "on"
    PROVE  Spec => []SchemaMatchesBuild
<1> DEFINE Inv == \A p \in Procs : DeclaredOf(p)
<1>1. Init => Inv
  <2> SUFFICES ASSUME Init, NEW p \in Procs PROVE DeclaredOf(p)
    OBVIOUS
  <2>1. ledger = {} /\ pc[p] = "down" /\ build[p] = FirstBuild /\ deployed = FirstBuild
    BY DEF Init
  <2>2. Creatable(FirstBuild)
    BY <2>1, FilesDeclare, NamesAssumption DEF Creatable
  <2> QED
    BY <2>1, <2>2 DEF DeclaredOf
<1>2. MigrationInv /\ Inv /\ [Next]_vars => Inv'
  BY DeclaredNext
<1>3. MigrationInv /\ Inv => DeclaredExists
  <2> SUFFICES ASSUME MigrationInv, Inv, Settled
               PROVE  /\ Declared(deployed) \subseteq DOMAIN schema
                      /\ \A t \in Declared(deployed) \intersect Tables : Desired[deployed][t] \subseteq schema[t]
    BY DEF DeclaredExists
  <2>1. PICK p \in Procs : pc[p] = "up" /\ build[p] = deployed
    BY DEF OneProcess, Settled
  <2>2. plan[p] = NoPlan
    BY <2>1 DEF MigrationInv, TypeOK
  <2>3. DeclaredOf(p)
    BY <2>1
  <2>4. ReconcileInv(p) /\ Declared(build[p]) \subseteq DOMAIN schema
    BY <2>1, <2>3 DEF DeclaredOf
  <2> QED
    BY <2>1, <2>2, <2>4 DEF ReconcileInv, NoPlan
<1> HIDE DEF Inv
<1>4. Spec => []DeclaredExists
  BY <1>1, <1>2, <1>3, MigrationInvariant, PTL DEF Spec
<1> QED
  BY <1>4, MigrationStripsUndeclared, PTL DEF SchemaMatchesBuild

-----------------------------------------------------------------------------
(* The selections of the retention rules *)

\* Rules 1 and 2 select replaceable events, rule 3 selects posts nobody engaged
\* with, and all three select stored rows only.
LEMMA SelectionsAreOfTheRule ==
    ASSUME RetentionTypeOK, NEW i \in 1..Len(Rules), NEW S \in Selections(i)
    PROVE  /\ S \subseteq stored
           /\ i = 1 => S \subseteq OfKinds(ReplacedKinds)
           /\ i = 2 => S \subseteq OfKinds(ParamReplacedKinds)
           /\ i = 3 => S \subseteq OfKinds(PostKinds) /\ S \intersect Engaged = {}
  <1>1. i \in {1, 2, 3} BY SMT DEF Rules
  <1>2. CASE i = 3
    <2>1. S = {e \in stored : KindOf[e] \in PostKinds /\ CreatedAt[e] < now - MaxAge /\ e \notin Engaged}
      BY <1>2 DEF Selections
    <2>2. S \subseteq stored /\ S \intersect Engaged = {} BY <2>1
    <2>3. S \subseteq OfKinds(PostKinds) BY <2>1 DEF RetentionTypeOK, OfKinds
    <2> QED BY <1>2, <2>2, <2>3
  <1>3. CASE i = 1 BY <1>3 DEF Selections
  <1>4. CASE i = 2 BY <1>4 DEF Selections
  <1> QED BY <1>1, <1>2, <1>3, <1>4

\* What rules 1 and 2 select has a version that stays and is at least as new.
LEMMA SelectedIsSuperseded ==
    ASSUME RetentionTypeOK, NEW i \in 1..2, NEW S \in Selections(i), NEW e \in S
    PROVE  \E f \in stored \ S : /\ KindOf[f] = KindOf[e] /\ AuthorOf[f] = AuthorOf[e]
                                 /\ (KindOf[e] \in ParamReplacedKinds => DTagOf[f] = DTagOf[e])
                                 /\ CreatedAt[f] >= CreatedAt[e]
  <1> DEFINE K == IF i = 1 THEN ReplacedKinds ELSE ParamReplacedKinds
             R == stored \intersect OfKinds(K)
  <1>0. i # 3 OBVIOUS
  <1>1. PICK W \in Winners(R) : S = R \ W
    <2>1. Selections(i) = {R \ W : W \in Winners(R)} BY <1>0, Zenon DEF Selections
    <2> QED BY <2>1
  <1>2. e \in R /\ W \subseteq R BY <1>1 DEF Winners
  <1>3. PICK w \in W : Version(w) = Version(e) /\ CreatedAt[w] >= CreatedAt[e]
    BY <1>1, <1>2 DEF Winners
  <1>4. w \in stored \ S BY <1>1, <1>2
  <1>5. KindOf[e] \in K /\ KindOf[w] \in K BY <1>2 DEF OfKinds
  <1>6. /\ KindOf[w] = KindOf[e] /\ AuthorOf[w] = AuthorOf[e]
        /\ KindOf[e] \in ParamReplacedKinds => DTagOf[w] = DTagOf[e]
    <2>1. CASE i = 1
      <3>1. KindOf[e] \notin ParamReplacedKinds /\ KindOf[w] \notin ParamReplacedKinds
        BY <1>5, <2>1 DEF ReplacedKinds, ParamReplacedKinds
      <3> QED BY <1>3, <3>1 DEF Version
    <2>2. CASE i # 1 BY <1>3, <1>5, <2>2 DEF Version
    <2> QED BY <2>1, <2>2
  <1> QED BY <1>3, <1>4, <1>6

-----------------------------------------------------------------------------
(* The invariant *)

\* A process that is in a pass has no mutation in flight.
EachInv == OneMutationEach /\ \A r \in Runners : phase[r] # "idle" => \A m \in mutations : m.by # r

\* What is going to be masked is a post, or a version that another one supersedes.
DoomedInv == \A e \in Doomed : e \notin OfKinds(PostKinds) =>
    e \in OfKinds(ReplacedKinds \union ParamReplacedKinds) /\ \E f \in tags : Supersedes(f, e)

\* Retention deletes no likes, reposts and zaps, and the tables count them all,
\* unless a Backfill has just truncated these tables.
Counted ==
    /\ \A f \in tags : KindOf[f] = 9735 => f \in stored
    /\ ~rebuilding => \A f \in tags : KindOf[f] \in ViewKinds => f \in counted

MutationRecords == [by: Runners, rule: 1..Len(Rules), rows: SUBSET Events, masks: SUBSET SUBSET Events]

LEMMA RetentionInit == InitRetention => RetentionTypeOK /\ EachInv /\ DoomedInv /\ LatestStays /\ Counted
  <1> SUFFICES ASSUME InitRetention
               PROVE  RetentionTypeOK /\ EachInv /\ DoomedInv /\ LatestStays /\ Counted
      OBVIOUS
  <1> USE RetentionAssumption
  <1>1. stored \subseteq Events /\ tags = stored /\ mutations = {} /\ rebuilding = FALSE
    BY DEF InitRetention
  <1>2. counted = stored \intersect OfKinds(ViewKinds) BY DEF InitRetention
  <1>3. RetentionTypeOK
    <2>1. 1 \in 1..Len(Rules) BY SMT DEF Rules
    <2>2. now \in Nat /\ stored \subseteq tags /\ tags \subseteq Events BY <1>1 DEF InitRetention
    <2>3. counted \subseteq Events BY <1>2 DEF OfKinds
    <2>4. /\ phase \in [Runners -> {"idle", "count", "submit"}]
          /\ rule \in [Runners -> 1..Len(Rules)]
      BY <2>1 DEF InitRetention
    <2>5. inserts \in 0..MaxInserts /\ mishaps \in 0..MaxMishaps
      BY DEF InitRetention
    <2> QED BY <1>1, <2>2, <2>3, <2>4, <2>5 DEF RetentionTypeOK
  <1>4. EachInv BY <1>1 DEF EachInv, OneMutationEach
  <1>5. Counted BY <1>1, <1>2 DEF Counted, OfKinds
  <1>6. LatestStays BY <1>1 DEF LatestStays
  <1>7. DoomedInv BY <1>1 DEF DoomedInv, Doomed
  <1> QED BY <1>3, <1>4, <1>5, <1>6, <1>7

-----------------------------------------------------------------------------
(* What the steps do to the mutations *)

\* A part that is evaluated moves from the rows of its mutation to its masks.
LEMMA EvaluatePartEffect ==
    ASSUME RetentionTypeOK, NEW m \in mutations, EvaluatePart(m)
    PROVE  \E l \in MutationRecords :
              /\ l.by = m.by /\ mutations' \subseteq (mutations \ {m}) \union {l}
              /\ \E S \in Selections(m.rule) : \A k \in l.masks : k \in m.masks \/ k \subseteq S
  <1>1. PICK p \in {PartOf[e] : e \in m.rows}, S \in Selections(m.rule) :
          LET part == {e \in m.rows : PartOf[e] = p}
          IN  mutations' = (mutations \ {m}) \union Unfinished(
                 {Left(m, m.rows \ part, m.masks \union {S \intersect part})})
    BY DEF EvaluatePart
  <1> DEFINE part == {e \in m.rows : PartOf[e] = p}
             rows == m.rows \ part
             masks == (m.masks \union {S \intersect part}) \ {{}}
             l == [by |-> m.by, rule |-> m.rule, rows |-> rows, masks |-> masks]
  <1>2. m \in MutationRecords BY DEF RetentionTypeOK, MutationRecords
  <1>3. Left(m, rows, m.masks \union {S \intersect part}) = l BY DEF Left
  <1>4. rows \in SUBSET Events /\ masks \in SUBSET SUBSET Events BY <1>2 DEF MutationRecords
  <1>5. \A k \in masks : k \in m.masks \/ k \subseteq S OBVIOUS
  <1>6. mutations' \subseteq (mutations \ {m}) \union {l} BY <1>1, <1>3 DEF Unfinished
  <1> HIDE DEF part, rows, masks
  <1>7. l \in MutationRecords BY <1>2, <1>4 DEF MutationRecords
  <1> QED BY <1>5, <1>6, <1>7

\* A part that has been rewritten leaves the masks of its mutation.
LEMMA MaskPartEffect ==
    ASSUME RetentionTypeOK, NEW m \in mutations, MaskPart(m)
    PROVE  /\ \E l \in MutationRecords :
                 l.by = m.by /\ l.masks \subseteq m.masks /\ mutations' \subseteq (mutations \ {m}) \union {l}
           /\ \E k \in m.masks : stored' = stored \ k
  <1>1. PICK k \in m.masks :
          /\ stored' = stored \ k
          /\ mutations' = (mutations \ {m}) \union Unfinished({Left(m, m.rows, m.masks \ {k})})
    BY DEF MaskPart
  <1> DEFINE masks == (m.masks \ {k}) \ {{}}
             l == [by |-> m.by, rule |-> m.rule, rows |-> m.rows, masks |-> masks]
  <1>2. m \in MutationRecords BY DEF RetentionTypeOK, MutationRecords
  <1>3. Left(m, m.rows, m.masks \ {k}) = l BY DEF Left
  <1>4. masks \subseteq m.masks /\ masks \in SUBSET SUBSET Events BY <1>2 DEF MutationRecords
  <1>5. mutations' \subseteq (mutations \ {m}) \union {l} BY <1>1, <1>3 DEF Unfinished
  <1> HIDE DEF masks
  <1>6. l \in MutationRecords BY <1>2, <1>4 DEF MutationRecords
  <1> QED BY <1>1, <1>4, <1>5, <1>6

\* An insert only takes rows from what the mutations still do.
LEMMA InsertEffect ==
    ASSUME RetentionTypeOK, NEW e \in Events, Insert(e), NEW n \in mutations'
    PROVE  /\ n \in MutationRecords
           /\ \E m \in mutations : /\ n = Without(m, e) /\ n.by = m.by
                                   /\ \A k \in n.masks : \E j \in m.masks : k \subseteq j
  <1>1. PICK m \in mutations : n = Without(m, e) BY DEF Insert, Unfinished
  <1> DEFINE rows == m.rows \ {e}
             masks == {k \ {e} : k \in m.masks} \ {{}}
  <1>2. m \in MutationRecords BY DEF RetentionTypeOK, MutationRecords
  <1>3. n = [by |-> m.by, rule |-> m.rule, rows |-> rows, masks |-> masks]
    BY <1>1 DEF Without, Left
  <1>4. rows \in SUBSET Events /\ masks \in SUBSET SUBSET Events BY <1>2 DEF MutationRecords
  <1>5. \A k \in masks : \E j \in m.masks : k \subseteq j OBVIOUS
  <1> HIDE DEF rows, masks
  <1>6. n \in MutationRecords BY <1>2, <1>3, <1>4 DEF MutationRecords
  <1>7. n.by = m.by /\ n.masks = masks BY <1>3
  <1> QED BY <1>1, <1>5, <1>6, <1>7

\* A mutation starts without masks.
LEMMA SubmitEffect ==
    ASSUME RetentionTypeOK, NEW r \in Runners, Submit(r), NEW n \in mutations'
    PROVE  n \in mutations \/ (n \in MutationRecords /\ n.by = r /\ n.masks = {})
  <1> DEFINE l == [by |-> r, rule |-> rule[r], rows |-> stored, masks |-> {}]
  <1>1. n \in mutations \/ n = l BY DEF Submit, Unfinished
  <1>2. rule[r] \in 1..Len(Rules) /\ stored \in SUBSET Events BY DEF RetentionTypeOK
  <1>3. l \in MutationRecords BY <1>2 DEF MutationRecords
  <1> QED BY <1>1, <1>3

\* Rows come to be masked by the evaluation of a part, which selects them.
LEMMA DoomedAreSelected ==
    ASSUME RetentionTypeOK, [RetentionNext]_retentionVars, NEW e \in Doomed' \ Doomed
    PROVE  /\ \E m \in mutations : \E S \in Selections(m.rule) : e \in S
           /\ UNCHANGED <<tags, rebuilding>>
  <1>1. PICK n \in mutations' : \E k \in n.masks : e \in k BY DEF Doomed
  <1>2. \A m \in mutations : \A j \in m.masks : e \notin j BY DEF Doomed
  <1>3. n \notin mutations BY <1>1, <1>2
  <1>4. PICK m \in mutations : EvaluatePart(m)
    <2>1. ASSUME NEW r \in Runners, Submit(r) PROVE FALSE
      BY <1>1, <1>3, <2>1, SubmitEffect
    <2>2. ASSUME NEW m \in mutations, MaskPart(m) PROVE FALSE
      BY <1>1, <1>2, <1>3, <2>2, MaskPartEffect
    <2>3. ASSUME NEW f \in Events, Insert(f) PROVE FALSE
      BY <1>1, <1>2, <2>3, InsertEffect
    <2>4. ~UNCHANGED mutations BY <1>3
    <2> QED BY <2>1, <2>2, <2>3, <2>4
            DEF RetentionNext, Begin, Count, CountFails, Refused, CountReplies, Truncate, Fill, Elapse, retentionVars
  <1>5. PICK l : /\ mutations' \subseteq (mutations \ {m}) \union {l}
                 /\ \E S \in Selections(m.rule) : \A j \in l.masks : j \in m.masks \/ j \subseteq S
    BY <1>4, EvaluatePartEffect
  <1>6. n = l BY <1>3, <1>5
  <1> QED BY <1>1, <1>2, <1>4, <1>5, <1>6 DEF EvaluatePart, engagement

\* Rows are deleted by the end of the rewriting of a part, which masks them.
LEMMA DeletedAreDoomed ==
    ASSUME RetentionTypeOK, [RetentionNext]_retentionVars
    PROVE  stored \ stored' \subseteq Doomed
  <1>1. ASSUME NEW m \in mutations, MaskPart(m) PROVE stored \ stored' \subseteq Doomed
    BY <1>1, MaskPartEffect DEF Doomed
  <1>2. ASSUME NEW m \in mutations, EvaluatePart(m) PROVE stored' = stored
    BY <1>2 DEF EvaluatePart
  <1>3. ASSUME NEW r \in Runners, Begin(r) \/ Count(r) \/ CountFails(r) \/ Submit(r) \/ Refused(r)
        PROVE  stored' = stored
    BY <1>3 DEF Begin, Count, CountFails, Submit, Refused
  <1>4. ASSUME NEW e \in Events, Insert(e) PROVE stored \subseteq stored'
    BY <1>4 DEF Insert
  <1>5. CASE CountReplies \/ Truncate \/ Fill \/ Elapse \/ UNCHANGED retentionVars
    BY <1>5 DEF CountReplies, Truncate, Fill, Elapse, retentionVars
  <1> QED BY <1>1, <1>2, <1>3, <1>4, <1>5 DEF RetentionNext

\* Retention removes no event from event_tags, and what arrives is stored.
LEMMA TagsStay ==
    ASSUME [RetentionNext]_retentionVars
    PROVE  tags \subseteq tags' /\ tags' \ tags \subseteq stored'
  <1>1. ASSUME NEW m \in mutations, EvaluatePart(m) \/ MaskPart(m) PROVE tags' = tags
    BY <1>1 DEF EvaluatePart, MaskPart, engagement
  <1>2. ASSUME NEW r \in Runners, Begin(r) \/ Count(r) \/ CountFails(r) \/ Submit(r) \/ Refused(r)
        PROVE  tags' = tags
    BY <1>2 DEF Begin, Count, CountFails, Submit, Refused, engagement
  <1>3. ASSUME NEW e \in Events, Insert(e) PROVE tags \subseteq tags' /\ tags' \ tags \subseteq stored'
    BY <1>3 DEF Insert
  <1>4. CASE CountReplies \/ Truncate \/ Fill \/ Elapse \/ UNCHANGED retentionVars
    BY <1>4 DEF CountReplies, Truncate, Fill, Elapse, retentionVars, engagement
  <1> QED BY <1>1, <1>2, <1>3, <1>4 DEF RetentionNext

-----------------------------------------------------------------------------
(* Types *)

\* The next rule is one of the rules.
LEMMA NextRuleTypes ==
    ASSUME RetentionTypeOK, NEW r \in Runners, EndPass(r) \/ NextRule(r)
    PROVE  phase' \in [Runners -> {"idle", "count", "submit"}] /\ rule' \in [Runners -> 1..Len(Rules)]
  <1>1. Len(Rules) = 3 BY SMT DEF Rules
  <1>2. phase' \in [Runners -> {"idle", "count", "submit"}] BY DEF EndPass, NextRule, RetentionTypeOK
  <1>3. rule' \in [Runners -> 1..Len(Rules)]
    <2>1. CASE EndPass(r) BY <1>1, <2>1 DEF EndPass, RetentionTypeOK
    <2>2. CASE ~IsLastRule(rule[r]) /\ NextRule(r)
      <3>1. rule[r] \in 1..3 /\ rule[r] # 3 BY <1>1, <2>2 DEF RetentionTypeOK, IsLastRule
      <3>2. rule[r] + 1 \in 1..3 BY <3>1
      <3> QED BY <1>1, <2>2, <3>2 DEF NextRule, RetentionTypeOK
    <2> QED BY <2>1, <2>2 DEF NextRule
  <1> QED BY <1>2, <1>3

\* Every step of retention, and of what runs beside it, keeps the types.
THEOREM RetentionTypeStep == RetentionTypeOK /\ [RetentionNext]_retentionVars => RetentionTypeOK'
  <1> SUFFICES ASSUME RetentionTypeOK, [RetentionNext]_retentionVars PROVE RetentionTypeOK' OBVIOUS
  <1> USE RetentionAssumption
  <1>1. ASSUME NEW r \in Runners, Begin(r) PROVE RetentionTypeOK'
    <2>1. phase' \in [Runners -> {"idle", "count", "submit"}] BY <1>1 DEF Begin, RetentionTypeOK
    <2> QED BY <1>1, <2>1 DEF Begin, RetentionTypeOK, engagement, bounds
  <1>2. ASSUME NEW r \in Runners, Count(r) PROVE RetentionTypeOK'
    <2>1. /\ phase' \in [Runners -> {"idle", "count", "submit"}]
          /\ rule' \in [Runners -> 1..Len(Rules)]
      <3>1. \/ phase' = [phase EXCEPT ![r] = "submit"] /\ rule' = rule
            \/ NextRule(r)
        BY <1>2 DEF Count
      <3> QED BY <3>1, NextRuleTypes DEF RetentionTypeOK
    <2> QED BY <1>2, <2>1 DEF Count, RetentionTypeOK, engagement, bounds
  <1>3. ASSUME NEW r \in Runners, CountFails(r) PROVE RetentionTypeOK'
    <2>1. /\ phase' \in [Runners -> {"idle", "count", "submit"}]
          /\ rule' \in [Runners -> 1..Len(Rules)]
      BY <1>3, NextRuleTypes DEF CountFails
    <2>2. mishaps' \in 0..MaxMishaps BY <1>3 DEF CountFails, RetentionTypeOK
    <2> QED BY <1>3, <2>1, <2>2 DEF CountFails, RetentionTypeOK, engagement
  <1>4. ASSUME NEW r \in Runners, Submit(r) PROVE RetentionTypeOK'
    <2>1. /\ phase' \in [Runners -> {"idle", "count", "submit"}]
          /\ rule' \in [Runners -> 1..Len(Rules)]
      BY <1>4, NextRuleTypes DEF Submit
    <2>2. mutations' \subseteq MutationRecords
      BY <1>4, SubmitEffect DEF RetentionTypeOK, MutationRecords
    <2> QED BY <1>4, <2>1, <2>2 DEF Submit, RetentionTypeOK, MutationRecords, engagement, bounds
  <1>5. ASSUME NEW r \in Runners, Refused(r) PROVE RetentionTypeOK'
    <2>1. /\ phase' \in [Runners -> {"idle", "count", "submit"}]
          /\ rule' \in [Runners -> 1..Len(Rules)]
      BY <1>5, NextRuleTypes DEF Refused
    <2>2. mishaps' \in 0..MaxMishaps BY <1>5 DEF Refused, RetentionTypeOK
    <2> QED BY <1>5, <2>1, <2>2 DEF Refused, RetentionTypeOK, engagement
  <1>6. ASSUME NEW m \in mutations, EvaluatePart(m) PROVE RetentionTypeOK'
    <2>1. mutations' \subseteq MutationRecords
      BY <1>6, EvaluatePartEffect DEF RetentionTypeOK, MutationRecords
    <2> QED BY <1>6, <2>1 DEF EvaluatePart, RetentionTypeOK, MutationRecords, engagement, passes, bounds
  <1>7. ASSUME NEW m \in mutations, MaskPart(m) PROVE RetentionTypeOK'
    <2>1. mutations' \subseteq MutationRecords /\ stored' \subseteq stored
      BY <1>7, MaskPartEffect DEF RetentionTypeOK, MutationRecords
    <2> QED BY <1>7, <2>1 DEF MaskPart, RetentionTypeOK, MutationRecords, engagement, passes, bounds
  <1>8. ASSUME NEW e \in Events, Insert(e) PROVE RetentionTypeOK'
    <2>1. inserts' \in 0..MaxInserts BY <1>8 DEF Insert, RetentionTypeOK
    <2>2. stored' \subseteq tags' /\ tags' \subseteq Events /\ counted' \subseteq Events
      BY <1>8 DEF Insert, RetentionTypeOK
    <2>3. mutations' \subseteq MutationRecords BY <1>8, InsertEffect
    <2> QED BY <1>8, <2>1, <2>2, <2>3 DEF Insert, RetentionTypeOK, MutationRecords, passes
  <1>9. CASE CountReplies
    <2>1. counted' \subseteq Events BY <1>9 DEF CountReplies, RetentionTypeOK
    <2> QED BY <1>9, <2>1 DEF CountReplies, RetentionTypeOK, passes, bounds
  <1>10. CASE Truncate
    <2>1. mishaps' \in 0..MaxMishaps BY <1>10 DEF Truncate, RetentionTypeOK
    <2> QED BY <1>10, <2>1 DEF Truncate, RetentionTypeOK, passes
  <1>11. CASE Fill
    <2>1. counted' \subseteq Events
      <3>1. tags \subseteq Events /\ stored \subseteq Events /\ counted \subseteq Events
        BY DEF RetentionTypeOK
      <3>2. counted' = counted \union (tags \intersect OfKinds({6, 7, 16}))
                              \union (stored \intersect OfKinds({9735}))
        BY <1>11 DEF Fill
      <3> QED
        BY <3>1, <3>2
    <2>2. UNCHANGED <<now, stored, tags, phase, rule, mutations, inserts, mishaps>>
      BY <1>11 DEF Fill, passes, bounds
    <2>3. rebuilding' = FALSE BY <1>11 DEF Fill
    <2> QED BY <2>1, <2>2, <2>3 DEF RetentionTypeOK
  <1>12. CASE Elapse
    <2>1. now' \in Nat BY <1>12 DEF Elapse, RetentionTypeOK
    <2> QED BY <1>12, <2>1 DEF Elapse, RetentionTypeOK, engagement, passes, bounds
  <1>13. CASE UNCHANGED retentionVars BY <1>13 DEF retentionVars, RetentionTypeOK, engagement, passes, bounds
  <1> QED BY <1>1, <1>2, <1>3, <1>4, <1>5, <1>6, <1>7, <1>8, <1>9, <1>10, <1>11, <1>12, <1>13 DEF RetentionNext

\* Type correctness of every reachable state.
THEOREM RetentionTypes == RetentionSpec => []RetentionTypeOK
  <1>1. InitRetention => RetentionTypeOK BY RetentionInit
  <1>2. RetentionTypeOK /\ [RetentionNext]_retentionVars => RetentionTypeOK' BY RetentionTypeStep
  <1> QED BY <1>1, <1>2, PTL DEF RetentionSpec

-----------------------------------------------------------------------------
(* One mutation of a process at a time *)

LEMMA EachStep ==
    ASSUME RetentionTypeOK, EachInv, [RetentionNext]_retentionVars
    PROVE  EachInv'
  <1>1. ASSUME NEW r \in Runners, Begin(r) PROVE EachInv'
    BY <1>1 DEF Begin, Pending, EachInv, OneMutationEach, RetentionTypeOK
  <1>2. ASSUME NEW r \in Runners, Count(r) \/ CountFails(r) \/ Refused(r) PROVE EachInv'
    <2>1. phase[r] # "idle" /\ mutations' = mutations BY <1>2 DEF Count, CountFails, Refused
    <2>2. \A q \in Runners : phase'[q] # "idle" => phase[q] # "idle"
      BY <1>2, <2>1 DEF Count, CountFails, Refused, NextRule, EndPass, RetentionTypeOK
    <2> QED BY <2>1, <2>2 DEF EachInv, OneMutationEach
  <1>3. ASSUME NEW r \in Runners, Submit(r) PROVE EachInv'
    <2>1. \A m \in mutations : m.by # r BY <1>3 DEF Submit, EachInv
    <2> DEFINE l == [by |-> r, rule |-> rule[r], rows |-> stored, masks |-> {}]
    <2>2. l.by = r /\ \A n \in mutations' : n \in mutations \/ n = l
      BY <1>3 DEF Submit, Unfinished
    <2> HIDE DEF l
    <2>3. phase'[r] = "idle" /\ \A q \in Runners : q # r => phase'[q] = phase[q]
      BY <1>3 DEF Submit, EndPass, RetentionTypeOK
    <2>4. OneMutationEach' BY <2>1, <2>2 DEF EachInv, OneMutationEach
    <2>5. ASSUME NEW q \in Runners, phase'[q] # "idle", NEW n \in mutations' PROVE n.by # q
      BY <2>2, <2>3, <2>5 DEF EachInv
    <2> QED BY <2>4, <2>5 DEF EachInv
  <1>4. ASSUME NEW m \in mutations, EvaluatePart(m) \/ MaskPart(m) PROVE EachInv'
    <2>1. PICK l : l.by = m.by /\ mutations' \subseteq (mutations \ {m}) \union {l}
      BY <1>4, EvaluatePartEffect, MaskPartEffect
    <2>2. phase' = phase BY <1>4 DEF EvaluatePart, MaskPart, passes
    <2>3. OneMutationEach' BY <2>1 DEF EachInv, OneMutationEach
    <2> QED BY <2>1, <2>2, <2>3 DEF EachInv
  <1>5. ASSUME NEW e \in Events, Insert(e) PROVE EachInv'
    <2>1. \A n \in mutations' : \E m \in mutations : n = Without(m, e) /\ n.by = m.by
      BY <1>5, InsertEffect
    <2>2. phase' = phase BY <1>5 DEF Insert, passes
    <2>3. OneMutationEach' BY <2>1 DEF EachInv, OneMutationEach
    <2> QED BY <2>1, <2>2, <2>3 DEF EachInv
  <1>6. CASE UNCHANGED <<phase, mutations>> BY <1>6 DEF EachInv, OneMutationEach
  <1> QED BY <1>1, <1>2, <1>3, <1>4, <1>5, <1>6
          DEF RetentionNext, CountReplies, Truncate, Fill, Elapse, retentionVars, passes

\* However many processes run the loop, none of them ever has two mutations in flight,
\* however long a count takes and whatever happens meanwhile.
THEOREM OneMutationPerProcess == RetentionSpec => []OneMutationEach
  <1>1. InitRetention => RetentionTypeOK /\ EachInv BY RetentionInit
  <1>2. RetentionTypeOK /\ EachInv /\ [RetentionNext]_retentionVars => (RetentionTypeOK /\ EachInv)'
    <2> SUFFICES ASSUME RetentionTypeOK, EachInv, [RetentionNext]_retentionVars
                 PROVE  (RetentionTypeOK /\ EachInv)'
        OBVIOUS
    <2>1. RetentionTypeOK' BY RetentionTypeStep
    <2>2. EachInv' BY EachStep
    <2> QED BY <2>1, <2>2
  <1>3. EachInv => OneMutationEach BY DEF EachInv
  <1> QED BY <1>1, <1>2, <1>3, PTL DEF RetentionSpec

-----------------------------------------------------------------------------
(* What retention keeps *)

LEMMA SelectedIsDoomed ==
    ASSUME RetentionTypeOK, NEW i \in 1..Len(Rules), NEW S \in Selections(i), NEW e \in S,
           e \notin OfKinds(PostKinds)
    PROVE  /\ e \in OfKinds(ReplacedKinds \union ParamReplacedKinds)
           /\ \E f \in tags : Supersedes(f, e)
  <1>1. i \in {1, 2, 3} BY SMT DEF Rules
  <1>2. i # 3 BY SelectionsAreOfTheRule
  <1>3. e \in OfKinds(ReplacedKinds) \union OfKinds(ParamReplacedKinds)
    BY <1>1, <1>2, SelectionsAreOfTheRule
  <1>4. i \in 1..2 BY <1>1, <1>2
  <1>5. PICK f \in stored \ S : /\ KindOf[f] = KindOf[e] /\ AuthorOf[f] = AuthorOf[e]
                                /\ (KindOf[e] \in ParamReplacedKinds => DTagOf[f] = DTagOf[e])
                                /\ CreatedAt[f] >= CreatedAt[e]
    BY <1>4, SelectedIsSuperseded
  <1>6. f # e BY <1>5
  <1>7. f \in tags /\ Supersedes(f, e) BY <1>5, <1>6 DEF Supersedes, RetentionTypeOK
  <1> QED BY <1>3, <1>7 DEF OfKinds

LEMMA DoomedStep ==
    ASSUME RetentionTypeOK, DoomedInv, [RetentionNext]_retentionVars
    PROVE  DoomedInv'
  <1> SUFFICES ASSUME NEW e \in Doomed', e \notin OfKinds(PostKinds)
               PROVE  /\ e \in OfKinds(ReplacedKinds \union ParamReplacedKinds)
                      /\ \E f \in tags' : Supersedes(f, e)
      BY DEF DoomedInv, Supersedes, OfKinds
  <1>1. tags \subseteq tags' BY TagsStay
  <1>2. CASE e \in Doomed BY <1>1, <1>2 DEF DoomedInv
  <1>3. CASE e \notin Doomed
    <2>1. PICK m \in mutations : \E S \in Selections(m.rule) : e \in S
      BY <1>3, DoomedAreSelected
    <2>2. m.rule \in 1..Len(Rules) BY DEF RetentionTypeOK
    <2> QED BY <1>1, <2>1, <2>2, SelectedIsDoomed
  <1> QED BY <1>2, <1>3

LEMMA LatestStep ==
    ASSUME RetentionTypeOK, DoomedInv, LatestStays, [RetentionNext]_retentionVars
    PROVE  LatestStays'
  <1> SUFFICES ASSUME NEW e \in tags' \intersect OfKinds(ReplacedKinds \union ParamReplacedKinds), e \notin stored'
               PROVE  \E f \in tags' : Supersedes(f, e)
      BY DEF LatestStays, Supersedes, OfKinds
  <1>1. tags \subseteq tags' BY TagsStay
  <1>2. e \in tags BY TagsStay
  <1>3. CASE e \notin stored BY <1>1, <1>2, <1>3 DEF LatestStays
  <1>4. CASE e \in stored
    <2>1. e \in Doomed BY <1>4, DeletedAreDoomed
    <2>2. e \notin OfKinds(PostKinds) BY DEF OfKinds, PostKinds, ReplacedKinds, ParamReplacedKinds
    <2> QED BY <1>1, <2>1, <2>2 DEF DoomedInv
  <1> QED BY <1>3, <1>4

\* The newest version of a replaceable event ever inserted, unless it has a tie, stays.
THEOREM LatestVersionStays == RetentionSpec => []LatestStays
  <1> DEFINE I == RetentionTypeOK /\ DoomedInv /\ LatestStays
  <1>1. InitRetention => I BY RetentionInit
  <1>2. I /\ [RetentionNext]_retentionVars => I'
    <2> SUFFICES ASSUME I, [RetentionNext]_retentionVars PROVE I' OBVIOUS
    <2>1. RetentionTypeOK' BY RetentionTypeStep
    <2>2. DoomedInv' BY DoomedStep
    <2>3. LatestStays' BY LatestStep
    <2> QED BY <2>1, <2>2, <2>3
  <1>3. I => LatestStays OBVIOUS
  <1> QED BY <1>1, <1>2, <1>3, PTL DEF RetentionSpec

LEMMA CountedStep ==
    ASSUME RetentionTypeOK, DoomedInv, Counted, [RetentionNext]_retentionVars
    PROVE  Counted'
  <1>1. ASSUME NEW r \in Runners, Begin(r) \/ Count(r) \/ CountFails(r) \/ Submit(r) \/ Refused(r)
        PROVE  Counted'
    BY <1>1 DEF Begin, Count, CountFails, Submit, Refused, engagement, Counted
  <1>2. ASSUME NEW m \in mutations, EvaluatePart(m) \/ MaskPart(m) PROVE Counted'
    <2>1. ASSUME NEW f \in Doomed PROVE KindOf[f] # 9735
      <3>1. f \in OfKinds(PostKinds) \union OfKinds(ReplacedKinds \union ParamReplacedKinds)
        BY DEF DoomedInv
      <3> QED BY <3>1 DEF OfKinds, ReplacedKinds, ParamReplacedKinds, PostKinds
    <2>2. stored \ stored' \subseteq Doomed BY DeletedAreDoomed
    <2>3. UNCHANGED <<tags, counted, rebuilding>> BY <1>2 DEF EvaluatePart, MaskPart, engagement
    <2> QED BY <2>1, <2>2, <2>3 DEF Counted
  <1>3. ASSUME NEW e \in Events, Insert(e) PROVE Counted'
    BY <1>3 DEF Insert, Counted, OfKinds
  <1>4. CASE CountReplies BY <1>4 DEF CountReplies, Counted
  <1>5. CASE Truncate BY <1>5 DEF Truncate, Counted
  <1>6. CASE Fill
    <2>1. ASSUME NEW f \in tags, KindOf[f] \in ViewKinds PROVE f \in counted'
      <3>1. f \in Events BY DEF RetentionTypeOK
      <3>2. CASE KindOf[f] = 9735 BY <1>6, <3>1, <3>2 DEF Fill, Counted, OfKinds
      <3>3. CASE KindOf[f] \in {6, 7, 16} BY <1>6, <3>1, <3>3 DEF Fill, OfKinds
      <3> QED BY <2>1, <3>2, <3>3 DEF ViewKinds
    <2> QED BY <1>6, <2>1 DEF Fill, Counted
  <1>7. CASE Elapse BY <1>7 DEF Elapse, engagement, Counted
  <1>8. CASE UNCHANGED retentionVars BY <1>8 DEF retentionVars, engagement, Counted
  <1> QED BY <1>1, <1>2, <1>3, <1>4, <1>5, <1>6, <1>7, <1>8 DEF RetentionNext

LEMMA EngagedKeptStep == RetentionTypeOK /\ Counted /\ [RetentionNext]_retentionVars => KeepsEngaged
  <1> SUFFICES ASSUME RetentionTypeOK, Counted, [RetentionNext]_retentionVars PROVE KeepsEngaged
      OBVIOUS
  <1>1. stored \ stored' \subseteq Doomed BY DeletedAreDoomed
  <1>2. ASSUME NEW e \in Doomed' \ Doomed, KindOf[e] \in PostKinds,
               ~rebuilding, NEW f \in tags, KindOf[f] \in ViewKinds, TargetOf[f] = e
        PROVE  FALSE
    <2>1. PICK m \in mutations : \E S \in Selections(m.rule) : e \in S
      BY DoomedAreSelected
    <2>2. PICK S \in Selections(m.rule) : e \in S BY <2>1
    <2>3. m.rule \in 1..Len(Rules) BY DEF RetentionTypeOK
    <2>4. m.rule = 3
      <3>1. m.rule \in {1, 2, 3} BY <2>3, SMT DEF Rules
      <3>2. ASSUME m.rule # 3 PROVE FALSE
        <4>1. e \in OfKinds(ReplacedKinds) \union OfKinds(ParamReplacedKinds)
          BY <2>2, <2>3, <3>1, <3>2, SelectionsAreOfTheRule
        <4> QED BY <1>2, <4>1 DEF OfKinds, PostKinds, ReplacedKinds, ParamReplacedKinds
      <3> QED BY <3>2
    <2>5. S \intersect Engaged = {} BY <2>2, <2>3, <2>4, SelectionsAreOfTheRule
    <2>6. f \in counted BY <1>2 DEF Counted
    <2>7. e \in Engaged BY <1>2, <2>6 DEF Engaged
    <2> QED BY <2>2, <2>5, <2>7
  <1> QED BY <1>1, <1>2 DEF KeepsEngaged

\* No step selects a post for deletion that an event with stored tags likes, reposts or
\* zaps, unless a Backfill has truncated the tables and not filled them again, and no
\* step deletes a row that was not selected.
THEOREM EngagedPostsAreKept == RetentionSpec => EngagedKept
  <1> DEFINE I == RetentionTypeOK /\ DoomedInv /\ Counted
  <1>1. InitRetention => I BY RetentionInit
  <1>2. I /\ [RetentionNext]_retentionVars => I'
    <2> SUFFICES ASSUME I, [RetentionNext]_retentionVars PROVE I' OBVIOUS
    <2>1. RetentionTypeOK' BY RetentionTypeStep
    <2>2. DoomedInv' BY DoomedStep
    <2>3. Counted' BY CountedStep
    <2> QED BY <2>1, <2>2, <2>3
  <1>3. I /\ [RetentionNext]_retentionVars => [KeepsEngaged]_retentionVars BY EngagedKeptStep
  <1> HIDE DEF I
  <1> QED BY <1>1, <1>2, <1>3, PTL DEF RetentionSpec, EngagedKept
=============================================================================
