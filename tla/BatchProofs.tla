----------------------------- MODULE BatchProofs -----------------------------
(***************************************************************************)
(* Proofs about what works around a batch: the grading of an instance, the *)
(* repair of its lists of tests, the harness and the images it builds, and *)
(* the recorder and the dashboard that watch.                              *)
(***************************************************************************)
EXTENDS AttemptProofs

-----------------------------------------------------------------------------
(* Grading.                                                                *)

GradeInv == f2p \cup p2p = GradedTests

LEMMA GradeInit == Grade!Init => GradeInv
BY DEF Grade!Init, GradeInv

LEMMA GradeStep ==
    ASSUME GradeInv, [Grade!Next]_gradeVars
    PROVE  GradeInv'
BY DEF GradeInv, Grade!Next, gradeVars

LEMMA GradeKeeps == GradeInv => Grade!ResolvedHasNoFailure
<1> SUFFICES ASSUME GradeInv, Grade!Resolution(sm) = "FULL", NEW t \in GradedTests
             PROVE  sm[t] # "FAILED" /\ (~failOnly => sm[t] \notin {"ERROR", Grade!Absent})
  BY DEF Grade!ResolvedHasNoFailure
<1>1. Grade!Whole(p2p, sm) /\ Grade!Whole(f2p, sm)
  BY DEF Grade!Resolution
<1>2. t \notin Grade!Failure(p2p, sm) /\ t \notin Grade!Failure(f2p, sm)
  BY <1>1 DEF Grade!Whole
<1>3. IF failOnly THEN sm[t] # "FAILED" ELSE ~Grade!test_failed(t, sm)
  BY <1>2 DEF GradeInv, Grade!Failure
<1> QED
  BY <1>3 DEF Grade!test_failed

-----------------------------------------------------------------------------
(* The repair of the lists.                                                *)

\* What a repaired instance has, by the logs that it was repaired from.
EarnedBy(f, r) ==
    /\ f.code = r.code /\ f.test = r.test /\ r.gold.found /\ r.pre.found
    /\ \A t \in f.f2p \cup f.p2p : r.gold.map[t] \in {"PASSED", "XFAIL"}
    /\ \A t \in f.f2p : r.pre.map[t] \notin {"PASSED", "XFAIL"}
    /\ \A t \in f.p2p : r.pre.map[t] \in {"PASSED", "XFAIL"}

Untested(r) == r = [gold |-> Legacy(1, 1)!NoLog, pre |-> Legacy(1, 1)!NoLog,
                    code |-> FALSE, test |-> FALSE]

\* Between the lists of an instance and their file its logs are still those at hand; a file
\* that a kill has torn is never read again.
RepairInv(cases) ==
    /\ DOMAIN tested = 1..cases
    /\ \A i \in 1..cases : Untested(tested[i]) \/ source[i].torn \/ EarnedBy(source[i], tested[i])
    /\ legacyPc = "write" =>
        /\ log["gold"].found /\ log["pre"].found
        /\ \A t \in copy[at].f2p \cup copy[at].p2p : log["gold"].map[t] = "PASSED"
        /\ \A t \in copy[at].f2p : log["pre"].map[t] \in {"FAILED", "ERROR", NoStatus}
        /\ \A t \in copy[at].p2p : log["pre"].map[t] = "PASSED"

LEMMA RepairInit ==
    ASSUME NEW cases \in Nat, NEW most, Legacy(cases, most)!Init
    PROVE  RepairInv(cases)
<1>1. Legacy(cases, most)!NoLog = Legacy(1, 1)!NoLog
  BY DEF Legacy!NoLog
<1>2. legacyPc = "idle" /\ tested = [i \in 1..cases |-> Legacy(cases, most)!NotTested]
  BY DEF Legacy!Init, Legacy!Instances
<1>3. Untested(Legacy(cases, most)!NotTested)
  BY <1>1 DEF Untested, Legacy!NotTested
<1> QED
  BY <1>2, <1>3 DEF RepairInv

LEMMA RepairStep ==
    ASSUME NEW cases \in Nat, NEW most, LegacyInv(cases), RepairInv(cases),
           [Legacy(cases, most)!Next]_legacyVars
    PROVE  RepairInv(cases)'
<1>1. CASE UNCHANGED legacyVars
  BY <1>1 DEF RepairInv, legacyVars
<1>2. CASE Legacy(cases, most)!Fill
  <2>1. PICK f, g :
          /\ f = [copy[at] EXCEPT !.lists = TRUE,
                   !.f2p = {t \in LegacyTests : log["gold"].map[t] = "PASSED"
                                                /\ log["pre"].map[t] \in {"FAILED", "ERROR", NoStatus}},
                   !.p2p = {t \in LegacyTests : log["gold"].map[t] = "PASSED"
                                                /\ log["pre"].map[t] = "PASSED"}]
          /\ g = [source[at] EXCEPT !.torn = TRUE]
          /\ copy' = [copy EXCEPT ![at] = f] /\ source' = [source EXCEPT ![at] = g]
          /\ log["gold"].found /\ log["pre"].found
          /\ at' = at /\ legacyPc = "fill" /\ UNCHANGED <<log, tested>>
    BY <1>2 DEF Legacy!Fill, Legacy!Gold, Legacy!Pre, Legacy!FailedBefore
  <2>2. at \in 1..cases /\ copy \in [1..cases -> LegacyFiles] /\ source \in [1..cases -> LegacyFiles]
    BY <2>1 DEF LegacyInv, LegacyShape, Repairing
  <2>3. copy[at] \in LegacyFiles /\ source[at] \in LegacyFiles
    BY <2>2
  <2>4. /\ \A t \in f.f2p \cup f.p2p : log["gold"].map[t] = "PASSED"
        /\ \A t \in f.f2p : log["pre"].map[t] \in {"FAILED", "ERROR", NoStatus}
        /\ \A t \in f.p2p : log["pre"].map[t] = "PASSED"
    BY <2>1, <2>3 DEF LegacyFiles
  <2>5. g.torn
    BY <2>1, <2>3 DEF LegacyFiles
  <2>6. copy'[at] = f /\ source'[at] = g /\ \A i \in 1..cases : i # at => source'[i] = source[i]
    BY <2>1, <2>2
  <2>7. ASSUME NEW i \in 1..cases
        PROVE  Untested(tested[i]) \/ source'[i].torn \/ EarnedBy(source'[i], tested[i])
    BY <2>5, <2>6 DEF RepairInv
  <2>8. log' = log /\ at' = at /\ tested' = tested /\ copy'[at'] = f /\ log["gold"].found
        /\ log["pre"].found
    BY <2>1, <2>6
  <2>9. DOMAIN tested' = 1..cases
    BY <2>8 DEF RepairInv
  <2> QED
    BY ONLY <2>4, <2>7, <2>8, <2>9 DEF RepairInv
<1>3. CASE Legacy(cases, most)!WriteSource
  <2>1. PICK r :
          /\ r = [gold |-> log["gold"], pre |-> log["pre"],
                  code |-> copy[at].code, test |-> copy[at].test]
          /\ source' = [source EXCEPT ![at] = copy[at]] /\ tested' = [tested EXCEPT ![at] = r]
          /\ legacyPc = "write" /\ legacyPc' \in {"batch", "repair"}
    BY <1>3 DEF Legacy!WriteSource, Legacy!Next1
  <2>2. at \in 1..cases /\ source \in [1..cases -> LegacyFiles]
    BY <2>1 DEF LegacyInv, LegacyShape, Repairing
  <2>3. NoStatus \notin {"PASSED", "XFAIL"}
    BY InstancesAssumption DEF InstancesAssumption, Legacy!LegacyAssumption
  <2>4. EarnedBy(copy[at], r)
    BY <2>1, <2>3 DEF RepairInv, EarnedBy
  <2>5. /\ source'[at] = copy[at] /\ tested'[at] = r /\ DOMAIN tested' = 1..cases
        /\ \A i \in 1..cases : i # at => source'[i] = source[i] /\ tested'[i] = tested[i]
    BY <2>1, <2>2 DEF RepairInv
  <2>6. ASSUME NEW i \in 1..cases
        PROVE  Untested(tested'[i]) \/ source'[i].torn \/ EarnedBy(source'[i], tested'[i])
    BY <2>4, <2>5 DEF RepairInv
  <2> QED
    BY <2>1, <2>5, <2>6 DEF RepairInv
<1>4. CASE Legacy(cases, most)!Next /\ ~Legacy(cases, most)!Fill /\ ~Legacy(cases, most)!WriteSource
  <2>1. UNCHANGED <<source, tested>> /\ legacyPc' # "write"
    BY Zenon, <1>4 DEF Legacy!Next, Legacy!PrepareBatchRoot, Legacy!Skip, Legacy!Rebuild,
         Legacy!RunTests, Legacy!RunCase, Legacy!WriteSummary, Legacy!Dies, Legacy!Next1
  <2> QED
    BY <2>1 DEF RepairInv
<1> QED
  BY <1>1, <1>2, <1>3, <1>4

LEMMA RepairKeeps ==
    ASSUME NEW cases \in Nat, NEW most, RepairInv(cases)
    PROVE  Legacy(cases, most)!RepairEarned
<1>1. Legacy(cases, most)!NoLog = Legacy(1, 1)!NoLog
  BY DEF Legacy!NoLog
<1>2. \A r : Untested(r) => r = Legacy(cases, most)!NotTested
  BY <1>1 DEF Untested, Legacy!NotTested
<1>3. \A i \in 1..cases : tested[i] # Legacy(cases, most)!NotTested /\ ~source[i].torn
                            => EarnedBy(source[i], tested[i])
  BY <1>2 DEF RepairInv
<1> QED
  BY <1>3 DEF EarnedBy, Legacy!RepairEarned, Legacy!Instances, Legacy!Passes

-----------------------------------------------------------------------------
(* The images of the harness.                                              *)

NotBuilt == [by |-> -1, on |-> -1]
FreshImage(x, c) == x = NotBuilt \/ (x.by = c /\ x.on = c)

ImageShape ==
    /\ call \in Nat /\ force \in BOOLEAN
    /\ buildPhase \in {"idle", "remove", "base", "envs", "instances", "broken"}
    /\ buildPhase # "idle" => call > 0
    /\ DOMAIN env = ImageEnvs /\ DOMAIN inst = ImageInstances
    /\ succeeded \subseteq ImageInstances

\* A pool has each of its builds once, and an environment whose build failed is not there.
PoolsOnce ==
    /\ buildPhase = "envs" =>
        todo \subseteq ImageEnvs /\ todo \cap envFailed = {} /\ \A e \in todo : env[e] = NotBuilt
    /\ buildPhase = "instances" => todo \cap (succeeded \cup failed) = {}
    /\ buildPhase \in {"remove", "base", "envs"} => succeeded = {} /\ failed = {}
    /\ buildPhase \in {"remove", "base"} => envFailed = {}
    /\ envFailed \subseteq ImageEnvs /\ \A e \in envFailed : env[e] = NotBuilt

Standing ==
    /\ \A i \in succeeded : inst[i] # NotBuilt /\ env[Images!EnvOf(i)] # NotBuilt
    /\ succeeded \cap failed = {}

\* From its removals on a forced call has nothing that is older than itself.
Forcing ==
    force /\ call > 0 /\ buildPhase # "remove" =>
        /\ \A e \in ImageEnvs : FreshImage(env[e], call)
        /\ \A i \in ImageInstances : FreshImage(inst[i], call)
        /\ buildPhase \in {"envs", "instances"} => base.by = call

ImageInv == ImageShape /\ PoolsOnce /\ Standing /\ Forcing

LEMMA EnvThere ==
    ASSUME NEW i \in ImageInstances
    PROVE  Images!EnvOf(i) \in ImageEnvs
<1>1. \E e \in ImageEnvs : i \in e
  BY InstancesAssumption DEF InstancesAssumption, Images!ImageBuildAssumption
<1> QED
  BY <1>1 DEF Images!EnvOf

LEMMA ImageInit == Images!Init => ImageInv
<1> SUFFICES ASSUME Images!Init PROVE ImageInv
  OBVIOUS
<1>1. /\ call = 0 /\ force = FALSE /\ buildPhase = "idle" /\ envFailed = {} /\ succeeded = {}
      /\ DOMAIN env = ImageEnvs /\ DOMAIN inst = ImageInstances
  BY DEF Images!Init
<1> QED
  BY <1>1 DEF ImageInv, ImageShape, PoolsOnce, Standing, Forcing

LEMMA BuildBaseGoes ==
    ASSUME ImageInv, Images!BuildBase
    PROVE  ImageInv'
<1>1. ImageShape /\ PoolsOnce /\ Standing /\ Forcing
  BY DEF ImageInv
<1>2. /\ buildPhase = "base" /\ UNCHANGED <<call, force, env, inst, envFailed, succeeded, failed>>
      /\ \/ /\ buildPhase' = "envs" /\ todo' = {e \in ImageEnvs : env[e] = NotBuilt}
            /\ force => base'.by = call
         \/ buildPhase' = "broken"
  BY DEF Images!BuildBase, Images!EnvsMissing, Images!NoImage, NotBuilt
<1>3. ImageShape' /\ Standing'
  BY <1>1, <1>2 DEF ImageShape, Standing
<1>4. PoolsOnce'
  BY <1>1, <1>2 DEF PoolsOnce
<1>5. Forcing'
  BY <1>1, <1>2 DEF Forcing
<1> QED
  BY <1>3, <1>4, <1>5 DEF ImageInv

LEMMA BuildEnvGoes ==
    ASSUME ImageInv, NEW e \in ImageEnvs, Images!BuildEnv(e)
    PROVE  ImageInv'
<1>1. ImageShape /\ PoolsOnce /\ Standing /\ Forcing
  BY DEF ImageInv
<1> PICK x : x = [by |-> call, on |-> base.by]
  OBVIOUS
<1>2. /\ buildPhase = "envs" /\ e \in todo /\ todo' = todo \ {e}
      /\ UNCHANGED <<call, force, base, inst, buildPhase, succeeded, failed>>
      /\ \/ env' = [env EXCEPT ![e] = x] /\ envFailed' = envFailed
         \/ env' = env /\ envFailed' = envFailed \cup {e}
  BY DEF Images!BuildEnv, Images!FailedOnes
<1>3. succeeded = {} /\ failed = {} /\ env[e] = NotBuilt /\ e \notin envFailed
  BY <1>1, <1>2 DEF PoolsOnce
<1>4. x.by = call /\ x.on = base.by /\ (force => FreshImage(x, call))
  BY <1>1, <1>2 DEF Forcing, ImageShape, FreshImage
<1>5. /\ DOMAIN env' = ImageEnvs /\ \A f \in ImageEnvs : f # e => env'[f] = env[f]
      /\ env'[e] = x \/ env'[e] = NotBuilt
      /\ e \in envFailed' => env'[e] = NotBuilt
  BY <1>1, <1>2, <1>3 DEF ImageShape
<1>6. ImageShape'
  BY <1>1, <1>2, <1>5 DEF ImageShape
<1>7. PoolsOnce'
  BY <1>1, <1>2, <1>3, <1>5 DEF PoolsOnce
<1>8. Standing'
  BY <1>2, <1>3 DEF Standing
<1>9. Forcing'
  <2>1. ASSUME force, call > 0, NEW f \in ImageEnvs PROVE FreshImage(env'[f], call)
    BY <1>1, <1>2, <1>4, <1>5, <2>1 DEF Forcing, FreshImage
  <2> QED
    BY <1>1, <1>2, <2>1 DEF Forcing
<1> QED
  BY <1>6, <1>7, <1>8, <1>9 DEF ImageInv

LEMMA BuildInstanceGoes ==
    ASSUME ImageInv, NEW i \in ImageInstances, Images!BuildInstance(i)
    PROVE  ImageInv'
<1>1. ImageShape /\ PoolsOnce /\ Standing /\ Forcing
  BY DEF ImageInv
<1> PICK e : e = Images!EnvOf(i)
  OBVIOUS
<1>2. e \in ImageEnvs
  BY EnvThere
<1> PICK x : x = [by |-> call, on |-> env[e].by]
  OBVIOUS
<1>3. /\ buildPhase = "instances" /\ i \in todo /\ todo' = todo \ {i}
      /\ UNCHANGED <<call, force, base, env, buildPhase, envFailed>>
      /\ \/ /\ env[e] # NotBuilt /\ succeeded' = succeeded \cup {i} /\ failed' = failed
            /\ \/ inst[i] # NotBuilt /\ inst' = inst
               \/ inst[i] = NotBuilt /\ inst' = [inst EXCEPT ![i] = x]
         \/ inst' = inst /\ succeeded' = succeeded /\ failed' = failed \cup {i}
  BY DEF Images!BuildInstance, Images!HasEnv, Images!NoImage, NotBuilt
<1>4. i \notin succeeded /\ i \notin failed
  BY <1>1, <1>3 DEF PoolsOnce
<1>5. x # NotBuilt
  <2>1. x.by = call /\ call \in Nat
    BY <1>1 DEF ImageShape
  <2>2. NotBuilt.by = -1
    BY DEF NotBuilt
  <2> QED
    BY <2>1, <2>2
<1>6. /\ DOMAIN inst' = ImageInstances /\ \A j \in ImageInstances : j # i => inst'[j] = inst[j]
      /\ i \in succeeded' => inst'[i] # NotBuilt /\ env[e] # NotBuilt
      /\ inst'[i] = inst[i] \/ (env[e] # NotBuilt /\ inst'[i] = x)
  BY <1>1, <1>3, <1>4, <1>5 DEF ImageShape
<1>7. ImageShape'
  BY <1>1, <1>3, <1>6 DEF ImageShape
<1>8. PoolsOnce'
  BY <1>1, <1>3 DEF PoolsOnce
<1>9. Standing'
  <2>1. ASSUME NEW j \in succeeded' PROVE inst'[j] # NotBuilt /\ env[Images!EnvOf(j)] # NotBuilt
    BY <1>1, <1>3, <1>6 DEF Standing, ImageShape
  <2>2. succeeded' \cap failed' = {}
    BY <1>1, <1>3, <1>4 DEF Standing
  <2> QED
    BY <1>3, <2>1, <2>2 DEF Standing, Images!EnvOf
<1>10. Forcing'
  <2>1. ASSUME force, call > 0 PROVE env[e] # NotBuilt => FreshImage(x, call)
    BY <1>1, <1>2, <1>3, <2>1 DEF Forcing, FreshImage
  <2>2. ASSUME force, call > 0, NEW j \in ImageInstances PROVE FreshImage(inst'[j], call)
    BY <1>1, <1>3, <1>6, <2>1, <2>2 DEF Forcing
  <2> QED
    BY <1>1, <1>3, <2>2 DEF Forcing
<1> QED
  BY <1>7, <1>8, <1>9, <1>10 DEF ImageInv

LEMMA ImageStep ==
    ASSUME ImageInv, [Images!Next]_imageVars
    PROVE  ImageInv'
<1>1. ImageShape /\ PoolsOnce /\ Standing /\ Forcing
  BY DEF ImageInv
<1>2. CASE UNCHANGED imageVars
  BY <1>2 DEF ImageInv, ImageShape, PoolsOnce, Standing, Forcing, imageVars, Images!EnvOf
<1>3. CASE Images!Start
  <2>1. /\ call' = call + 1 /\ force' \in BOOLEAN /\ buildPhase' = "remove" /\ todo' = {}
        /\ envFailed' = {} /\ succeeded' = {} /\ failed' = {} /\ UNCHANGED <<env, inst>>
    BY <1>3 DEF Images!Start
  <2>2. ImageShape'
    BY <1>1, <2>1 DEF ImageShape
  <2> QED
    BY <2>1, <2>2 DEF ImageInv, PoolsOnce, Standing, Forcing
<1>4. CASE Images!Remove
  <2>1. /\ buildPhase = "remove" /\ buildPhase' = "base"
        /\ UNCHANGED <<call, force, envFailed, succeeded, failed>>
        /\ DOMAIN env' = ImageEnvs /\ DOMAIN inst' = ImageInstances
        /\ force => /\ \A e \in ImageEnvs : env'[e] = NotBuilt
                    /\ \A i \in ImageInstances : inst'[i] = NotBuilt
    BY <1>1, <1>4 DEF Images!Remove, Images!Stripped, Images!NoImage, NotBuilt, ImageShape
  <2>2. ImageShape' /\ PoolsOnce' /\ Standing'
    BY <1>1, <2>1 DEF ImageShape, PoolsOnce, Standing
  <2>3. Forcing'
    BY <1>1, <2>1 DEF Forcing, FreshImage
  <2> QED
    BY <2>2, <2>3 DEF ImageInv
<1>5. CASE Images!EnvsDone
  <2>1. /\ buildPhase = "envs" /\ buildPhase' = "instances"
        /\ UNCHANGED <<call, force, base, env, inst, envFailed, succeeded, failed>>
    BY <1>5 DEF Images!EnvsDone
  <2>2. ImageShape' /\ Standing' /\ Forcing'
    BY <1>1, <2>1 DEF ImageShape, Standing, Forcing, Images!EnvOf
  <2>3. PoolsOnce'
    BY <1>1, <2>1 DEF PoolsOnce
  <2> QED
    BY <2>2, <2>3 DEF ImageInv
<1>6. CASE Images!Return
  <2>1. /\ buildPhase = "instances" /\ buildPhase' = "idle"
        /\ UNCHANGED <<call, force, base, env, inst, envFailed, succeeded, failed>>
    BY <1>6 DEF Images!Return
  <2>2. ImageShape' /\ Standing' /\ Forcing'
    BY <1>1, <2>1 DEF ImageShape, Standing, Forcing, Images!EnvOf
  <2>3. PoolsOnce'
    BY <1>1, <2>1 DEF PoolsOnce
  <2> QED
    BY <2>2, <2>3 DEF ImageInv
<1> QED
  BY <1>2, <1>3, <1>4, <1>5, <1>6, BuildBaseGoes, BuildEnvGoes, BuildInstanceGoes DEF Images!Next

LEMMA ImageKeeps == ImageInv => Images!SuccessStands /\ Images!ForcedIsFresh
<1> SUFFICES ASSUME ImageInv PROVE Images!SuccessStands /\ Images!ForcedIsFresh
  OBVIOUS
<1>1. ImageShape /\ PoolsOnce /\ Standing /\ Forcing
  BY DEF ImageInv
<1>2. Images!SuccessStands
  BY <1>1 DEF PoolsOnce, Standing, Images!SuccessStands, Images!HasEnv, Images!NoImage, NotBuilt
<1>3. ASSUME buildPhase = "idle", call > 0, force, NEW i \in succeeded
      PROVE  /\ inst[i].by = call /\ inst[i].on = call
             /\ env[Images!EnvOf(i)].by = call /\ env[Images!EnvOf(i)].on = call
  <2>1. i \in ImageInstances /\ Images!EnvOf(i) \in ImageEnvs
    BY <1>1, <1>3, EnvThere DEF ImageShape
  <2> QED
    BY <1>1, <1>3, <2>1 DEF Standing, Forcing, FreshImage
<1> QED
  BY <1>2, <1>3 DEF Images!ForcedIsFresh

-----------------------------------------------------------------------------
(* The recorder.                                                           *)

Entries == [inf : Nat, eval : Nat, done : BOOLEAN]
Told(f) == f \in Entries => told.inf >= f.inf /\ told.eval >= f.eval

RecorderShape ==
    /\ inf \in Nat /\ evals \in Nat
    /\ evalFile = Rec!Torn \/ evalFile \in [count : Nat]
    /\ monFile = Rec!Torn \/ monFile \in Entries
    /\ snap \in Entries /\ told \in [inf : Nat, eval : Nat]
    /\ prev = Rec!None \/ prev \in Entries
    /\ stateFile \in {Rec!None, Rec!Torn} \/ stateFile \in Entries
    /\ lastEntry = Rec!None \/ lastEntry \in Entries

\* The state file, the last entry and what the recorder remembers are told, and one that
\* remembers nothing has no state file to forget.
RecorderInv ==
    /\ RecorderShape
    /\ Told(lastEntry) /\ Told(stateFile)
    /\ recorderPc # "down" => Told(prev)
    /\ recorderPc # "down" /\ prev = Rec!None => stateFile \notin Entries
    /\ recorderPc \in {"save", "saving"} => lastEntry = snap

LEMMA NoEntry == Rec!None \notin Entries /\ Rec!Torn \notin Entries
<1>1. ASSUME Rec!None \in Entries PROVE FALSE
  <2>1. "inf" \in DOMAIN Rec!None
    BY <1>1 DEF Entries
  <2> QED
    BY <2>1 DEF Rec!None
<1>2. ASSUME Rec!Torn \in Entries PROVE FALSE
  <2>1. "inf" \in DOMAIN Rec!Torn
    BY <1>2 DEF Entries
  <2> QED
    BY <2>1 DEF Rec!Torn
<1> QED
  BY <1>1, <1>2

LEMMA RecorderInit == Rec!Init => RecorderInv
<1> SUFFICES ASSUME Rec!Init PROVE RecorderInv
  OBVIOUS
<1>1. /\ inf = 0 /\ evals = 0 /\ evalFile = [count |-> 0] /\ monFile = Rec!Nothing
      /\ recorderPc = "down" /\ snap = Rec!Nothing /\ prev = Rec!None /\ stateFile = Rec!None
      /\ lastEntry = Rec!None /\ told = [inf |-> 0, eval |-> 0]
  BY DEF Rec!Init
<1>2. Rec!Nothing \in Entries
  BY DEF Rec!Nothing, Entries
<1> QED
  BY <1>1, <1>2, NoEntry DEF RecorderInv, RecorderShape, Told

LEMMA RecorderStep ==
    ASSUME RecorderInv, [Rec!Next]_recorderVars
    PROVE  RecorderInv'
<1>0. RecorderShape
  BY DEF RecorderInv
<1>1. CASE UNCHANGED recorderVars
  BY <1>1 DEF RecorderInv, RecorderShape, Told, recorderVars
<1>2. CASE Rec!Run
  <2>1. UNCHANGED <<recorderPc, snap, prev, stateFile, lastEntry, told>>
    BY <1>2 DEF Rec!Run, Rec!recorderVars
  <2>2. /\ inf' \in Nat /\ evals' \in Nat
        /\ evalFile' = Rec!Torn \/ evalFile' \in [count : Nat]
        /\ monFile' = Rec!Torn \/ monFile' \in Entries
    <3>1. CASE Rec!Inferred \/ Rec!Evaluated
      BY <1>0, <3>1 DEF Rec!Inferred, Rec!Evaluated, RecorderShape
    <3>2. CASE Rec!WorkerOpens \/ Rec!MonitorOpens
      BY <1>0, <3>2 DEF Rec!WorkerOpens, Rec!MonitorOpens, RecorderShape
    <3>3. CASE Rec!WorkerWrites
      BY <1>0, <3>3 DEF Rec!WorkerWrites, RecorderShape
    <3>4. CASE Rec!MonitorWrites
      <4>1. Rec!MonitorView \in Entries
        BY <1>0 DEF Rec!MonitorView, RecorderShape, Entries
      <4> QED
        BY <1>0, <3>4, <4>1 DEF Rec!MonitorWrites, RecorderShape
    <3> QED
      BY <1>2, <3>1, <3>2, <3>3, <3>4 DEF Rec!Run
  <2> QED
    BY <2>1, <2>2 DEF RecorderInv, RecorderShape, Told
<1>3. CASE Rec!Start
  <2>1. /\ recorderPc = "down" /\ recorderPc' = "infer"
        /\ prev' = IF stateFile \notin {Rec!Torn, Rec!None} THEN stateFile ELSE Rec!None
        /\ UNCHANGED <<inf, evals, evalFile, monFile, snap, stateFile, lastEntry, told>>
    BY <1>3 DEF Rec!Start, Rec!files, Rec!IsSnapshot
  <2> QED
    BY <1>0, <2>1, NoEntry DEF RecorderInv, RecorderShape, Told
<1>4. CASE Rec!ReadInference \/ Rec!ReadEval \/ Rec!ReadMonitor
  <2>1. /\ recorderPc \notin {"down", "save", "saving"} /\ recorderPc' \notin {"down", "save", "saving"}
        /\ UNCHANGED <<inf, evals, evalFile, monFile, prev, stateFile, lastEntry, told>>
    BY <1>4 DEF Rec!ReadInference, Rec!ReadEval, Rec!ReadMonitor, Rec!files
  <2>2. snap' \in Entries
    <3>1. CASE Rec!ReadInference
      BY <1>0, <3>1 DEF Rec!ReadInference, Rec!Nothing, RecorderShape, Entries
    <3>2. CASE Rec!ReadEval
      BY <1>0, <3>2 DEF Rec!ReadEval, RecorderShape, Entries
    <3>3. CASE Rec!ReadMonitor
      BY <1>0, <3>3 DEF Rec!ReadMonitor, RecorderShape, Entries
    <3> QED
      BY <1>4, <3>1, <3>2, <3>3
  <2> QED
    BY <2>1, <2>2 DEF RecorderInv, RecorderShape, Told
<1>5. CASE Rec!AppendEntry
  <2>1. /\ recorderPc = "decide" /\ recorderPc' = "save" /\ lastEntry' = snap
        /\ UNCHANGED <<inf, evals, evalFile, monFile, snap, prev, stateFile>>
        /\ \/ prev = Rec!None /\ told' = [inf |-> snap.inf, eval |-> snap.eval]
           \/ /\ prev # Rec!None
              /\ told' = [inf |-> told.inf + Rec!Advance(snap.inf, prev.inf),
                          eval |-> told.eval + Rec!Advance(snap.eval, prev.eval)]
    BY <1>5 DEF Rec!AppendEntry, Rec!Told, Rec!files
  <2>2. \A n, b \in Nat : Rec!Advance(n, b) \in Nat /\ b + Rec!Advance(n, b) >= n
    BY DEF Rec!Advance
  <2>3. /\ snap.inf \in Nat /\ snap.eval \in Nat /\ told.inf \in Nat /\ told.eval \in Nat
    BY <1>0 DEF RecorderShape, Entries
  <2>4. CASE prev = Rec!None
    <3>1. told'.inf = snap.inf /\ told'.eval = snap.eval /\ told' \in [inf : Nat, eval : Nat]
      BY <2>1, <2>3, <2>4
    <3>2. stateFile' \notin Entries /\ prev' \notin Entries /\ prev' = Rec!None
      BY <2>1, <2>4, NoEntry DEF RecorderInv
    <3> QED
      BY <1>0, <2>1, <2>3, <3>1, <3>2 DEF RecorderInv, RecorderShape, Told
  <2>5. CASE prev # Rec!None
    <3>1. prev \in Entries /\ prev.inf \in Nat /\ prev.eval \in Nat
          /\ told.inf >= prev.inf /\ told.eval >= prev.eval
      BY <1>0, <2>1, <2>5 DEF RecorderInv, RecorderShape, Entries, Told
    <3>2. PICK a, b \in Nat : a = Rec!Advance(snap.inf, prev.inf) /\ b = Rec!Advance(snap.eval, prev.eval)
      BY <2>2, <2>3, <3>1
    <3>3. prev.inf + a >= snap.inf /\ prev.eval + b >= snap.eval
      BY <2>2, <2>3, <3>1, <3>2
    <3>4. /\ told'.inf = told.inf + a /\ told'.eval = told.eval + b
      BY <2>1, <2>5, <3>2
    <3>5. told' \in [inf : Nat, eval : Nat]
      BY <2>1, <2>3, <2>5, <3>2
    <3>6. told'.inf >= snap.inf /\ told'.eval >= snap.eval /\ told'.inf >= told.inf
          /\ told'.eval >= told.eval
      BY <2>3, <3>1, <3>2, <3>3, <3>4
    <3>7. \A f \in Entries : f.inf \in Nat /\ f.eval \in Nat
      BY DEF Entries
    <3>8. \A f : Told(f) => (f \in Entries => told'.inf >= f.inf /\ told'.eval >= f.eval)
      BY <2>3, <3>2, <3>4, <3>6, <3>7 DEF Told
    <3>9. Told(lastEntry)' /\ Told(stateFile)' /\ Told(prev)'
      BY <2>1, <3>6, <3>8 DEF RecorderInv, Told
    <3> QED
      BY <1>0, <2>1, <2>5, <3>5, <3>9 DEF RecorderInv, RecorderShape
  <2> QED
    BY <2>4, <2>5
<1>6. CASE Rec!NothingToWrite
  <2>1. /\ recorderPc = "decide" /\ recorderPc' \in {"ended", "infer"}
        /\ UNCHANGED <<inf, evals, evalFile, monFile, snap, prev, stateFile, lastEntry, told>>
    BY <1>6 DEF Rec!NothingToWrite, Rec!Remember, Rec!AfterLoop, Rec!files
  <2> QED
    BY <2>1 DEF RecorderInv, RecorderShape, Told
<1>7. CASE Rec!OpenState
  <2>1. /\ recorderPc = "save" /\ recorderPc' = "saving" /\ stateFile' = Rec!Torn
        /\ UNCHANGED <<inf, evals, evalFile, monFile, snap, prev, lastEntry, told>>
    BY <1>7 DEF Rec!OpenState, Rec!files
  <2> QED
    BY <2>1, NoEntry DEF RecorderInv, RecorderShape, Told
<1>8. CASE Rec!SaveState
  <2>1. /\ recorderPc = "saving" /\ recorderPc' \in {"ended", "infer"}
        /\ stateFile' = snap /\ prev' = snap
        /\ UNCHANGED <<inf, evals, evalFile, monFile, snap, lastEntry, told>>
    BY <1>8 DEF Rec!SaveState, Rec!AfterLoop, Rec!files
  <2> QED
    BY <1>0, <2>1, NoEntry DEF RecorderInv, RecorderShape, Told
<1>9. CASE Rec!IntervalElapses
  BY <1>9 DEF Rec!IntervalElapses, Rec!files, RecorderInv, RecorderShape, Told
<1>10. CASE Rec!Dies
  BY <1>10 DEF Rec!Dies, Rec!files, RecorderInv, RecorderShape, Told
<1> QED
  BY <1>1, <1>2, <1>3, <1>4, <1>5, <1>6, <1>7, <1>8, <1>9, <1>10 DEF Rec!Next, Rec!Steps

LEMMA RecorderKeeps == RecorderInv => Rec!NothingSkipped
BY DEF RecorderInv, RecorderShape, Told, Rec!NothingSkipped

-----------------------------------------------------------------------------
(* The dashboard page.                                                     *)

PageInv == \A e \in cached : e[1] = e[2]

LEMMA PageInit == Page!Init => PageInv
BY DEF Page!Init, PageInv

\* Only a trace that arrives adds to the cache, under the key of its own call.
LEMMA PageStep ==
    ASSUME PageInv, [Page!Next]_pageVars
    PROVE  PageInv'
<1>1. CASE UNCHANGED pageVars
  BY <1>1 DEF pageVars, PageInv
<1>2. ASSUME NEW i, Page!TraceArrives(i)
      PROVE  PageInv'
  BY <1>2 DEF Page!TraceArrives, Page!CacheKey, PageInv
<1>3. CASE Page!Next /\ \A i : ~Page!TraceArrives(i)
  <2>1. UNCHANGED cached
    BY Zenon, <1>3 DEF Page!Next, Page!User, Page!Refresh, Page!Proceeds, Page!SelectRun, Page!SelectCase,
         Page!Rename, Page!Delete, Page!ServerReads, Page!ServerDeletes, Page!Lost,
         Page!RefreshGotRuns, Page!RefreshEnds, Page!DetailArrives, Page!DeleteArrives,
         Page!FailureArrives, Page!pageVars
  <2> QED
    BY <2>1 DEF PageInv
<1> QED
  BY <1>1, <1>2, <1>3

-----------------------------------------------------------------------------
(* The harness.                                                            *)

NoReport == [kind |-> "none"]
Grid(f, procs, instances) == DOMAIN f = procs /\ \A p \in procs : DOMAIN f[p] = instances

\* g is f but for the value at p and i.
Wrote(f, g, p, i, v) ==
    /\ DOMAIN g = DOMAIN f /\ \A q \in DOMAIN f : DOMAIN g[q] = DOMAIN f[q]
    /\ g[p][i] = v
    /\ \A q \in DOMAIN f : \A j \in DOMAIN f[q] : q # p \/ j # i => g[q][j] = f[q][j]

HarnessShape(h) ==
    /\ Grid(stage, h.procs, h.instances) /\ Grid(container, h.procs, h.instances)
    /\ Grid(report, h.procs, h.instances) /\ Grid(output, h.procs, h.instances)
    /\ DOMAIN phase = h.procs /\ DOMAIN mode = h.procs /\ DOMAIN prior = h.procs
    /\ DOMAIN existing = h.procs /\ DOMAIN summary = h.procs /\ DOMAIN image = h.instances
    /\ \A p \in h.procs : mode[p] \in {"run", "rewrite"}
    /\ starts \in Nat /\ crashes \in Nat

\* An instance in evaluation has no report yet; what is graded in a run did not time out;
\* and what a report calls resolved is the output beside it.
Settles(ph, m, s, r, o) ==
    /\ ph # "pool" => s \in {"out", "todo", "done"}
    /\ s \in {"image", "create", "tests"} => m = "run" /\ r = NoReport
    /\ s = "todo" /\ m = "run" => r = NoReport
    /\ m = "run" /\ s \in {"grade", "write"} => ~o.timedOut
    /\ r.kind = "report" /\ r.resolved => o.complete /\ o.by \in Passing /\ r.by = o.by

\* A container is one that tests run in, or that is about to be removed.
Held(m, s, c) == c # "none" => m = "run" /\ s \in {"tests", "grade", "write", "cleanup"}

Settling(h) ==
    \A p \in h.procs : \A i \in h.instances :
        Settles(phase[p], mode[p], stage[p][i], report[p][i], output[p][i])
Holding(h) ==
    crashes = 0 /\ ~h.removeFails =>
        \A p \in h.procs : \A i \in h.instances : Held(mode[p], stage[p][i], container[p][i])

HarnessInv(h) == HarnessShape(h) /\ Settling(h) /\ Holding(h)

LEMMA GridExcept ==
    ASSUME NEW procs, NEW instances, NEW f, Grid(f, procs, instances),
           NEW p \in procs, NEW i \in instances, NEW v, NEW g, g = [f EXCEPT ![p][i] = v]
    PROVE  Wrote(f, g, p, i, v)
BY DEF Grid, Wrote

LEMMA GridSame ==
    ASSUME NEW procs, NEW instances, NEW f, Grid(f, procs, instances),
           NEW p \in procs, NEW i \in instances
    PROVE  Wrote(f, f, p, i, f[p][i])
BY DEF Grid, Wrote

LEMMA GridWrote ==
    ASSUME NEW procs, NEW instances, NEW f, Grid(f, procs, instances),
           NEW p \in procs, NEW i \in instances, NEW v, NEW g, Wrote(f, g, p, i, v)
    PROVE  Grid(g, procs, instances)
BY DEF Grid, Wrote

LEMMA HarnessInit ==
    ASSUME NEW h, Harnessing(h)!Init
    PROVE  HarnessInv(h)
<1>1. /\ stage = [p \in h.procs |-> [i \in h.instances |-> "out"]]
      /\ container = [p \in h.procs |-> [i \in h.instances |-> "none"]]
      /\ report = [p \in h.procs |-> [i \in h.instances |-> NoReport]]
      /\ output = [p \in h.procs |-> [i \in h.instances |-> NoReport]]
      /\ DOMAIN phase = h.procs /\ mode = [p \in h.procs |-> "run"] /\ DOMAIN prior = h.procs
      /\ DOMAIN existing = h.procs /\ DOMAIN summary = h.procs /\ DOMAIN image = h.instances
      /\ starts = 0 /\ crashes = 0
  BY DEF Harnessing!Init, Harnessing!NoFile, NoReport
<1>2. HarnessShape(h)
  BY <1>1 DEF HarnessShape, Grid
<1>3. Settling(h)
  BY <1>1 DEF Settling, Settles, NoReport
<1>4. Holding(h)
  BY <1>1 DEF Holding, Held
<1> QED
  BY <1>2, <1>3, <1>4 DEF HarnessInv

\* A step of one instance.
LEMMA CellStep ==
    ASSUME NEW h, HarnessInv(h), NEW p \in h.procs, NEW i \in h.instances,
           NEW s, NEW c, NEW r, NEW o,
           Wrote(stage, stage', p, i, s), Wrote(container, container', p, i, c),
           Wrote(report, report', p, i, r), Wrote(output, output', p, i, o),
           UNCHANGED <<phase, mode, prior, existing, summary, starts, crashes>>,
           DOMAIN image' = h.instances,
           Settles(phase[p], mode[p], s, r, o),
           crashes = 0 /\ ~h.removeFails => Held(mode[p], s, c)
    PROVE  HarnessInv(h)'
<1>1. HarnessShape(h) /\ Settling(h) /\ Holding(h)
  BY DEF HarnessInv
<1>2. /\ Grid(stage, h.procs, h.instances) /\ Grid(container, h.procs, h.instances)
      /\ Grid(report, h.procs, h.instances) /\ Grid(output, h.procs, h.instances)
  BY <1>1 DEF HarnessShape
<1>3. /\ Grid(stage', h.procs, h.instances) /\ Grid(container', h.procs, h.instances)
      /\ Grid(report', h.procs, h.instances) /\ Grid(output', h.procs, h.instances)
  BY ONLY <1>2, GridWrote, p \in h.procs, i \in h.instances,
     Wrote(stage, stage', p, i, s), Wrote(container, container', p, i, c),
     Wrote(report, report', p, i, r), Wrote(output, output', p, i, o)
<1>4. HarnessShape(h)'
  BY <1>1, <1>3 DEF HarnessShape
<1>5. /\ stage'[p][i] = s /\ container'[p][i] = c /\ report'[p][i] = r /\ output'[p][i] = o
      /\ \A q \in h.procs : \A j \in h.instances : q # p \/ j # i =>
            /\ stage'[q][j] = stage[q][j] /\ container'[q][j] = container[q][j]
            /\ report'[q][j] = report[q][j] /\ output'[q][j] = output[q][j]
  BY <1>2 DEF Wrote, Grid
<1>6. Settling(h)'
  <2>1. ASSUME NEW q \in h.procs, NEW j \in h.instances
        PROVE  Settles(phase[q], mode[q], stage'[q][j], report'[q][j], output'[q][j])
    BY <1>1, <1>5 DEF Settling
  <2> QED
    BY <2>1 DEF Settling
<1>7. Holding(h)'
  <2>1. ASSUME crashes = 0, ~h.removeFails, NEW q \in h.procs, NEW j \in h.instances
        PROVE  Held(mode[q], stage'[q][j], container'[q][j])
    BY <1>1, <1>5, <2>1 DEF Holding
  <2> QED
    BY <2>1 DEF Holding
<1> QED
  BY <1>4, <1>6, <1>7 DEF HarnessInv

\* What each step of an instance writes.
LEMMA CellSteps ==
    ASSUME NEW h, HarnessInv(h), NEW p \in h.procs, NEW i \in h.instances,
           Harnessing(h)!Steps(p, i)
    PROVE  /\ HarnessInv(h)'
           /\ UNCHANGED <<phase, mode, prior, existing, summary, starts, crashes>>
<1> PICK ph, m, s, c, r, o :
      /\ ph = phase[p] /\ m = mode[p] /\ s = stage[p][i] /\ c = container[p][i]
      /\ r = report[p][i] /\ o = output[p][i]
  OBVIOUS
<1>1. /\ Grid(stage, h.procs, h.instances) /\ Grid(container, h.procs, h.instances)
      /\ Grid(report, h.procs, h.instances) /\ Grid(output, h.procs, h.instances)
      /\ Settles(ph, m, s, r, o) /\ (crashes = 0 /\ ~h.removeFails => Held(m, s, c))
      /\ DOMAIN image = h.instances /\ m \in {"run", "rewrite"}
  BY DEF HarnessInv, HarnessShape, Settling, Holding
<1>2. /\ Wrote(stage, stage, p, i, s) /\ Wrote(container, container, p, i, c)
      /\ Wrote(report, report, p, i, r) /\ Wrote(output, output, p, i, o)
  BY <1>1, GridSame
<1>3. UNCHANGED <<phase, mode, prior, existing, summary, starts, crashes>> /\ DOMAIN image' = h.instances
  BY <1>1 DEF Harnessing!Steps, Harnessing!Take, Harnessing!GetImage, Harnessing!Create,
       Harnessing!Tests, Harnessing!OpenReport, Harnessing!WriteReport, Harnessing!Cleanup,
       Harnessing!RemoveImage, Harnessing!process, Harnessing!docker, Harnessing!ImagesWithout
<1> SUFFICES HarnessInv(h)'
  BY <1>3
<1>4. ASSUME NEW t, Harnessing(h)!Goes(p, i, t)
      PROVE  Wrote(stage, stage', p, i, t)
  BY <1>1, <1>4, GridExcept DEF Harnessing!Goes
<1>5. ASSUME NEW t, Wrote(stage, stage', p, i, t), UNCHANGED <<container, report, output>>,
             Settles(ph, m, t, r, o), Held(m, s, c) => Held(m, t, c)
      PROVE  HarnessInv(h)'
  BY <1>1, <1>2, <1>3, <1>5, CellStep
<1>6. CASE Harnessing(h)!Take(p, i)
  <2>1. PICK t : /\ t = IF m = "rewrite" THEN "grade" ELSE "image"
                 /\ Harnessing(h)!Goes(p, i, t) /\ ph = "pool" /\ s = "todo"
                 /\ UNCHANGED <<container, report, output>>
    BY <1>6 DEF Harnessing!Take, Harnessing!files, Harnessing!docker
  <2>2. Wrote(stage, stage', p, i, t)
    BY <2>1, <1>4
  <2>3. Settles(ph, m, t, r, o) /\ (Held(m, s, c) => Held(m, t, c))
    BY <1>1, <2>1 DEF Settles, Held
  <2> QED
    BY <1>5, <2>1, <2>2, <2>3
<1>7. CASE Harnessing(h)!GetImage(p, i) \/ Harnessing(h)!RemoveImage(p, i)
  <2>1. PICK t \in {"create", "remove", "done"} :
            /\ Harnessing(h)!Goes(p, i, t) /\ s \in {"image", "remove"}
            /\ t = "create" => s = "image"
            /\ UNCHANGED <<container, report, output>>
    BY <1>7 DEF Harnessing!GetImage, Harnessing!RemoveImage, Harnessing!files
  <2>2. Wrote(stage, stage', p, i, t)
    BY <2>1, <1>4
  <2>3. Settles(ph, m, t, r, o) /\ (Held(m, s, c) => Held(m, t, c))
    BY <1>1, <2>1 DEF Settles, Held
  <2> QED
    BY <1>5, <2>1, <2>2, <2>3
<1>8. CASE Harnessing(h)!Create(p, i)
  <2>1. CASE Harnessing(h)!Goes(p, i, "remove") /\ UNCHANGED container
    <3>1. s = "create" /\ UNCHANGED <<report, output>>
      BY <1>8 DEF Harnessing!Create, Harnessing!files
    <3>2. Wrote(stage, stage', p, i, "remove")
      BY <2>1, <1>4
    <3>3. Settles(ph, m, "remove", r, o) /\ (Held(m, s, c) => Held(m, "remove", c))
      BY <1>1, <3>1 DEF Settles, Held
    <3> QED
      BY <1>5, <2>1, <3>1, <3>2, <3>3
  <2>2. CASE \E d \in {"running", "created"}, t \in {"tests", "cleanup"} :
                container' = [container EXCEPT ![p][i] = d] /\ Harnessing(h)!Goes(p, i, t)
    <3>1. PICK d \in {"running", "created"}, t \in {"tests", "cleanup"} :
              container' = [container EXCEPT ![p][i] = d] /\ Harnessing(h)!Goes(p, i, t)
      BY <2>2
    <3>2. s = "create" /\ UNCHANGED <<report, output>>
      BY <1>8 DEF Harnessing!Create, Harnessing!files
    <3>3. Wrote(stage, stage', p, i, t) /\ Wrote(container, container', p, i, d)
      BY <1>1, <1>4, <3>1, GridExcept
    <3>4. Settles(ph, m, t, r, o) /\ Held(m, t, d)
      BY <1>1, <3>1, <3>2 DEF Settles, Held
    <3> QED
      BY <1>2, <1>3, <3>2, <3>3, <3>4, CellStep
  <2> QED
    BY <1>8, <2>1, <2>2 DEF Harnessing!Create
<1>9. CASE Harnessing(h)!Tests(p, i)
  <2>1. s = "tests" /\ UNCHANGED <<container, report>>
    BY <1>9 DEF Harnessing!Tests, Harnessing!docker
  <2>2. CASE Harnessing(h)!Goes(p, i, "cleanup") /\ UNCHANGED output
    <3>1. Wrote(stage, stage', p, i, "cleanup")
      BY <2>2, <1>4
    <3>2. Settles(ph, m, "cleanup", r, o) /\ (Held(m, s, c) => Held(m, "cleanup", c))
      BY <1>1, <2>1 DEF Settles, Held
    <3> QED
      BY <1>5, <2>1, <2>2, <3>1, <3>2
  <2>3. CASE \E out1 : /\ output' = [output EXCEPT ![p][i] = out1]
                       /\ \/ Harnessing(h)!Goes(p, i, IF out1.timedOut THEN "cleanup"
                                                                      ELSE "grade")
                          \/ Harnessing(h)!Goes(p, i, "cleanup")
    <3>1. PICK out1, t : /\ output' = [output EXCEPT ![p][i] = out1]
                         /\ t \in {"cleanup", "grade"} /\ (t = "grade" => ~out1.timedOut)
                         /\ Harnessing(h)!Goes(p, i, t)
      <4>1. PICK out1 : /\ output' = [output EXCEPT ![p][i] = out1]
                        /\ \/ Harnessing(h)!Goes(p, i, IF out1.timedOut THEN "cleanup"
                                                                       ELSE "grade")
                           \/ Harnessing(h)!Goes(p, i, "cleanup")
        BY <2>3
      <4>2. CASE Harnessing(h)!Goes(p, i, "cleanup")
        BY <4>1, <4>2
      <4>3. CASE Harnessing(h)!Goes(p, i, IF out1.timedOut THEN "cleanup" ELSE "grade")
        BY <4>1, <4>3
      <4> QED
        BY <4>1, <4>2, <4>3
    <3>2. Wrote(stage, stage', p, i, t) /\ Wrote(output, output', p, i, out1)
      BY <1>1, <1>4, <3>1, GridExcept
    <3>3. Settles(ph, m, t, r, out1)
      BY <1>1, <2>1, <3>1 DEF Settles, NoReport
    <3>4. Held(m, s, c) => Held(m, t, c)
      BY <3>1 DEF Held
    <3> QED
      BY <1>1, <1>2, <1>3, <2>1, <3>2, <3>3, <3>4, CellStep
  <2> QED
    BY <1>9, <2>2, <2>3 DEF Harnessing!Tests, Harnessing!AfterTests
<1>10. CASE Harnessing(h)!OpenReport(p, i)
  <2>1. /\ s = "grade" /\ Harnessing(h)!Goes(p, i, "write")
        /\ report' = [report EXCEPT ![p][i] = [kind |-> "torn"]]
        /\ UNCHANGED <<container, output>>
    BY <1>10 DEF Harnessing!OpenReport, Harnessing!docker, Harnessing!Torn
  <2>2. Wrote(stage, stage', p, i, "write") /\ Wrote(report, report', p, i, [kind |-> "torn"])
    BY <1>1, <1>4, <2>1, GridExcept
  <2>3. Settles(ph, m, "write", [kind |-> "torn"], o) /\ (Held(m, s, c) => Held(m, "write", c))
    BY <1>1, <2>1 DEF Settles, Held
  <2> QED
    BY <1>1, <1>2, <1>3, <2>1, <2>2, <2>3, CellStep
<1>11. CASE Harnessing(h)!WriteReport(p, i)
  <2>1. PICK d, t : /\ s = "write" /\ Harnessing(h)!Goes(p, i, t)
                    /\ t = IF m = "rewrite" THEN "done" ELSE "cleanup"
                    /\ report' = [report EXCEPT ![p][i] = d]
                    /\ \/ d = [kind |-> "report", by |-> o.by,
                               resolved |-> o.complete /\ o.by \in Passing]
                       \/ d = [kind |-> "report", by |-> Harnessing(h)!Empty, resolved |-> FALSE]
                    /\ UNCHANGED <<container, output>>
    BY <1>11 DEF Harnessing!WriteReport, Harnessing!docker, Harnessing!Resolves
  <2>2. Wrote(stage, stage', p, i, t) /\ Wrote(report, report', p, i, d)
    BY <1>1, <1>4, <2>1, GridExcept
  <2>3. d.resolved => o.complete /\ o.by \in Passing /\ d.by = o.by
    <3>1. CASE d = [kind |-> "report", by |-> o.by, resolved |-> o.complete /\ o.by \in Passing]
      BY ONLY <3>1
    <3>2. CASE d = [kind |-> "report", by |-> Harnessing(h)!Empty, resolved |-> FALSE]
      <4>1. d.resolved = FALSE
        BY ONLY <3>2
      <4> QED
        BY ONLY <4>1
    <3> QED
      BY <2>1, <3>1, <3>2
  <2>4. Settles(ph, m, t, d, o)
    BY <1>1, <2>1, <2>3 DEF Settles
  <2>5. Held(m, s, c) => Held(m, t, c)
    BY <2>1 DEF Held
  <2> QED
    BY <1>1, <1>2, <1>3, <2>1, <2>2, <2>4, <2>5, CellStep
<1>12. CASE Harnessing(h)!Cleanup(p, i)
  <2>1. s = "cleanup" /\ Harnessing(h)!Goes(p, i, "remove") /\ UNCHANGED <<report, output>>
    BY <1>12 DEF Harnessing!Cleanup, Harnessing!files
  <2>2. Wrote(stage, stage', p, i, "remove") /\ Settles(ph, m, "remove", r, o)
    BY <1>1, <1>4, <2>1 DEF Settles
  <2>3. CASE container' = [container EXCEPT ![p][i] = "none"]
    <3>1. Wrote(container, container', p, i, "none") /\ Held(m, "remove", "none")
      BY <1>1, <2>3, GridExcept DEF Held
    <3> QED
      BY <1>2, <1>3, <2>1, <2>2, <3>1, CellStep
  <2>4. CASE h.removeFails /\ UNCHANGED container
    BY <1>2, <1>3, <2>1, <2>2, <2>4, CellStep
  <2> QED
    BY <1>12, <2>3, <2>4 DEF Harnessing!Cleanup
<1> QED
  BY <1>3, <1>6, <1>7, <1>8, <1>9, <1>10, <1>11, <1>12 DEF Harnessing!Steps

\* A step of a process, which leaves its files and containers alone.
LEMMA ProcessStep ==
    ASSUME NEW h, HarnessInv(h), NEW p \in h.procs, UNCHANGED <<report, output, container>>,
           DOMAIN phase' = h.procs, DOMAIN mode' = h.procs, DOMAIN prior' = h.procs,
           DOMAIN existing' = h.procs, DOMAIN summary' = h.procs, DOMAIN image' = h.instances,
           starts' \in Nat, crashes' \in Nat, mode'[p] \in {"run", "rewrite"},
           Grid(stage', h.procs, h.instances),
           \A q \in h.procs : q # p =>
               phase'[q] = phase[q] /\ mode'[q] = mode[q] /\ stage'[q] = stage[q],
           \A i \in h.instances :
               Settles(phase'[p], mode'[p], stage'[p][i], report[p][i], output[p][i]),
           crashes' = 0 => /\ crashes = 0
                           /\ phase[p] # "pool" \/ UNCHANGED <<mode, stage>>
    PROVE  HarnessInv(h)'
<1>1. HarnessShape(h) /\ Settling(h) /\ Holding(h)
  BY DEF HarnessInv
<1>2. HarnessShape(h)'
  BY <1>1 DEF HarnessShape
<1>3. Settling(h)'
  <2>1. ASSUME NEW q \in h.procs, NEW j \in h.instances
        PROVE  Settles(phase'[q], mode'[q], stage'[q][j], report'[q][j], output'[q][j])
    BY <1>1 DEF Settling
  <2> QED
    BY <2>1 DEF Settling
<1>4. Holding(h)'
  <2>1. ASSUME crashes' = 0, ~h.removeFails, NEW q \in h.procs, NEW j \in h.instances
        PROVE  Held(mode'[q], stage'[q][j], container'[q][j])
    <3>1. Held(mode[q], stage[q][j], container[q][j])
      BY <1>1, <2>1 DEF Holding
    <3>2. CASE q # p \/ UNCHANGED <<mode, stage>>
      BY <3>1, <3>2
    <3>3. CASE q = p /\ phase[p] # "pool"
      <4>1. stage[p][j] \in {"out", "todo", "done"}
        BY <1>1, <3>3 DEF Settling, Settles
      <4>2. container[p][j] = "none"
        BY <3>1, <3>3, <4>1 DEF Held
      <4> QED
        BY <3>3, <4>2 DEF Held
    <3> QED
      BY <2>1, <3>2, <3>3
  <2> QED
    BY <2>1 DEF Holding
<1> QED
  BY <1>2, <1>3, <1>4 DEF HarnessInv

LEMMA ProcessSteps ==
    ASSUME NEW h, HarnessInv(h), NEW p \in h.procs,
           \/ \E m \in {"run", "rewrite"} : Harnessing(h)!Start(p, m)
           \/ Harnessing(h)!StartPool(p) \/ Harnessing(h)!EndPool(p)
           \/ Harnessing(h)!Finish(p) \/ Harnessing(h)!Crash(p)
    PROVE  HarnessInv(h)'
<1>1. /\ DOMAIN phase = h.procs /\ DOMAIN mode = h.procs /\ DOMAIN prior = h.procs
      /\ DOMAIN existing = h.procs /\ DOMAIN summary = h.procs /\ DOMAIN image = h.instances
      /\ starts \in Nat /\ crashes \in Nat /\ mode[p] \in {"run", "rewrite"}
      /\ DOMAIN stage = h.procs /\ \A q \in h.procs : DOMAIN stage[q] = h.instances
      /\ \A i \in h.instances : Settles(phase[p], mode[p], stage[p][i], report[p][i], output[p][i])
  BY DEF HarnessInv, HarnessShape, Settling, Grid
<1>2. ASSUME NEW m \in {"run", "rewrite"}, Harnessing(h)!Start(p, m)
      PROVE  HarnessInv(h)'
  <2>0. PICK given : stage' = [stage EXCEPT ![p] =
            [i \in h.instances |-> IF i \in Harnessing(h)!Dataset(p, m, given) THEN "todo" ELSE "out"]]
    BY <1>2 DEF Harnessing!Start
  <2>1. PICK row : row = [i \in h.instances |->
                            IF i \in Harnessing(h)!Dataset(p, m, given) THEN "todo" ELSE "out"]
    OBVIOUS
  <2>2. ASSUME NEW i \in h.instances
        PROVE  row[i] = "out" \/ (row[i] = "todo" /\ (m = "run" => report[p][i] = NoReport))
    <3>1. i \in Harnessing(h)!Dataset(p, m, given) => (m = "run" => report[p][i] = NoReport)
      BY DEF Harnessing!Dataset, Harnessing!NoFile, NoReport
    <3> QED
      BY <2>1, <3>1
  <2>3. /\ phase[p] = "idle" /\ starts' \in Nat /\ crashes' = crashes
        /\ phase' = [phase EXCEPT ![p] = "start"] /\ mode' = [mode EXCEPT ![p] = m]
        /\ DOMAIN prior' = h.procs
        /\ UNCHANGED <<report, output, container, existing, summary>> /\ DOMAIN image' = h.instances
    BY <1>1, <1>2 DEF Harnessing!Start, Harnessing!docker
  <2>4. /\ Grid(stage', h.procs, h.instances) /\ stage'[p] = row /\ phase'[p] = "start"
        /\ mode'[p] = m /\ DOMAIN phase' = h.procs /\ DOMAIN mode' = h.procs
        /\ \A q \in h.procs : q # p =>
                phase'[q] = phase[q] /\ mode'[q] = mode[q] /\ stage'[q] = stage[q]
    BY <1>1, <2>0, <2>1, <2>3 DEF Grid
  <2>5. \A i \in h.instances : Settles(phase'[p], mode'[p], stage'[p][i], report[p][i], output[p][i])
    BY <1>1, <2>2, <2>4 DEF Settles
  <2>6. crashes' \in Nat /\ (crashes' = 0 => crashes = 0 /\ phase[p] # "pool")
    BY <1>1, <2>3
  <2> QED
    BY <1>1, <2>3, <2>4, <2>5, <2>6, ProcessStep
<1>3. CASE Harnessing(h)!StartPool(p)
  <2>1. /\ phase[p] = "start" /\ phase' = [phase EXCEPT ![p] = "pool"]
        /\ DOMAIN existing' = h.procs
        /\ UNCHANGED <<report, output, container, image, mode, stage, prior, summary, starts, crashes>>
    BY <1>1, <1>3 DEF Harnessing!StartPool, Harnessing!files, Harnessing!docker
  <2>2. /\ Grid(stage', h.procs, h.instances) /\ phase'[p] = "pool" /\ DOMAIN phase' = h.procs
        /\ \A q \in h.procs : q # p => phase'[q] = phase[q]
    BY <1>1, <2>1 DEF Grid
  <2>3. \A i \in h.instances : Settles(phase'[p], mode'[p], stage'[p][i], report[p][i], output[p][i])
    BY <1>1, <2>1, <2>2 DEF Settles
  <2> QED
    BY <1>1, <2>1, <2>2, <2>3, ProcessStep
<1>4. CASE Harnessing(h)!EndPool(p)
  <2>1. /\ phase[p] = "pool" /\ phase' = [phase EXCEPT ![p] = "clean"]
        /\ \A i \in h.instances : stage[p][i] \in {"out", "done"}
        /\ UNCHANGED <<report, output, container, image, mode, stage, prior, existing, summary,
                       starts, crashes>>
    BY <1>4 DEF Harnessing!EndPool, Harnessing!files, Harnessing!docker, Harnessing!Settled
  <2>2. /\ Grid(stage', h.procs, h.instances) /\ phase'[p] = "clean" /\ DOMAIN phase' = h.procs
        /\ \A q \in h.procs : q # p => phase'[q] = phase[q]
    BY <1>1, <2>1 DEF Grid
  <2>3. \A i \in h.instances : Settles(phase'[p], mode'[p], stage'[p][i], report[p][i], output[p][i])
    BY <1>1, <2>1, <2>2 DEF Settles
  <2> QED
    BY <1>1, <2>1, <2>2, <2>3, ProcessStep
<1>5. CASE Harnessing(h)!Finish(p) \/ Harnessing(h)!Crash(p)
  <2>1. /\ phase' = [phase EXCEPT ![p] = "idle"]
        /\ stage' = [stage EXCEPT ![p] = [i \in h.instances |-> "out"]]
        /\ UNCHANGED <<report, output, container, mode, prior, existing, starts>>
        /\ DOMAIN image' = h.instances /\ DOMAIN summary' = h.procs
        /\ (phase[p] = "clean" /\ crashes' = crashes) \/ crashes' = crashes + 1
    BY <1>1, <1>5 DEF Harnessing!Finish, Harnessing!Crash, Harnessing!files, Harnessing!docker,
         Harnessing!ImagesWithout
  <2>2. /\ Grid(stage', h.procs, h.instances) /\ phase'[p] = "idle" /\ DOMAIN phase' = h.procs
        /\ \A i \in h.instances : stage'[p][i] = "out"
        /\ \A q \in h.procs : q # p => phase'[q] = phase[q] /\ stage'[q] = stage[q]
    BY <1>1, <2>1 DEF Grid
  <2>3. \A i \in h.instances : Settles(phase'[p], mode'[p], stage'[p][i], report[p][i], output[p][i])
    BY <1>1, <2>1, <2>2 DEF Settles
  <2>4. crashes' \in Nat /\ (crashes' = 0 => crashes = 0 /\ phase[p] # "pool")
    BY <1>1, <2>1
  <2> QED
    BY <1>1, <2>1, <2>2, <2>3, <2>4, ProcessStep
<1> QED
  BY <1>2, <1>3, <1>4, <1>5

LEMMA HarnessStep ==
    ASSUME NEW h, HarnessInv(h), [Harnessing(h)!Next]_harnessVars
    PROVE  HarnessInv(h)'
<1>1. CASE UNCHANGED harnessVars
  BY <1>1 DEF harnessVars, HarnessInv, HarnessShape, Settling, Holding
<1>2. CASE Harnessing(h)!Next
  BY <1>2, CellSteps, ProcessSteps DEF Harnessing!Next, Harnessing!Acts
<1> QED
  BY <1>1, <1>2

Runs(h, i) == \E q \in h.procs : container[q][i] = "running"

\* A process alone, that has ended, left no image that was not there, but a running one.
LeftInv(h, p) ==
    /\ HarnessInv(h)
    /\ phase[p] = "idle" /\ starts > 0 /\ crashes = 0 =>
        \A i \in h.instances : image[i] # "none" /\ i \notin prior[p] => Runs(h, i)

LEMMA LeftInit ==
    ASSUME NEW h, NEW p, Harnessing(h)!Init
    PROVE  LeftInv(h, p)
BY HarnessInit DEF LeftInv, Harnessing!Init

LEMMA LeftStep ==
    ASSUME NEW h, NEW p, h.procs = {p}, h.keeping = {}, LeftInv(h, p),
           [Harnessing(h)!Next]_harnessVars
    PROVE  LeftInv(h, p)'
<1>1. HarnessInv(h) /\ HarnessInv(h)'
  BY HarnessStep DEF LeftInv
<1>2. /\ DOMAIN phase = h.procs /\ DOMAIN image = h.instances /\ crashes \in Nat
      /\ \A i \in h.instances : phase[p] # "pool" => stage[p][i] \in {"out", "todo", "done"}
  BY <1>1 DEF HarnessInv, HarnessShape, Settling, Settles
<1>3. SUFFICES ASSUME phase'[p] = "idle", starts' > 0, crashes' = 0, NEW i \in h.instances,
                      image'[i] # "none", i \notin prior'[p]
               PROVE  Runs(h, i)'
  BY <1>1 DEF LeftInv
<1>4. CASE UNCHANGED harnessVars
  BY <1>3, <1>4 DEF harnessVars, LeftInv, Runs
<1>5. ASSUME NEW j \in h.instances, Harnessing(h)!Steps(p, j)
      PROVE  FALSE
  <2>1. UNCHANGED phase
    BY <1>1, <1>5, CellSteps
  <2>2. stage[p][j] \in {"out", "todo", "done"} /\ phase[p] = "idle"
    BY <1>2, <1>3, <2>1
  <2> QED
    BY <1>5, <2>2 DEF Harnessing!Steps, Harnessing!Take, Harnessing!GetImage, Harnessing!Create,
         Harnessing!Tests, Harnessing!OpenReport, Harnessing!WriteReport, Harnessing!Cleanup,
         Harnessing!RemoveImage
<1>6. CASE \E m \in {"run", "rewrite"} : Harnessing(h)!Start(p, m)
  <2>1. phase' = [phase EXCEPT ![p] = "start"]
    BY <1>6 DEF Harnessing!Start
  <2> QED
    BY <1>2, <1>3, <2>1
<1>7. CASE Harnessing(h)!StartPool(p) \/ Harnessing(h)!EndPool(p)
  <2>1. phase' = [phase EXCEPT ![p] = "pool"] \/ phase' = [phase EXCEPT ![p] = "clean"]
    BY <1>7 DEF Harnessing!StartPool, Harnessing!EndPool
  <2> QED
    BY <1>2, <1>3, <2>1
<1>8. CASE Harnessing(h)!Crash(p)
  BY <1>2, <1>3, <1>8 DEF Harnessing!Crash
<1>9. CASE Harnessing(h)!Finish(p)
  <2>1. image' = Harnessing(h)!ImagesWithout(Harnessing(h)!ShouldRemove(p, prior[p]))
        /\ UNCHANGED <<container, prior>>
    BY <1>9 DEF Harnessing!Finish
  <2>2. i \in Harnessing(h)!ShouldRemove(p, prior[p])
    BY <1>3, <2>1 DEF Harnessing!ShouldRemove
  <2>3. ~Harnessing(h)!Removable(i)
    BY <1>3, <2>1, <2>2 DEF Harnessing!ImagesWithout, Harnessing!NoImage
  <2> QED
    BY <2>1, <2>3 DEF Harnessing!Removable, Runs
<1> QED
  BY <1>4, <1>5, <1>6, <1>7, <1>8, <1>9 DEF Harnessing!Next, Harnessing!Acts

LEMMA LeftKeeps ==
    ASSUME NEW h, NEW p, h.procs = {p}, LeftInv(h, p)
    PROVE  Harnessing(h)!NothingLeft
<1> SUFFICES ASSUME phase[p] = "idle", starts > 0, crashes = 0, NEW i \in h.instances
             PROVE  /\ container[p][i] # "none" => h.removeFails
                    /\ i \in Harnessing(h)!Present \ prior[p] => ~Harnessing(h)!Removable(i)
  BY DEF Harnessing!NothingLeft
<1>1. stage[p][i] \in {"out", "todo", "done"}
  BY DEF LeftInv, HarnessInv, Settling, Settles
<1>2. ~h.removeFails => Held(mode[p], stage[p][i], container[p][i])
  BY DEF LeftInv, HarnessInv, Holding
<1>3. container[p][i] # "none" => h.removeFails
  BY <1>1, <1>2 DEF Held
<1>4. i \in Harnessing(h)!Present \ prior[p] => Runs(h, i)
  BY DEF LeftInv, Harnessing!Present, Harnessing!NoImage
<1> QED
  BY <1>3, <1>4 DEF Harnessing!Removable, Runs

\* What a report that is counted as resolved is of; and no verdict on a timeout.
LEMMA VerdictSteps ==
    ASSUME NEW h, HarnessInv(h), [Harnessing(h)!Next]_harnessVars
    PROVE  Harnessing(h)!EarnsResolved /\ Harnessing(h)!SkipsTimeouts
<1>0. /\ DOMAIN summary = h.procs /\ Settling(h) /\ Grid(report, h.procs, h.instances)
  BY DEF HarnessInv, HarnessShape
<1>1. ASSUME NEW p \in h.procs, summary'[p] # summary[p], NEW i \in summary'[p].resolved
      PROVE  report[p][i].by \in Passing /\ output[p][i].complete
  <2>1. ASSUME NEW q \in h.procs, NEW j \in h.instances, Harnessing(h)!Steps(q, j)
        PROVE  UNCHANGED summary
    BY <2>1, CellSteps
  <2>2. PICK q \in h.procs : Harnessing(h)!Finish(q)
    BY <1>1, <2>1 DEF harnessVars, Harnessing!Next, Harnessing!Acts, Harnessing!Start,
         Harnessing!StartPool, Harnessing!EndPool, Harnessing!Crash
  <2>3. summary' = [summary EXCEPT ![q] = Harnessing(h)!Classified(q)]
    BY <2>2 DEF Harnessing!Finish
  <2>4. q = p /\ summary'[p] = Harnessing(h)!Classified(p)
    BY <1>0, <1>1, <2>3
  <2>5. i \in h.instances /\ report[p][i].kind = "report" /\ report[p][i].resolved
    BY <1>1, <2>4 DEF Harnessing!Classified
  <2>6. Settles(phase[p], mode[p], stage[p][i], report[p][i], output[p][i])
    BY <1>0, <2>5 DEF Settling
  <2> QED
    BY <2>5, <2>6 DEF Settles
<1>2. ASSUME NEW p \in h.procs, NEW i \in h.instances, mode[p] = "run",
             report'[p][i] # report[p][i]
      PROVE  ~output[p][i].timedOut
  <2>1. PICK q \in h.procs, j \in h.instances :
            Harnessing(h)!OpenReport(q, j) \/ Harnessing(h)!WriteReport(q, j)
    <3>1. ASSUME NEW q \in h.procs, NEW j \in h.instances, Harnessing(h)!Steps(q, j)
          PROVE  \/ Harnessing(h)!OpenReport(q, j) \/ Harnessing(h)!WriteReport(q, j)
                 \/ UNCHANGED report
      BY <3>1 DEF Harnessing!Steps, Harnessing!Take, Harnessing!GetImage, Harnessing!Create,
           Harnessing!Tests, Harnessing!Cleanup, Harnessing!RemoveImage, Harnessing!files
    <3>2. ASSUME NEW q \in h.procs, NEW m,
                 \/ Harnessing(h)!Start(q, m) \/ Harnessing(h)!StartPool(q)
                 \/ Harnessing(h)!EndPool(q) \/ Harnessing(h)!Finish(q) \/ Harnessing(h)!Crash(q)
          PROVE  UNCHANGED report
      BY <3>2 DEF Harnessing!Start, Harnessing!StartPool, Harnessing!EndPool, Harnessing!Crash,
           Harnessing!Finish, Harnessing!files
    <3>3. ~UNCHANGED report
      BY <1>2
    <3>4. Harnessing(h)!Next
      BY <3>3 DEF harnessVars
    <3> QED
      BY <3>1, <3>2, <3>3, <3>4 DEF Harnessing!Next, Harnessing!Acts
  <2>2. PICK r : report' = [report EXCEPT ![q][j] = r]
    BY <2>1 DEF Harnessing!OpenReport, Harnessing!WriteReport
  <2>3. Wrote(report, report', q, j, r)
    BY <1>0, <2>2, GridExcept
  <2>4. q = p /\ j = i
    BY <1>0, <1>2, <2>3 DEF Wrote, Grid
  <2>5. stage[p][i] \in {"grade", "write"}
    BY <2>1, <2>4 DEF Harnessing!OpenReport, Harnessing!WriteReport
  <2>6. Settles(phase[p], mode[p], stage[p][i], report[p][i], output[p][i])
    BY <1>0 DEF Settling
  <2> QED
    BY <1>2, <2>5, <2>6 DEF Settles
<1> QED
  BY <1>1, <1>2 DEF Harnessing!EarnsResolved, Harnessing!SkipsTimeouts

\* The only process that removes images kept those that there were when it started, as far
\* as its pool, where it leaves what existed alone.
OwnInv(h) ==
    /\ HarnessInv(h)
    /\ \A p \in h.procs : prior[p] \subseteq h.instances
    /\ \A p \in h.procs \ h.keeping :
        /\ phase[p] = "start" => \A i \in prior[p] : image[i] # "none"
        /\ phase[p] = "pool" => prior[p] \subseteq existing[p]

LEMMA OwnInit ==
    ASSUME NEW h, Harnessing(h)!Init
    PROVE  OwnInv(h)
<1>1. prior = [p \in h.procs |-> {}]
  BY DEF Harnessing!Init
<1> QED
  BY <1>1, HarnessInit DEF OwnInv

\* Without force nothing but the two removals takes an image away.
LEMMA ImagesStay ==
    ASSUME NEW h, h.force = FALSE, HarnessInv(h), [Harnessing(h)!Next]_harnessVars
    PROVE  \/ \A i \in h.instances : image[i] # "none" => image'[i] # "none"
           \/ \E p \in h.procs \ h.keeping :
                \/ Harnessing(h)!Finish(p)
                \/ \E j \in h.instances : Harnessing(h)!RemoveImage(p, j)
<1>0. DOMAIN image = h.instances
  BY DEF HarnessInv, HarnessShape
<1>1. CASE UNCHANGED image
  BY <1>1
<1>2. ASSUME NEW p \in h.procs, NEW i \in h.instances, Harnessing(h)!GetImage(p, i)
      PROVE  \A j \in h.instances : image[j] # "none" => image'[j] # "none"
  <2>1. UNCHANGED image \/ (image[i] = "none" /\ \E v : image' = [image EXCEPT ![i] = v])
    BY <1>2 DEF Harnessing!GetImage, Harnessing!NoImage
  <2> QED
    BY <1>0, <2>1
<1>3. ASSUME NEW p \in h.keeping, NEW S,
             image' = Harnessing(h)!ImagesWithout(Harnessing(h)!ShouldRemove(p, S))
                \/ \E j : image' = Harnessing(h)!ImagesWithout(Harnessing(h)!ShouldRemove(p, S) \cap {j})
      PROVE  \A j \in h.instances : image[j] # "none" => image'[j] # "none"
  <2>1. Harnessing(h)!ShouldRemove(p, S) = {}
    BY DEF Harnessing!ShouldRemove
  <2> QED
    BY <1>3, <2>1 DEF Harnessing!ImagesWithout
<1>4. ASSUME NEW p \in h.procs, Harnessing(h)!Acts(p), ~UNCHANGED image
      PROVE  \/ \A i \in h.instances : image[i] # "none" => image'[i] # "none"
             \/ /\ p \notin h.keeping
                /\ \/ Harnessing(h)!Finish(p)
                   \/ \E j \in h.instances : Harnessing(h)!RemoveImage(p, j)
  <2>1. CASE \E i \in h.instances : Harnessing(h)!GetImage(p, i)
    BY <2>1, <1>2
  <2>2. CASE Harnessing(h)!Finish(p)
    BY <1>3, <2>2 DEF Harnessing!Finish
  <2>3. CASE \E i \in h.instances : Harnessing(h)!RemoveImage(p, i)
    BY <1>3, <2>3 DEF Harnessing!RemoveImage
  <2>4. ASSUME NEW i \in h.instances, Harnessing(h)!Steps(p, i)
        PROVE  Harnessing(h)!GetImage(p, i) \/ Harnessing(h)!RemoveImage(p, i)
    BY <1>4, <2>4 DEF Harnessing!Steps, Harnessing!Take, Harnessing!Create, Harnessing!Tests,
         Harnessing!OpenReport, Harnessing!WriteReport, Harnessing!Cleanup, Harnessing!docker
  <2>5. ASSUME NEW m, \/ Harnessing(h)!Start(p, m) \/ Harnessing(h)!StartPool(p)
                      \/ Harnessing(h)!EndPool(p) \/ Harnessing(h)!Crash(p)
        PROVE  FALSE
    BY <1>4, <2>5 DEF Harnessing!Start, Harnessing!StartPool, Harnessing!EndPool,
         Harnessing!Crash, Harnessing!docker
  <2> QED
    BY <1>4, <2>1, <2>2, <2>3, <2>4, <2>5 DEF Harnessing!Acts
<1>5. CASE ~UNCHANGED image
  BY <1>4, <1>5 DEF harnessVars, Harnessing!Next
<1> QED
  BY <1>1, <1>5

LEMMA OwnStep ==
    ASSUME NEW h, h.force = FALSE, \A p, q \in h.procs \ h.keeping : p = q,
           OwnInv(h), [Harnessing(h)!Next]_harnessVars
    PROVE  OwnInv(h)'
<1>1. /\ HarnessInv(h) /\ HarnessInv(h)' /\ DOMAIN phase = h.procs /\ DOMAIN prior = h.procs
      /\ DOMAIN existing = h.procs /\ DOMAIN image = h.instances
      /\ \A p \in h.procs : prior[p] \subseteq h.instances
  BY HarnessStep DEF OwnInv, HarnessInv, HarnessShape
<1>2. CASE UNCHANGED harnessVars
  BY <1>2, <1>1 DEF harnessVars, OwnInv
<1>3. ASSUME NEW q \in h.procs, NEW m, Harnessing(h)!Start(q, m)
      PROVE  OwnInv(h)'
  <2>1. /\ phase' = [phase EXCEPT ![q] = "start"]
        /\ prior' = [prior EXCEPT ![q] = {i \in h.instances : image[i] # "none"}]
        /\ UNCHANGED <<image, existing>>
    BY <1>3 DEF Harnessing!Start, Harnessing!Present, Harnessing!NoImage, Harnessing!docker
  <2> QED
    BY <1>1, <2>1 DEF OwnInv
<1>4. ASSUME NEW q \in h.procs, Harnessing(h)!StartPool(q)
      PROVE  OwnInv(h)'
  <2>1. /\ phase[q] = "start" /\ phase' = [phase EXCEPT ![q] = "pool"]
        /\ existing' = [existing EXCEPT ![q] = {i \in h.instances : image[i] # "none"}]
        /\ UNCHANGED <<image, prior>>
    BY <1>4 DEF Harnessing!StartPool, Harnessing!Present, Harnessing!NoImage, Harnessing!docker
  <2>2. q \notin h.keeping => prior'[q] \subseteq existing'[q]
    BY <1>1, <2>1 DEF OwnInv
  <2>3. ASSUME NEW p \in h.procs \ h.keeping
        PROVE  /\ phase'[p] = "start" => \A i \in prior'[p] : image'[i] # "none"
               /\ phase'[p] = "pool" => prior'[p] \subseteq existing'[p]
    BY <1>1, <2>1, <2>2 DEF OwnInv
  <2> QED
    BY <1>1, <2>1, <2>3 DEF OwnInv
<1>5. ASSUME NEW q \in h.procs,
             \/ Harnessing(h)!EndPool(q) \/ Harnessing(h)!Finish(q) \/ Harnessing(h)!Crash(q)
      PROVE  OwnInv(h)'
  <2>1. /\ phase' = [phase EXCEPT ![q] = "clean"] \/ phase' = [phase EXCEPT ![q] = "idle"]
        /\ UNCHANGED <<prior, existing>> /\ (UNCHANGED image \/ Harnessing(h)!Finish(q))
    BY <1>5 DEF Harnessing!EndPool, Harnessing!Finish, Harnessing!Crash, Harnessing!docker
  <2>2. ASSUME NEW p \in h.procs \ h.keeping, phase'[p] = "start"
        PROVE  p # q /\ phase[p] = "start"
    BY <1>1, <2>1, <2>2
  <2>3. ASSUME NEW p \in h.procs \ h.keeping, phase'[p] = "start"
        PROVE  \A i \in prior[p] : image'[i] # "none"
    <3>1. p # q /\ phase[p] = "start" /\ \A i \in prior[p] : image[i] # "none" /\ i \in h.instances
      BY <1>1, <2>2, <2>3 DEF OwnInv
    <3>2. phase[p] # "clean" /\ q \in h.keeping
      BY <3>1
    <3>3. CASE Harnessing(h)!Finish(q)
      <4>1. image' = Harnessing(h)!ImagesWithout({})
        BY <3>2, <3>3 DEF Harnessing!Finish, Harnessing!ShouldRemove
      <4> QED
        BY <3>1, <4>1 DEF Harnessing!ImagesWithout
    <3> QED
      BY <2>1, <3>1, <3>3
  <2>4. ASSUME NEW p \in h.procs \ h.keeping, phase'[p] = "pool"
        PROVE  prior[p] \subseteq existing[p]
    BY <1>1, <2>1, <2>4 DEF OwnInv
  <2> QED
    BY <1>1, <2>1, <2>3, <2>4 DEF OwnInv
<1>6. ASSUME NEW q \in h.procs, NEW j \in h.instances, Harnessing(h)!Steps(q, j)
      PROVE  OwnInv(h)'
  <2>1. UNCHANGED <<phase, prior, existing>>
    BY <1>1, <1>6, CellSteps
  <2>2. ASSUME NEW p \in h.procs \ h.keeping, phase[p] = "start", NEW i \in prior[p]
        PROVE  image'[i] # "none"
    <3>1. i \in h.instances /\ image[i] # "none"
      BY <1>1, <2>2 DEF OwnInv
    <3>2. \A k \in h.instances : stage[p][k] \in {"out", "todo", "done"}
      BY <1>1, <2>2 DEF HarnessInv, Settling, Settles
    <3>3. ASSUME NEW r \in h.procs \ h.keeping
          PROVE  ~Harnessing(h)!Finish(r) /\ \A k \in h.instances : ~Harnessing(h)!RemoveImage(r, k)
      <4>1. r = p
        OBVIOUS
      <4> QED
        BY <2>2, <3>2, <4>1 DEF Harnessing!Finish, Harnessing!RemoveImage
    <3> QED
      BY <1>1, <3>1, <3>3, ImagesStay
  <2> QED
    BY <1>1, <2>1, <2>2 DEF OwnInv
<1> QED
  BY <1>2, <1>3, <1>4, <1>5, <1>6 DEF Harnessing!Next, Harnessing!Acts

LEMMA OwnKeeps ==
    ASSUME NEW h, h.force = FALSE, OwnInv(h), [Harnessing(h)!Next]_harnessVars
    PROVE  Harnessing(h)!KeepsPrior
<1>1. /\ HarnessInv(h) /\ DOMAIN phase = h.procs /\ Grid(stage, h.procs, h.instances)
  BY DEF OwnInv, HarnessInv, HarnessShape
<1> SUFFICES ASSUME NEW p \in h.procs, NEW i \in prior[p], ~CleanImages,
                    phase[p] # phase'[p] \/ stage[p] # stage'[p],
                    image[i] # "none", image'[i] = "none"
             PROVE  FALSE
  BY DEF Harnessing!KeepsPrior, Harnessing!NoImage
<1>2. i \in h.instances
  BY DEF OwnInv
<1>3. PICK q \in h.procs \ h.keeping :
        \/ Harnessing(h)!Finish(q)
        \/ \E j \in h.instances : Harnessing(h)!RemoveImage(q, j)
  BY <1>1, <1>2, ImagesStay
<1>4. CASE Harnessing(h)!Finish(q)
  <2>1. /\ phase' = [phase EXCEPT ![q] = "idle"]
        /\ stage' = [stage EXCEPT ![q] = [k \in h.instances |-> "out"]]
        /\ image' = Harnessing(h)!ImagesWithout(Harnessing(h)!ShouldRemove(q, prior[q]))
    BY <1>4 DEF Harnessing!Finish
  <2>2. q = p
    BY <1>1, <2>1 DEF Grid
  <2>3. i \notin Harnessing(h)!ShouldRemove(p, prior[p])
    BY <2>2 DEF Harnessing!ShouldRemove
  <2> QED
    BY <1>2, <2>1, <2>2, <2>3 DEF Harnessing!ImagesWithout
<1>5. ASSUME NEW j \in h.instances, Harnessing(h)!RemoveImage(q, j)
      PROVE  FALSE
  <2>1. /\ stage[q][j] = "remove" /\ stage' = [stage EXCEPT ![q][j] = "done"] /\ UNCHANGED phase
        /\ image' = Harnessing(h)!ImagesWithout(Harnessing(h)!ShouldRemove(q, existing[q]) \cap {j})
    BY <1>5 DEF Harnessing!RemoveImage, Harnessing!Goes, Harnessing!process
  <2>2. q = p
    BY <1>1, <2>1 DEF Grid
  <2>3. phase[p] = "pool"
    BY <1>1, <2>1, <2>2 DEF HarnessInv, Settling, Settles
  <2>4. i \in existing[p]
    BY <2>2, <2>3 DEF OwnInv
  <2>5. i \notin Harnessing(h)!ShouldRemove(p, existing[p])
    BY <2>2, <2>4 DEF Harnessing!ShouldRemove
  <2> QED
    BY <1>2, <2>1, <2>2, <2>5 DEF Harnessing!ImagesWithout
<1> QED
  BY <1>3, <1>4, <1>5

-----------------------------------------------------------------------------
(* The dashboard.                                                          *)

SummaryParts == {"infer", "eval", "reports"}
InFile == IF file["infer"] = -1 THEN 0 ELSE file["infer"]

DashboardShape(asking, most) ==
    /\ DOMAIN file = SummaryParts /\ DOMAIN covers = SummaryParts
    /\ DOMAIN pc = asking /\ DOMAIN script = asking /\ DOMAIN shielded = asking
    /\ DOMAIN got = asking /\ \A r \in asking : DOMAIN got[r] = SummaryParts
    /\ rows \in 0..most /\ file["infer"] \in -1..most
    /\ file["reports"] \in 0..most /\ covers["infer"] \in Nat
    /\ \A r \in asking : got[r]["infer"] \in Nat

\* What the runner holds in memory is ahead of its file.
RunnerAhead == runner => InFile <= rows

\* What a script has read is in the file, and in no summary more than that.
SummaryFollows(asking) ==
    /\ \A q, r \in asking : script[q] # "off" /\ script[r] # "off" => q = r
    /\ \A r \in asking : script[r] \notin {"off", "infer"} => got[r]["infer"] <= InFile
    /\ (\A q \in asking : pc[q] # "rmdir") =>
        /\ covers["infer"] <= InFile
        /\ \A r \in asking : script[r] \notin {"off", "infer"} => covers["infer"] <= got[r]["infer"]

Finished(most) == file["infer"] = most /\ file["reports"] = most

\* A run that showed progress still does while the monitor's file is torn, until it is done.
ProgressShown(most) ==
    /\ file["infer"] > 0 /\ file["reports"] > 0
    /\ monitor \in {"progress", "torn"} \/ (monitor = "done" /\ Finished(most))
ProgressShielded(asking, most) ==
    \A r \in asking : shielded[r] =>
        /\ \A q \in asking : pc[q] \notin {"rmdir", "rmlogs"}
        /\ ProgressShown(most)
        /\ pc[r] = "rm" => Finished(most)

DashboardInv(asking, most) ==
    /\ DashboardShape(asking, most) /\ RunnerAhead /\ SummaryFollows(asking) /\ ProgressShielded(asking, most)

LEMMA DashboardInit ==
    ASSUME NEW asking, NEW asked, NEW most \in Nat, Shown(asking, asked, most)!Init
    PROVE  DashboardInv(asking, most)
<1>1. /\ rows = 0 /\ DOMAIN file = SummaryParts /\ file["infer"] = -1 /\ file["reports"] = 0
      /\ covers = [s \in SummaryParts |-> 0]
      /\ script = [r \in asking |-> "off"] /\ got = [r \in asking |-> [s \in SummaryParts |-> 0]]
      /\ pc = [r \in asking |-> "idle"] /\ shielded = [r \in asking |-> FALSE]
  BY DEF Shown!Init, Shown!Nothing, Shown!Sources, Shown!Missing, SummaryParts
<1>2. covers["infer"] = 0 /\ \A r \in asking : DOMAIN got[r] = SummaryParts /\ got[r]["infer"] = 0
  BY <1>1 DEF SummaryParts
<1>3. InFile = 0
  BY <1>1 DEF InFile
<1>4. DashboardShape(asking, most)
  BY <1>1, <1>2 DEF DashboardShape, SummaryParts
<1>5. RunnerAhead /\ SummaryFollows(asking) /\ ProgressShielded(asking, most)
  BY <1>1, <1>2, <1>3 DEF RunnerAhead, SummaryFollows, ProgressShielded
<1> QED
  BY <1>4, <1>5 DEF DashboardInv

\* A step of the run only adds to what is inferred and reported.
LEMMA RunAdds ==
    ASSUME NEW asking, NEW asked, NEW most \in Nat, DashboardInv(asking, most),
           Shown(asking, asked, most)!Run
    PROVE  /\ UNCHANGED <<covers, script, got, pc, shielded>>
           /\ DOMAIN file' = SummaryParts /\ rows' \in 0..most
           /\ file'["infer"] \in -1..most /\ file'["reports"] \in 0..most
           /\ file'["infer"] >= file["infer"] /\ file'["reports"] >= file["reports"]
           /\ RunnerAhead'
           /\ monitor' = monitor \/ (monitor # "done" /\ monitor' = "torn")
                \/ (monitor = "torn" /\ monitor' = Shown(asking, asked, most)!MonitorView /\ UNCHANGED file)
<1>0. /\ DOMAIN file = SummaryParts /\ rows \in 0..most /\ file["infer"] \in -1..most
      /\ file["reports"] \in 0..most /\ RunnerAhead
      /\ "infer" \in SummaryParts /\ "eval" \in SummaryParts /\ "reports" \in SummaryParts
  BY DEF DashboardInv, DashboardShape, SummaryParts
<1>1. UNCHANGED <<covers, script, got, pc, shielded>>
  BY DEF Shown!Run, Shown!RunnerPublishes, Shown!RunnerWrites, Shown!RunnerMarksActive,
     Shown!RunnerEnds, Shown!RunnerResumes, Shown!WorkerOpens, Shown!WorkerWrites,
     Shown!WorkerEnds, Shown!ReportAppears, Shown!MonitorOpens, Shown!MonitorWrites,
     Shown!reqVars, Shown!scriptVars, Shown!summaryVars, Shown!Touch
<1>2. CASE Shown(asking, asked, most)!RunnerPublishes
  <2>1. /\ runner /\ rows < most /\ rows' = rows + 1
        /\ file' = [file EXCEPT !["infer"] = rows + 1] /\ UNCHANGED monitor
    BY <1>2 DEF Shown!RunnerPublishes, Shown!RunnerWrites
  <2>2. file'["infer"] = rows + 1 /\ file'["reports"] = file["reports"] /\ DOMAIN file' = SummaryParts
    BY <1>0, <2>1
  <2> QED
    BY <1>0, <1>1, <2>1, <2>2 DEF RunnerAhead, InFile
<1>3. CASE Shown(asking, asked, most)!RunnerMarksActive \/ Shown(asking, asked, most)!RunnerEnds
  <2>1. UNCHANGED <<rows, file, monitor>> /\ (runner' => runner)
    BY <1>3 DEF Shown!RunnerMarksActive, Shown!RunnerEnds, Shown!runVars
  <2> QED
    BY <1>0, <1>1, <2>1 DEF RunnerAhead, InFile
<1>4. CASE Shown(asking, asked, most)!RunnerResumes
  <2>1. /\ rows' = InFile /\ UNCHANGED monitor
        /\ file' = [file EXCEPT !["infer"] = rows'] \/ UNCHANGED file
        /\ rows' # 0 \/ UNCHANGED file
    BY <1>4 DEF Shown!RunnerResumes, Shown!RunnerWrites, Shown!ResumedRows, Shown!Missing, InFile
  <2>2. /\ file'["infer"] = rows' \/ file'["infer"] = file["infer"]
        /\ file'["reports"] = file["reports"] /\ DOMAIN file' = SummaryParts
    BY <1>0, <2>1
  <2>3. rows' \in 0..most
    BY <1>0, <2>1 DEF InFile
  <2>4. file'["infer"] = file["infer"]
    BY <1>0, <2>1, <2>2 DEF InFile
  <2> QED
    BY <1>0, <1>1, <2>1, <2>2, <2>3, <2>4 DEF RunnerAhead, InFile
<1>5. CASE \/ Shown(asking, asked, most)!WorkerOpens \/ Shown(asking, asked, most)!WorkerWrites
           \/ Shown(asking, asked, most)!WorkerEnds
  <2>1. /\ (\E v : file' = [file EXCEPT !["eval"] = v]) \/ UNCHANGED file
        /\ UNCHANGED <<rows, runner, monitor>>
    BY <1>5 DEF Shown!WorkerOpens, Shown!WorkerWrites, Shown!WorkerEnds, Shown!runVars
  <2>2. /\ file'["infer"] = file["infer"] /\ file'["reports"] = file["reports"]
        /\ DOMAIN file' = SummaryParts
    BY <1>0, <2>1
  <2> QED
    BY <1>0, <1>1, <2>1, <2>2 DEF RunnerAhead, InFile
<1>6. CASE Shown(asking, asked, most)!ReportAppears
  <2>1. /\ file["reports"] < rows /\ file' = [file EXCEPT !["reports"] = file["reports"] + 1]
        /\ UNCHANGED <<rows, runner, monitor>>
    BY <1>6 DEF Shown!ReportAppears, Shown!runVars
  <2>2. /\ file'["infer"] = file["infer"] /\ file'["reports"] = file["reports"] + 1
        /\ DOMAIN file' = SummaryParts
    BY <1>0, <2>1
  <2> QED
    BY <1>0, <1>1, <2>1, <2>2 DEF RunnerAhead, InFile
<1>7. CASE Shown(asking, asked, most)!MonitorWrites
  BY <1>0, <1>1, <1>7 DEF Shown!MonitorWrites, Shown!runVars, RunnerAhead, InFile
<1>8. CASE Shown(asking, asked, most)!MonitorOpens
  BY <1>0, <1>1, <1>8 DEF Shown!MonitorOpens, Shown!runVars, RunnerAhead, InFile
<1> QED
  BY <1>2, <1>3, <1>4, <1>5, <1>6, <1>7, <1>8 DEF Shown!Run

LEMMA RunKeepsSummary ==
    ASSUME NEW asking, NEW asked, NEW most \in Nat, DashboardInv(asking, most),
           Shown(asking, asked, most)!Run
    PROVE  DashboardInv(asking, most)'
<1> PICK view : view = Shown(asking, asked, most)!MonitorView
  OBVIOUS
<1>1. /\ UNCHANGED <<covers, script, got, pc, shielded>>
      /\ DOMAIN file' = SummaryParts /\ rows' \in 0..most
      /\ file'["infer"] \in -1..most /\ file'["reports"] \in 0..most
      /\ file'["infer"] >= file["infer"] /\ file'["reports"] >= file["reports"]
      /\ RunnerAhead'
      /\ monitor' = monitor \/ (monitor # "done" /\ monitor' = "torn")
           \/ (monitor = "torn" /\ monitor' = view /\ UNCHANGED file)
  BY RunAdds
<1>2. DashboardShape(asking, most) /\ SummaryFollows(asking) /\ ProgressShielded(asking, most)
  BY DEF DashboardInv
<1>3. DashboardShape(asking, most)'
  BY <1>1, <1>2 DEF DashboardShape
<1>4. InFile <= InFile' /\ InFile \in Nat /\ InFile' \in Nat
  BY <1>1, <1>2 DEF DashboardShape, InFile
<1>5. SummaryFollows(asking)'
  <2>1. ASSUME NEW r \in asking, script[r] \notin {"off", "infer"}
        PROVE  got[r]["infer"] <= InFile'
    BY <1>2, <1>4, <2>1 DEF SummaryFollows, DashboardShape
  <2>2. ASSUME \A q \in asking : pc[q] # "rmdir"
        PROVE  covers["infer"] <= InFile'
    BY <1>2, <1>4, <2>2 DEF SummaryFollows, DashboardShape
  <2> QED
    BY <1>1, <1>2, <2>1, <2>2 DEF SummaryFollows
<1>6. Finished(most) => Finished(most)'
  BY <1>1, <1>2 DEF Finished, DashboardShape
<1>7. file["infer"] > 0 => view \in {"progress"} \/ (view = "done" /\ Finished(most))
  BY DEF Shown!MonitorView, Finished
<1>8. ProgressShown(most) => ProgressShown(most)'
  <2> SUFFICES ASSUME ProgressShown(most) PROVE ProgressShown(most)'
    OBVIOUS
  <2>1. file'["infer"] > 0 /\ file'["reports"] > 0
    BY <1>1, <1>2 DEF ProgressShown, DashboardShape
  <2>2. monitor' \in {"progress", "torn"} \/ (monitor' = "done" /\ Finished(most)')
    BY <1>1, <1>6, <1>7 DEF ProgressShown
  <2> QED
    BY <2>1, <2>2 DEF ProgressShown
<1>9. ProgressShielded(asking, most)'
  BY <1>1, <1>2, <1>6, <1>8 DEF ProgressShielded
<1> QED
  BY <1>1, <1>3, <1>5, <1>9 DEF DashboardInv

\* A summary script: one at a time, since it has the event loop.
LEMMA ScriptKeepsSummary ==
    ASSUME NEW asking, NEW asked, NEW most \in Nat, DashboardInv(asking, most), NEW r \in asking,
           Shown(asking, asked, most)!RefreshStarts(r) \/ Shown(asking, asked, most)!ScriptGoesOn(r)
    PROVE  DashboardInv(asking, most)'
<1>1. DashboardShape(asking, most) /\ SummaryFollows(asking) /\ ProgressShielded(asking, most) /\ RunnerAhead
  BY DEF DashboardInv
<1>2. /\ DOMAIN script = asking /\ DOMAIN got = asking /\ DOMAIN pc = asking
      /\ \A q \in asking : DOMAIN got[q] = SummaryParts /\ got[q]["infer"] \in Nat
      /\ file["infer"] \in -1..most /\ covers["infer"] \in Nat /\ DOMAIN covers = SummaryParts
      /\ "infer" \in SummaryParts /\ "eval" \in SummaryParts /\ "reports" \in SummaryParts
  BY <1>1 DEF DashboardShape, SummaryParts
<1>3. UNCHANGED <<file, monitor, rows, runner>>
  BY DEF Shown!RefreshStarts, Shown!ScriptGoesOn, Shown!ScriptReads, Shown!ScriptOpens,
     Shown!ScriptWrites, Shown!runVars
<1>4. RunnerAhead' /\ InFile' = InFile /\ Finished(most)' = Finished(most) /\ ProgressShown(most)' = ProgressShown(most)
  BY <1>1, <1>3 DEF RunnerAhead, InFile, Finished, ProgressShown
<1>5. CASE Shown(asking, asked, most)!RefreshStarts(r)
  <2>1. /\ \A q \in asking : script[q] = "off"
        /\ script' = [script EXCEPT ![r] = "infer"] /\ UNCHANGED <<got, covers, pc, shielded>>
    BY <1>5 DEF Shown!RefreshStarts, Shown!At, Shown!summaryVars, Shown!reqVars
  <2>2. DashboardShape(asking, most)' /\ ProgressShielded(asking, most)'
    BY <1>1, <1>2, <1>3, <1>4, <2>1 DEF DashboardShape, ProgressShielded
  <2>3. SummaryFollows(asking)'
    BY <1>1, <1>2, <1>4, <2>1 DEF SummaryFollows
  <2> QED
    BY <1>4, <2>2, <2>3 DEF DashboardInv
<1>6. ASSUME NEW s \in SummaryParts, NEW next, Shown(asking, asked, most)!ScriptReads(r, s, next),
             s = "infer" \/ script[r] \notin {"off", "infer"}, next # "off"
      PROVE  DashboardInv(asking, most)'
  <2>1. PICK n \in Nat :
          /\ n = (IF file[s] \in 0..most THEN file[s] ELSE 0)
          /\ got' = [got EXCEPT ![r][s] = n] /\ script' = [script EXCEPT ![r] = next]
          /\ script[r] = s /\ UNCHANGED <<covers, pc, shielded>>
    <3>1. (IF file[s] \in 0..most THEN file[s] ELSE 0) \in Nat
      OBVIOUS
    <3> QED
      BY <1>6, <3>1 DEF Shown!ScriptReads, Shown!summaryVars, Shown!reqVars
  <2>2. /\ \A q \in asking : q # r => got'[q] = got[q] /\ script'[q] = script[q]
        /\ script'[r] = next /\ DOMAIN got' = asking /\ DOMAIN script' = asking
        /\ DOMAIN got'[r] = SummaryParts
        /\ got'[r]["infer"] = IF s = "infer" THEN n ELSE got[r]["infer"]
    BY <1>2, <2>1
  <2>3. s = "infer" => n = InFile
    BY <1>2, <2>1 DEF InFile
  <2>4. DashboardShape(asking, most)' /\ ProgressShielded(asking, most)'
    BY <1>1, <1>2, <1>3, <1>4, <2>1, <2>2 DEF DashboardShape, ProgressShielded
  <2>5. script[r] # "off"
    BY <1>6, <2>1
  <2>6. \A q \in asking : q # r => script[q] = "off" /\ script'[q] = "off"
    BY <1>1, <2>2, <2>5 DEF SummaryFollows
  <2>7. got'[r]["infer"] <= InFile
    BY <1>1, <1>2, <1>6, <2>2, <2>3 DEF SummaryFollows, InFile
  <2>8. (\A q \in asking : pc[q] # "rmdir") =>
            covers["infer"] <= InFile /\ covers["infer"] <= got'[r]["infer"]
    BY <1>1, <1>6, <2>2, <2>3 DEF SummaryFollows
  <2>9. SummaryFollows(asking)'
    BY <1>4, <2>1, <2>2, <2>6, <2>7, <2>8 DEF SummaryFollows
  <2> QED
    BY <1>4, <2>4, <2>9 DEF DashboardInv
<1>7. CASE Shown(asking, asked, most)!ScriptOpens(r)
  <2>1. /\ script[r] = "open" /\ script' = [script EXCEPT ![r] = "write"]
        /\ UNCHANGED <<got, covers, pc, shielded>>
    BY <1>7 DEF Shown!ScriptOpens
  <2>2. DashboardShape(asking, most)' /\ ProgressShielded(asking, most)'
    BY <1>1, <1>2, <1>3, <1>4, <2>1 DEF DashboardShape, ProgressShielded
  <2>3. SummaryFollows(asking)'
    BY <1>1, <1>2, <1>4, <2>1 DEF SummaryFollows
  <2> QED
    BY <1>4, <2>2, <2>3 DEF DashboardInv
<1>8. CASE Shown(asking, asked, most)!ScriptWrites(r)
  <2>1. /\ script[r] = "write" /\ script' = [script EXCEPT ![r] = "off"] /\ covers' = got[r]
        /\ got' = [got EXCEPT ![r] = [t \in SummaryParts |-> 0]]
        /\ pc' = [pc EXCEPT ![r] = "status"] /\ UNCHANGED shielded
    BY <1>8 DEF Shown!ScriptWrites, Shown!RefreshEnds, Shown!GoesTo, Shown!Nothing,
         Shown!Sources, SummaryParts
  <2>2. /\ \A q \in asking : script'[q] = "off"
        /\ \A q \in asking : DOMAIN got'[q] = SummaryParts /\ got'[q]["infer"] \in Nat
        /\ DOMAIN got' = asking /\ DOMAIN script' = asking /\ DOMAIN pc' = asking
        /\ covers'["infer"] <= InFile /\ covers'["infer"] \in Nat /\ DOMAIN covers' = SummaryParts
        /\ \A q \in asking : q # r => pc'[q] = pc[q]
        /\ pc'[r] = "status"
    BY <1>1, <1>2, <2>1 DEF SummaryFollows
  <2>3. DashboardShape(asking, most)' /\ SummaryFollows(asking)'
    BY <1>1, <1>2, <1>3, <1>4, <2>1, <2>2 DEF DashboardShape, SummaryFollows
  <2>4. ProgressShielded(asking, most)'
    BY <1>1, <1>4, <2>1, <2>2 DEF ProgressShielded
  <2> QED
    BY <1>4, <2>3, <2>4 DEF DashboardInv
<1>9. CASE \/ Shown(asking, asked, most)!ScriptReads(r, "infer", "eval")
           \/ Shown(asking, asked, most)!ScriptReads(r, "eval", "reports")
           \/ Shown(asking, asked, most)!ScriptReads(r, "reports", "open")
  <2>1. \A s, next : Shown(asking, asked, most)!ScriptReads(r, s, next) => script[r] = s
    BY DEF Shown!ScriptReads
  <2> QED
    BY <1>2, <1>6, <1>9, <2>1
<1> QED
  BY <1>5, <1>7, <1>8, <1>9 DEF Shown!ScriptGoesOn

\* A step of a request, while no script runs.
LEMMA RequestStep ==
    ASSUME NEW asking, NEW most \in Nat, DashboardInv(asking, most), NEW r \in asking, NEW step,
           \A q \in asking : script[q] = "off", UNCHANGED <<rows, runner, script, got>>,
           pc' = [pc EXCEPT ![r] = step], DOMAIN shielded' = asking,
           DOMAIN file' = SummaryParts, file'["infer"] \in {file["infer"], -1},
           file'["reports"] \in {file["reports"], 0},
           covers' = covers \/ (covers'["infer"] = 0 /\ DOMAIN covers' = SummaryParts),
           (\A q \in asking : pc'[q] # "rmdir") => covers'["infer"] <= InFile',
           ProgressShielded(asking, most)'
    PROVE  DashboardInv(asking, most)'
<1>1. DashboardShape(asking, most) /\ RunnerAhead
  BY DEF DashboardInv
<1>2. DashboardShape(asking, most)'
  BY <1>1 DEF DashboardShape
<1>3. RunnerAhead'
  BY <1>1 DEF RunnerAhead, InFile, DashboardShape
<1>4. SummaryFollows(asking)'
  BY DEF SummaryFollows
<1> QED
  BY <1>2, <1>3, <1>4 DEF DashboardInv

LEMMA RequestKeepsSummary ==
    ASSUME NEW asking, NEW asked, NEW most \in Nat, DashboardInv(asking, most), NEW r \in asking,
           \/ Shown(asking, asked, most)!Arrive(r) \/ Shown(asking, asked, most)!StatSummary(r)
           \/ Shown(asking, asked, most)!StatSources(r) \/ Shown(asking, asked, most)!ReadStatus(r)
    PROVE  DashboardInv(asking, most)'
<1>1. DashboardShape(asking, most) /\ SummaryFollows(asking) /\ ProgressShielded(asking, most)
  BY DEF DashboardInv
<1>2. /\ DOMAIN pc = asking /\ DOMAIN shielded = asking /\ DOMAIN file = SummaryParts
      /\ file["infer"] \in -1..most /\ file["reports"] \in 0..most
      /\ covers["infer"] \in Nat
  BY <1>1 DEF DashboardShape
<1>3. \A q \in asking : script[q] = "off"
  BY DEF Shown!Arrive, Shown!StatSummary, Shown!StatSources, Shown!ReadStatus, Shown!At
<1>4. UNCHANGED <<rows, runner, script, got, file, covers, monitor>>
  BY DEF Shown!Arrive, Shown!StatSummary, Shown!StatSources, Shown!ReadStatus, Shown!runVars,
     Shown!scriptVars, Shown!summaryVars
<1>5. InFile' = InFile /\ Finished(most)' = Finished(most) /\ ProgressShown(most)' = ProgressShown(most)
  BY <1>4 DEF InFile, Finished, ProgressShown
<1>6. PICK step :
        /\ pc[r] \in {"idle", "summary", "sources", "status"} /\ pc' = [pc EXCEPT ![r] = step]
        /\ step \in {"summary", "sources", "refresh", "status", "rm", "idle"}
        /\ \/ UNCHANGED shielded /\ (step = "rm" => pc[r] = "status" /\ Shown(asking, asked, most)!Status # "running")
           \/ step = "idle" /\ shielded' = [shielded EXCEPT ![r] = FALSE]
           \/ step = "summary" /\ shielded' = [shielded EXCEPT ![r] =
                Shown(asking, asked, most)!ShowsProgress /\ ~Shown(asking, asked, most)!Deleting]
  BY DEF Shown!Arrive, Shown!StatSummary, Shown!StatSources, Shown!ReadStatus, Shown!At,
     Shown!GoesTo, Shown!Answer
<1>7. /\ DOMAIN shielded' = asking /\ pc'[r] = step /\ \A q \in asking : q # r => pc'[q] = pc[q]
      /\ \A q \in asking : q # r => shielded'[q] = shielded[q]
  BY <1>2, <1>6
<1>8. \A q \in asking : pc'[q] \in {"rmdir", "rmlogs"} <=> pc[q] \in {"rmdir", "rmlogs"}
  BY <1>6, <1>7
<1>9. (\A q \in asking : pc'[q] # "rmdir") => covers["infer"] <= InFile
  BY <1>1, <1>6, <1>7 DEF SummaryFollows
<1>10. shielded'[r] =>
        /\ \A q \in asking : pc'[q] \notin {"rmdir", "rmlogs"}
        /\ ProgressShown(most) /\ (step = "rm" => Finished(most))
  <2> SUFFICES ASSUME shielded'[r]
               PROVE  /\ \A q \in asking : pc[q] \notin {"rmdir", "rmlogs"}
                      /\ ProgressShown(most) /\ (step = "rm" => Finished(most))
    BY <1>8
  <2>1. CASE UNCHANGED shielded /\ (step = "rm" => Shown(asking, asked, most)!Status # "running")
    <3>1. (\A q \in asking : pc[q] \notin {"rmdir", "rmlogs"}) /\ ProgressShown(most)
      BY <1>1, <2>1 DEF ProgressShielded
    <3>2. monitor \in {"progress", "torn"} => Shown(asking, asked, most)!Status = "running"
      BY <3>1 DEF ProgressShown, Shown!Status, Shown!ReportFallback
    <3> QED
      BY <2>1, <3>1, <3>2 DEF ProgressShown
  <2>2. CASE step = "summary" /\ shielded' = [shielded EXCEPT ![r] =
                Shown(asking, asked, most)!ShowsProgress /\ ~Shown(asking, asked, most)!Deleting]
    <3>1. Shown(asking, asked, most)!ShowsProgress /\ ~Shown(asking, asked, most)!Deleting
      BY <1>2, <2>2
    <3> QED
      BY <2>2, <3>1 DEF Shown!ShowsProgress, Shown!Deleting, ProgressShown
  <2>3. CASE step = "idle" /\ shielded' = [shielded EXCEPT ![r] = FALSE]
    BY <1>2, <2>3
  <2> QED
    BY <1>6, <2>1, <2>2, <2>3
<1>11. ProgressShielded(asking, most)'
  <2>1. ASSUME NEW q \in asking, shielded'[q]
        PROVE  /\ \A k \in asking : pc'[k] \notin {"rmdir", "rmlogs"}
               /\ ProgressShown(most) /\ (pc'[q] = "rm" => Finished(most))
    BY <1>1, <1>7, <1>8, <1>10, <2>1 DEF ProgressShielded
  <2> QED
    BY <1>5, <2>1 DEF ProgressShielded
<1>12. (\A q \in asking : pc'[q] # "rmdir") => covers'["infer"] <= InFile'
  BY <1>4, <1>5, <1>9
<1> QED
  BY <1>2, <1>3, <1>4, <1>6, <1>7, <1>11, <1>12, RequestStep

LEMMA DeleteKeepsSummary ==
    ASSUME NEW asking, NEW asked, NEW most \in Nat, DashboardInv(asking, most), NEW r \in asking,
           \/ Shown(asking, asked, most)!RmFiles(r) \/ Shown(asking, asked, most)!RmDir(r)
           \/ Shown(asking, asked, most)!RmLogs(r)
    PROVE  DashboardInv(asking, most)'
<1>1. DashboardShape(asking, most) /\ SummaryFollows(asking) /\ ProgressShielded(asking, most)
  BY DEF DashboardInv
<1>2. /\ DOMAIN pc = asking /\ DOMAIN shielded = asking /\ DOMAIN file = SummaryParts
      /\ file["infer"] \in -1..most /\ file["reports"] \in 0..most
      /\ covers["infer"] \in Nat
  BY <1>1 DEF DashboardShape
<1>3. /\ \A q \in asking : script[q] = "off"
      /\ UNCHANGED <<rows, runner, script, got>>
  BY DEF Shown!RmFiles, Shown!RmDir, Shown!RmLogs, Shown!At, Shown!runVars, Shown!scriptVars
<1>4. ASSUME NEW F, Shown(asking, asked, most)!Removed(F), F \subseteq {"infer", "eval", "monitor", "summary"}
      PROVE  /\ DOMAIN file' = SummaryParts /\ file'["infer"] = IF "infer" \in F THEN -1 ELSE file["infer"]
             /\ file'["reports"] = file["reports"]
             /\ IF "summary" \in F THEN covers' = [t \in SummaryParts |-> 0] ELSE UNCHANGED covers
             /\ DOMAIN shielded' = asking /\ \A q \in asking : ~shielded'[q]
  BY <1>4 DEF Shown!Removed, Shown!Missing, Shown!Sources, Shown!Nothing, SummaryParts
<1>5. CASE Shown(asking, asked, most)!RmFiles(r)
  <2>1. PICK F : /\ F \subseteq {"infer", "eval", "monitor", "summary"}
                 /\ Shown(asking, asked, most)!Removed(F) /\ pc' = [pc EXCEPT ![r] = "rmdir"]
    BY <1>5 DEF Shown!RmFiles, Shown!InRunDir, Shown!GoesTo
  <2>2. /\ DOMAIN file' = SummaryParts /\ file'["infer"] \in {file["infer"], -1}
        /\ file'["reports"] \in {file["reports"], 0}
        /\ covers' = covers \/ (covers'["infer"] = 0 /\ DOMAIN covers' = SummaryParts)
        /\ DOMAIN shielded' = asking /\ \A q \in asking : ~shielded'[q]
    BY <1>4, <2>1 DEF SummaryParts
  <2>3. ~\A q \in asking : pc'[q] # "rmdir"
    BY <1>2, <2>1
  <2>4. ProgressShielded(asking, most)'
    BY <2>2 DEF ProgressShielded
  <2> QED
    BY <1>3, <2>1, <2>2, <2>3, <2>4, RequestStep
<1>6. CASE Shown(asking, asked, most)!RmDir(r)
  <2>1. PICK step : /\ Shown(asking, asked, most)!Removed({"infer", "eval", "monitor", "summary"})
                    /\ pc' = [pc EXCEPT ![r] = step]
    BY <1>6 DEF Shown!RmDir, Shown!InRunDir, Shown!GoesTo
  <2>2. /\ DOMAIN file' = SummaryParts /\ file'["infer"] = -1
        /\ file'["reports"] = file["reports"] /\ covers' = [t \in SummaryParts |-> 0]
        /\ DOMAIN shielded' = asking /\ \A q \in asking : ~shielded'[q]
    BY <1>4, <2>1
  <2>3. covers'["infer"] = 0 /\ DOMAIN covers' = SummaryParts /\ covers'["infer"] <= InFile'
    BY <2>2 DEF SummaryParts, InFile
  <2>4. ProgressShielded(asking, most)'
    BY <2>2 DEF ProgressShielded
  <2> QED
    BY <1>3, <2>1, <2>2, <2>3, <2>4, RequestStep
<1>7. CASE Shown(asking, asked, most)!RmLogs(r)
  <2>1. /\ pc[r] = "rmlogs" /\ pc' = [pc EXCEPT ![r] = "idle"]
        /\ file' = [file EXCEPT !["reports"] = 0] /\ UNCHANGED <<covers, shielded>>
    BY <1>7 DEF Shown!RmLogs, Shown!At, Shown!GoesTo
  <2>2. /\ DOMAIN file' = SummaryParts /\ file'["infer"] = file["infer"] /\ file'["reports"] = 0
    BY <1>2, <2>1 DEF SummaryParts
  <2>3. \A q \in asking : ~shielded[q]
    BY <1>1, <2>1 DEF ProgressShielded
  <2>4. \A q \in asking : q # r => pc'[q] = pc[q]
    BY <1>2, <2>1
  <2>5. (\A q \in asking : pc'[q] # "rmdir") => covers'["infer"] <= InFile'
    BY <1>1, <2>1, <2>2, <2>4 DEF SummaryFollows, InFile
  <2>6. ProgressShielded(asking, most)'
    BY <2>1, <2>3 DEF ProgressShielded
  <2> QED
    BY <1>2, <1>3, <2>1, <2>2, <2>5, <2>6, RequestStep
<1> QED
  BY <1>5, <1>6, <1>7

LEMMA DashboardStep ==
    ASSUME NEW asking, NEW asked, NEW most \in Nat, DashboardInv(asking, most),
           [Shown(asking, asked, most)!Next]_dashboardVars
    PROVE  DashboardInv(asking, most)'
<1>1. CASE UNCHANGED dashboardVars
  BY <1>1 DEF dashboardVars, DashboardInv, DashboardShape, RunnerAhead, SummaryFollows,
       ProgressShielded, ProgressShown, Finished, InFile
<1>2. CASE Shown(asking, asked, most)!SlackElapses
  BY <1>2 DEF Shown!SlackElapses, Shown!runVars, Shown!scriptVars, Shown!reqVars, DashboardInv,
       DashboardShape, RunnerAhead, SummaryFollows, ProgressShielded, ProgressShown, Finished, InFile
<1>3. \A r : ~Shown(asking, asked, most)!ScriptDies(r)
  BY DEF Shown!ScriptDies
<1> QED
  BY <1>1, <1>2, <1>3, RunKeepsSummary, ScriptKeepsSummary, RequestKeepsSummary, DeleteKeepsSummary
     DEF Shown!Next, Shown!Request

LEMMA DashboardKeeps ==
    ASSUME NEW asking, NEW asked, NEW most \in Nat, DashboardInv(asking, most),
           [Shown(asking, asked, most)!Next]_dashboardVars
    PROVE  Shown(asking, asked, most)!RowsGrow /\ Shown(asking, asked, most)!ProtectsProgress
<1>1. DashboardShape(asking, most) /\ SummaryFollows(asking) /\ ProgressShielded(asking, most)
  BY DEF DashboardInv
<1>2. DOMAIN pc = asking /\ covers["infer"] \in Nat
  BY <1>1 DEF DashboardShape
<1>3. Shown(asking, asked, most)!RowsGrow
  <2> SUFFICES ASSUME ~Shown(asking, asked, most)!Deleting, ~Shown(asking, asked, most)!Deleting'
               PROVE  covers'["infer"] >= covers["infer"]
    BY DEF Shown!RowsGrow
  <2>1. \A q \in asking : pc[q] # "rmdir" /\ pc'[q] # "rmdir"
    BY DEF Shown!Deleting
  <2>2. CASE UNCHANGED covers
    BY <1>2, <2>2
  <2>3. ASSUME NEW r \in asking, Shown(asking, asked, most)!ScriptWrites(r)
        PROVE  covers'["infer"] >= covers["infer"]
    <3>1. script[r] = "write" /\ covers' = got[r] /\ got[r]["infer"] \in Nat
      BY <1>1, <2>3 DEF Shown!ScriptWrites, DashboardShape
    <3> QED
      BY <1>1, <1>2, <2>1, <3>1 DEF SummaryFollows
  <2>4. ASSUME NEW r \in asking, Shown(asking, asked, most)!RmFiles(r) \/ Shown(asking, asked, most)!RmDir(r)
        PROVE  FALSE
    <3>1. pc[r] = "rmdir" \/ pc' = [pc EXCEPT ![r] = "rmdir"]
      BY <2>4 DEF Shown!RmFiles, Shown!RmDir, Shown!At, Shown!GoesTo
    <3> QED
      BY <1>2, <2>1, <3>1
  <2>5. CASE Shown(asking, asked, most)!Run
    BY <2>2, <2>5, RunAdds
  <2>6. CASE Shown(asking, asked, most)!SlackElapses
    BY <2>2, <2>6 DEF Shown!SlackElapses
  <2>7. ASSUME NEW r \in asking,
               \/ Shown(asking, asked, most)!Arrive(r) \/ Shown(asking, asked, most)!Request(r)
               \/ Shown(asking, asked, most)!ScriptGoesOn(r) \/ Shown(asking, asked, most)!ScriptDies(r)
        PROVE  covers'["infer"] >= covers["infer"]
    <3>1. \/ Shown(asking, asked, most)!RmFiles(r) \/ Shown(asking, asked, most)!RmDir(r)
          \/ Shown(asking, asked, most)!ScriptWrites(r) \/ UNCHANGED covers
      BY <2>7 DEF Shown!Arrive, Shown!Request, Shown!StatSummary, Shown!StatSources,
           Shown!RefreshStarts, Shown!ReadStatus, Shown!RmLogs, Shown!ScriptGoesOn,
           Shown!ScriptReads, Shown!ScriptOpens, Shown!ScriptDies, Shown!summaryVars
    <3> QED
      BY <2>2, <2>3, <2>4, <3>1
  <2> QED
    BY <2>2, <2>5, <2>6, <2>7 DEF Shown!Next, dashboardVars
<1>4. Shown(asking, asked, most)!ProtectsProgress
  BY <1>1 DEF Shown!ProtectsProgress, ProgressShielded, Finished
<1> QED
  BY <1>3, <1>4

-----------------------------------------------------------------------------
(* All of them.                                                            *)

AroundInv ==
    /\ AttemptInv
    /\ part = "recorder" => RecorderInv
    /\ part = "viewed" => DashboardInv(ViewRequests, ViewedTotal)
    /\ part = "deleted" => DashboardInv(DeleteRequests, DeletedTotal)
    /\ part = "page" => PageInv
    /\ part = "graded" => LeftInv(GradedSetting, Grader)
    /\ part = "shared" => OwnInv(SharedSetting)
    /\ part = "forced" => LeftInv(ForcedSetting, Grader)
    /\ part = "images" => ImageInv
    /\ part = "grade" => GradeInv
    /\ part = "legacy_two" => RepairInv(LegacyCases)
    /\ part = "legacy_again" => RepairInv(1)

LEMMA AroundParts ==
    ASSUME [Next]_vars
    PROVE  /\ UNCHANGED part
           /\ part = "recorder" => [Rec!Next]_recorderVars
           /\ part = "viewed" => [Shown(ViewRequests, {"view"}, ViewedTotal)!Next]_dashboardVars
           /\ part = "deleted" => [Shown(DeleteRequests, {"delete"}, DeletedTotal)!Next]_dashboardVars
           /\ part = "page" => [Page!Next]_pageVars
           /\ part = "graded" => [Harnessing(GradedSetting)!Next]_harnessVars
           /\ part = "shared" => [Harnessing(SharedSetting)!Next]_harnessVars
           /\ part = "forced" => [Harnessing(ForcedSetting)!Next]_harnessVars
           /\ part = "images" => [Images!Next]_imageVars
           /\ part = "grade" => [Grade!Next]_gradeVars
<1>1. CASE UNCHANGED vars
  BY <1>1 DEF vars
<1>2. CASE Next
  <2>1. UNCHANGED part
    BY <1>2 DEF Next
  <2>2. ASSUME part = "recorder" PROVE Rec!Next
    BY <1>2, <2>2 DEF Next
  <2>3. ASSUME part = "viewed" PROVE Shown(ViewRequests, {"view"}, ViewedTotal)!Next
    BY <1>2, <2>3 DEF Next
  <2>4. ASSUME part = "deleted" PROVE Shown(DeleteRequests, {"delete"}, DeletedTotal)!Next
    BY <1>2, <2>4 DEF Next
  <2>5. ASSUME part = "page" PROVE Page!Next
    BY <1>2, <2>5 DEF Next
  <2>6. ASSUME part = "graded" PROVE Harnessing(GradedSetting)!Next
    BY <1>2, <2>6 DEF Next
  <2>7. ASSUME part = "shared" PROVE Harnessing(SharedSetting)!Next
    BY <1>2, <2>7 DEF Next
  <2>8. ASSUME part = "forced" PROVE Harnessing(ForcedSetting)!Next
    BY <1>2, <2>8 DEF Next
  <2>9. ASSUME part = "images" PROVE Images!Next
    BY <1>2, <2>9 DEF Next
  <2>10. ASSUME part = "grade" PROVE Grade!Next
    BY <1>2, <2>10 DEF Next
  <2> QED
    BY <2>1, <2>2, <2>3, <2>4, <2>5, <2>6, <2>7, <2>8, <2>9, <2>10
<1> QED
  BY <1>1, <1>2

LEMMA AroundSettings ==
    /\ ViewedTotal \in Nat /\ DeletedTotal \in Nat /\ LegacyCases \in Nat
    /\ GradedSetting.procs = {Grader} /\ GradedSetting.keeping = {}
    /\ ForcedSetting.procs = {Grader} /\ ForcedSetting.keeping = {}
    /\ SharedSetting.force = FALSE
    /\ \A p, q \in SharedSetting.procs \ SharedSetting.keeping : p = q
<1>1. ViewedTotal \in Nat /\ DeletedTotal \in Nat
  BY InstancesAssumption DEF InstancesAssumption, Shown!DashboardAssumption
<1>2. GradedSetting.procs = {Grader} /\ GradedSetting.keeping = {}
  BY DEF GradedSetting
<1>3. ForcedSetting.procs = {Grader} /\ ForcedSetting.keeping = {}
  BY DEF ForcedSetting
<1>4. /\ SharedSetting.force = FALSE /\ SharedSetting.procs = {Grader} \cup Keepers
      /\ SharedSetting.keeping = Keepers \ {Grader}
  BY DEF SharedSetting
<1> QED
  BY <1>1, <1>2, <1>3, <1>4, AttemptNumbers

LEMMA AroundStarts == Init => AroundInv
<1> SUFFICES ASSUME Init PROVE AroundInv
  OBVIOUS
<1>1. Rec!Init /\ Page!Init /\ Images!Init /\ Grade!Init
  BY DEF Init
<1>2. RecorderInv /\ PageInv /\ ImageInv /\ GradeInv /\ AttemptInv
  BY <1>1, RecorderInit, PageInit, ImageInit, GradeInit, AttemptStarts
<1>3. ASSUME part = "viewed" PROVE DashboardInv(ViewRequests, ViewedTotal)
  <2>1. Shown(ViewRequests, {"view"}, ViewedTotal)!Init
    BY <1>3 DEF Init
  <2> QED
    BY <2>1, AroundSettings, DashboardInit
<1>4. ASSUME part = "deleted" PROVE DashboardInv(DeleteRequests, DeletedTotal)
  <2>1. Shown(DeleteRequests, {"delete"}, DeletedTotal)!Init
    BY <1>4 DEF Init
  <2> QED
    BY <2>1, AroundSettings, DashboardInit
<1>5. ASSUME part = "graded" PROVE LeftInv(GradedSetting, Grader)
  <2>1. Harnessing(GradedSetting)!Init
    BY <1>5 DEF Init
  <2> QED
    BY <2>1, LeftInit
<1>6. ASSUME part = "shared" PROVE OwnInv(SharedSetting)
  <2>1. Harnessing(SharedSetting)!Init
    BY <1>6 DEF Init
  <2> QED
    BY <2>1, OwnInit
<1>7. ASSUME part = "forced" PROVE LeftInv(ForcedSetting, Grader)
  <2>1. Harnessing(ForcedSetting)!Init
    BY <1>7 DEF Init
  <2> QED
    BY <2>1, LeftInit
<1>8. ASSUME part = "legacy_two" PROVE RepairInv(LegacyCases)
  <2>1. Legacy(LegacyCases, 1)!Init
    BY <1>8 DEF Init
  <2> QED
    BY <2>1, AroundSettings, RepairInit
<1>9. ASSUME part = "legacy_again" PROVE RepairInv(1)
  <2>1. Legacy(1, MaxLegacyStarts)!Init
    BY <1>9 DEF Init
  <2> QED
    BY <2>1, RepairInit
<1> QED
  BY ONLY <1>2, <1>3, <1>4, <1>5, <1>6, <1>7, <1>8, <1>9 DEF AroundInv

LEMMA AroundSteps == AroundInv /\ [Next]_vars => AroundInv'
<1> SUFFICES ASSUME AroundInv, [Next]_vars PROVE AroundInv'
  OBVIOUS
<1>1. UNCHANGED part
  BY AroundParts
<1>2. AttemptInv /\ AttemptInv'
  BY AttemptSteps DEF AroundInv
<1>3. ASSUME part = "recorder" PROVE RecorderInv'
  BY <1>3, AroundParts, RecorderStep DEF AroundInv
<1>4. ASSUME part = "viewed" PROVE DashboardInv(ViewRequests, ViewedTotal)'
  <2>1. /\ DashboardInv(ViewRequests, ViewedTotal) /\ [Shown(ViewRequests, {"view"}, ViewedTotal)!Next]_dashboardVars
    BY <1>4, AroundParts DEF AroundInv
  <2> QED
    BY ONLY <2>1, AroundSettings, DashboardStep
<1>5. ASSUME part = "deleted" PROVE DashboardInv(DeleteRequests, DeletedTotal)'
  <2>1. /\ DashboardInv(DeleteRequests, DeletedTotal)
        /\ [Shown(DeleteRequests, {"delete"}, DeletedTotal)!Next]_dashboardVars
    BY <1>5, AroundParts DEF AroundInv
  <2> QED
    BY ONLY <2>1, AroundSettings, DashboardStep
<1>6. ASSUME part = "page" PROVE PageInv'
  BY <1>6, AroundParts, PageStep DEF AroundInv
<1>7. ASSUME part = "graded" PROVE LeftInv(GradedSetting, Grader)'
  <2>1. LeftInv(GradedSetting, Grader) /\ [Harnessing(GradedSetting)!Next]_harnessVars
    BY <1>7, AroundParts DEF AroundInv
  <2> QED
    BY ONLY <2>1, AroundSettings, LeftStep
<1>8. ASSUME part = "shared" PROVE OwnInv(SharedSetting)'
  <2>1. OwnInv(SharedSetting) /\ [Harnessing(SharedSetting)!Next]_harnessVars
    BY <1>8, AroundParts DEF AroundInv
  <2> QED
    BY ONLY <2>1, AroundSettings, OwnStep
<1>9. ASSUME part = "forced" PROVE LeftInv(ForcedSetting, Grader)'
  <2>1. LeftInv(ForcedSetting, Grader) /\ [Harnessing(ForcedSetting)!Next]_harnessVars
    BY <1>9, AroundParts DEF AroundInv
  <2> QED
    BY ONLY <2>1, AroundSettings, LeftStep
<1>10. ASSUME part = "images" PROVE ImageInv'
  BY <1>10, AroundParts, ImageStep DEF AroundInv
<1>11. ASSUME part = "grade" PROVE GradeInv'
  BY <1>11, AroundParts, GradeStep DEF AroundInv
<1>12. ASSUME part = "legacy_two" PROVE RepairInv(LegacyCases)'
  <2>1. LegacyInv(LegacyCases) /\ RepairInv(LegacyCases) /\ [Legacy(LegacyCases, 1)!Next]_legacyVars
    BY <1>2, <1>12, AttemptParts DEF AroundInv, AttemptInv
  <2> QED
    BY ONLY <2>1, AroundSettings, RepairStep
<1>13. ASSUME part = "legacy_again" PROVE RepairInv(1)'
  <2>1. LegacyInv(1) /\ RepairInv(1) /\ [Legacy(1, MaxLegacyStarts)!Next]_legacyVars
    BY <1>2, <1>13, AttemptParts DEF AroundInv, AttemptInv
  <2> QED
    BY ONLY <2>1, RepairStep
<1> QED
  BY ONLY <1>1, <1>2, <1>3, <1>4, <1>5, <1>6, <1>7, <1>8, <1>9, <1>10, <1>11, <1>12, <1>13 DEF AroundInv

\* However the recorder dies and whatever file it finds torn, its entries leave no advance
\* out; however answers overtake each other, a trace is cached under its own key.
THEOREM WatchersShow == Spec => []WatchersFaithful
<1>1. AroundInv => WatchersFaithful
  BY RecorderKeeps DEF AroundInv, PageInv, WatchersFaithful, Page!CacheHoldsOwnTraces
<1> QED
  BY <1>1, AroundStarts, AroundSteps, PTL DEF Spec

\* What is reported built stands on an environment that was built, after a forced call on
\* one of that call; and a harness process that ends, if none was killed, leaves no
\* container and no image of its own behind.
THEOREM ImagesHold == Spec => []ImagesStand
<1>1. AroundInv => ImagesStand
  <2> SUFFICES ASSUME AroundInv PROVE ImagesStand
    OBVIOUS
  <2>1. ASSUME part = "images" PROVE Images!SuccessStands /\ Images!ForcedIsFresh
    BY <2>1, ImageKeeps DEF AroundInv
  <2>2. ASSUME part = "graded" PROVE Harnessing(GradedSetting)!NothingLeft
    <3>1. LeftInv(GradedSetting, Grader)
      BY <2>2 DEF AroundInv
    <3> QED
      BY ONLY <3>1, AroundSettings, LeftKeeps
  <2>3. ASSUME part = "forced" PROVE Harnessing(ForcedSetting)!NothingLeft
    <3>1. LeftInv(ForcedSetting, Grader)
      BY <2>3 DEF AroundInv
    <3> QED
      BY ONLY <3>1, AroundSettings, LeftKeeps
  <2> QED
    BY <2>1, <2>2, <2>3 DEF ImagesStand
<1> QED
  BY <1>1, AroundStarts, AroundSteps, PTL DEF Spec

\* An instance that is resolved has no required test that failed; and with the lists that
\* a repair gave an instance, its gold patch is resolved and its tests alone are not.
THEOREM GradesHold == Spec => []ResolvedHasNoFailure
<1>1. AroundInv => ResolvedHasNoFailure
  <2> SUFFICES ASSUME AroundInv PROVE ResolvedHasNoFailure
    OBVIOUS
  <2>1. ASSUME part = "grade" PROVE Grade!ResolvedHasNoFailure
    BY <2>1, GradeKeeps DEF AroundInv
  <2>2. ASSUME part = "legacy_two" PROVE Legacy(LegacyCases, 1)!RepairEarned
    <3>1. RepairInv(LegacyCases)
      BY <2>2 DEF AroundInv
    <3> QED
      BY ONLY <3>1, AroundSettings, RepairKeeps
  <2>3. ASSUME part = "legacy_again" PROVE Legacy(1, MaxLegacyStarts)!RepairEarned
    <3>1. RepairInv(1)
      BY <2>3 DEF AroundInv
    <3> QED
      BY ONLY <3>1, RepairKeeps
  <2> QED
    BY <2>1, <2>2, <2>3 DEF ResolvedHasNoFailure
<1> QED
  BY <1>1, AroundStarts, AroundSteps, PTL DEF Spec

\* What the harness counts as resolved is a patch that passes whose tests ran to their end;
\* an evaluation that timed out gets no report in a run; and a process that may not clean
\* removes no image that was there before it.
THEOREM VerdictsHold == Spec => VerdictsEarned
<1>1. AroundInv /\ [Next]_vars =>
        [/\ part = "graded" => /\ Harnessing(GradedSetting)!EarnsResolved
                               /\ Harnessing(GradedSetting)!SkipsTimeouts
         /\ part = "shared" => Harnessing(SharedSetting)!KeepsPrior]_vars
  <2> SUFFICES ASSUME AroundInv, [Next]_vars
               PROVE  /\ part = "graded" => /\ Harnessing(GradedSetting)!EarnsResolved
                                            /\ Harnessing(GradedSetting)!SkipsTimeouts
                      /\ part = "shared" => Harnessing(SharedSetting)!KeepsPrior
    OBVIOUS
  <2>1. ASSUME part = "graded"
        PROVE  /\ Harnessing(GradedSetting)!EarnsResolved
               /\ Harnessing(GradedSetting)!SkipsTimeouts
    <3>1. HarnessInv(GradedSetting) /\ [Harnessing(GradedSetting)!Next]_harnessVars
      BY <2>1, AroundParts DEF AroundInv, LeftInv
    <3> QED
      BY ONLY <3>1, VerdictSteps
  <2>2. ASSUME part = "shared" PROVE Harnessing(SharedSetting)!KeepsPrior
    <3>1. OwnInv(SharedSetting) /\ [Harnessing(SharedSetting)!Next]_harnessVars
      BY <2>2, AroundParts DEF AroundInv
    <3> QED
      BY ONLY <3>1, AroundSettings, OwnKeeps
  <2> QED
    BY ONLY <2>1, <2>2
<1> QED
  BY <1>1, AroundStarts, AroundSteps, PTL DEF Spec, VerdictsEarned

\* However refreshes and the run overlap, no row leaves a summary that is not deleted; and
\* a DELETE that arrives while a run shows progress removes nothing before it is finished.
THEOREM SummaryHolds == Spec => SummaryKept
<1>1. AroundInv /\ [Next]_vars =>
        [/\ part = "viewed" => Shown(ViewRequests, {"view"}, ViewedTotal)!RowsGrow
         /\ part = "deleted" => Shown(DeleteRequests, {"delete"}, DeletedTotal)!ProtectsProgress]_vars
  <2> SUFFICES ASSUME AroundInv, [Next]_vars
               PROVE  /\ part = "viewed" => Shown(ViewRequests, {"view"}, ViewedTotal)!RowsGrow
                      /\ part = "deleted" =>
                            Shown(DeleteRequests, {"delete"}, DeletedTotal)!ProtectsProgress
    OBVIOUS
  <2>1. ASSUME part = "viewed" PROVE Shown(ViewRequests, {"view"}, ViewedTotal)!RowsGrow
    <3>1. DashboardInv(ViewRequests, ViewedTotal) /\ [Shown(ViewRequests, {"view"}, ViewedTotal)!Next]_dashboardVars
      BY <2>1, AroundParts DEF AroundInv
    <3> QED
      BY ONLY <3>1, AroundSettings, DashboardKeeps
  <2>2. ASSUME part = "deleted" PROVE Shown(DeleteRequests, {"delete"}, DeletedTotal)!ProtectsProgress
    <3>1. /\ DashboardInv(DeleteRequests, DeletedTotal)
          /\ [Shown(DeleteRequests, {"delete"}, DeletedTotal)!Next]_dashboardVars
      BY <2>2, AroundParts DEF AroundInv
    <3> QED
      BY ONLY <3>1, AroundSettings, DashboardKeeps
  <2> QED
    BY ONLY <2>1, <2>2
<1> QED
  BY <1>1, AroundStarts, AroundSteps, PTL DEF Spec, SummaryKept
=============================================================================
