-------------------------- MODULE BackgroundProofs --------------------------
(***************************************************************************)
(* Proofs about what the server does beside its requests: the jobs of      *)
(* Automations, for any number of jobs, editors, goroutines, edits and     *)
(* faults, and the files of Signals, for any number of writers, days,      *)
(* records and crashes.                                                    *)
(***************************************************************************)
EXTENDS Automations, Signals, FiniteSetTheorems, TLAPS

-----------------------------------------------------------------------------
(* Types.                                                                  *)

\* the state that syncState computes is a state
LEMMA SyncType ==
    ASSUME NEW prev \in State, NEW cfg \in Config
    PROVE  syncState(prev, cfg) \in State
<1>1. ASSUME NEW j \in Jobs PROVE syncState(prev, cfg)[j] \in JobState \cup {Absent}
  <2>1. CASE cfg[j] = Absent
    BY <2>1 DEF syncState
  <2>2. CASE cfg[j] # Absent
    <3>1. cfg[j] \in Job
      BY <2>2 DEF Config
    <3>2. nextScheduleAfter(cfg[j]) \in {"none", "later", "due"}
      BY DEF nextScheduleAfter
    <3>3. prev[j] # Absent => prev[j] \in JobState
      BY DEF State
    <3>4. (IF prev[j] = Absent THEN "none" ELSE prev[j].last) \in {"none", "running"} \cup Outcome
      BY <3>3 DEF JobState
    <3>5. QED
      BY <2>2, <3>2, <3>4 DEF syncState, JobState
  <2>3. QED
    BY <2>1, <2>2
<1>2. QED
  BY <1>1 DEF State, syncState

\* Upsert and SetEnabled prepare a well-typed edit
LEMMA PrepareType ==
    ASSUME TypeOK, NEW e \in Editors, NEW j \in Jobs, NEW v \in Job, Prepare(e, j, v)
    PROVE  TypeOK'
<1>. DEFINE cfg == [config EXCEPT ![j] = v]
<1>1. cfg \in Config /\ cfg[j] = v
  BY DEF TypeOK, StoreType, Config
<1>2. syncState(state, cfg) \in State
  BY <1>1, SyncType DEF TypeOK, StoreType
<1>3. edit' = [edit EXCEPT ![e] = [pc |-> "write_config", job |-> j, cfg |-> cfg, st |-> syncState(state, cfg)]]
  BY DEF Prepare
<1>. HIDE DEF cfg
<1>4. EditType'
  BY <1>1, <1>2, <1>3 DEF TypeOK, EditType, EditStep
<1>5. StoreType' /\ RunType'
  BY DEF Prepare, TypeOK, StoreType, RunType
<1>6. QED
  BY <1>4, <1>5 DEF TypeOK

\* the values that inputs and SetEnabled submit are jobs
LEMMA SubmittedType ==
    ASSUME TypeOK, NEW e \in Editors, NEW j \in Jobs, Upsert(e, j) \/ SetEnabled(e, j)
    PROVE  \E v \in Job : /\ Prepare(e, j, v)
                          /\ \/ v \in JobInputs
                             \/ config[j] # Absent /\ v.schedule = config[j].schedule
<1>1. CASE Upsert(e, j)
  BY <1>1, AutomationsAssumption DEF Upsert
<1>2. CASE SetEnabled(e, j)
  <2>1. PICK b \in BOOLEAN : Prepare(e, j, [config[j] EXCEPT !.enabled = b])
    BY <1>2 DEF SetEnabled
  <2>2. config[j] # Absent /\ config[j] \in Job
    BY <1>2 DEF SetEnabled, TypeOK, StoreType, Config
  <2>3. [config[j] EXCEPT !.enabled = b] \in Job /\ [config[j] EXCEPT !.enabled = b].schedule = config[j].schedule
    BY <2>2 DEF Job
  <2>4. QED
    BY <2>1, <2>2, <2>3
<1>3. QED
  BY <1>1, <1>2

(* Every step keeps the types.                                             *)
LEMMA TypeStep == TypeOK /\ [Next]_vars => TypeOK'
<1>. SUFFICES ASSUME TypeOK, [Next]_vars PROVE TypeOK'
  OBVIOUS
<1>. USE AutomationsAssumption
<1>f. Fault => faults' \in Nat
  BY DEF Fault, TypeOK, StoreType
<1>1. ASSUME NEW e \in Editors, NEW j \in Jobs, Upsert(e, j) \/ SetEnabled(e, j) PROVE TypeOK'
  BY <1>1, SubmittedType, PrepareType
<1>2. ASSUME NEW e \in Editors, WriteConfig(e) PROVE TypeOK'
  <2>1. EditType' /\ edit[e].cfg \in Config
    BY <1>2 DEF WriteConfig, EditTo, TypeOK, EditType, EditStep
  <2>2. QED
    BY <1>2, <2>1 DEF WriteConfig, TypeOK, StoreType, RunType
<1>3. ASSUME NEW e \in Editors, WriteState(e) PROVE TypeOK'
  <2>1. EditType' /\ edit[e].st \in State
    BY <1>3 DEF WriteState, EditTo, TypeOK, EditType, EditStep
  <2>2. QED
    BY <1>3, <2>1 DEF WriteState, TypeOK, StoreType, RunType
<1>n. NoEdit \in [pc : EditStep, job : Jobs \cup {Absent}, cfg : Config, st : State] /\ NoEdit.pc = "idle"
  BY DEF NoEdit, EditStep, Config, State, Nothing
<1>4. ASSUME NEW e \in Editors, Swap(e) PROVE TypeOK'
  <2>1. EditType'
    BY <1>4, <1>n DEF Swap, TypeOK, EditType
  <2>2. edit[e].job \in Jobs /\ edit[e].cfg \in Config /\ edit[e].st \in State
    BY <1>4 DEF Swap, TypeOK, EditType
  <2>3. acked' \in Config /\ loose' \in [Jobs -> SUBSET Job]
    BY <1>4, <2>2 DEF Swap, TypeOK, StoreType, Config
  <2>4. QED
    BY <1>4, <2>1, <2>2, <2>3 DEF Swap, TypeOK, StoreType, RunType
<1>a. ASSUME NEW E \in SUBSET Editors, Abandon(E) PROVE EditType' /\ loose' \in [Jobs -> SUBSET Job]
  <2>1. EditType'
    BY <1>a, <1>n DEF Abandon, TypeOK, EditType
  <2>2. ASSUME NEW j \in Jobs, NEW e \in E, edit[e].pc \in {"write_state", "swap"}, edit[e].job = j
        PROVE edit[e].cfg[j] \in Job
    BY <2>2 DEF TypeOK, EditType
  <2>3. QED
    BY <1>a, <2>1, <2>2 DEF Abandon, TypeOK, StoreType
<1>5. ASSUME NEW e \in Editors, WriteFails(e) PROVE TypeOK'
  <2>1. EditType' /\ loose' \in [Jobs -> SUBSET Job]
    BY <1>5, <1>a DEF WriteFails
  <2>2. QED
    BY <1>5, <2>1 DEF WriteFails, Fault, TypeOK, StoreType, RunType
<1>6. ASSUME NEW j \in Jobs, BecomeDue(j) PROVE TypeOK'
  <2>1. [state[j] EXCEPT !.next = "due"] \in JobState
    BY <1>6 DEF BecomeDue, TypeOK, StoreType, State, JobState
  <2>2. state' \in State
    BY <1>6, <2>1 DEF BecomeDue, TypeOK, StoreType, State
  <2>3. QED
    BY <1>6, <2>2 DEF BecomeDue, TypeOK, StoreType, EditType, RunType
<1>s. ASSUME NEW v \in Job PROVE Spawned(v) \in Run /\ Spawned(v).job = v /\ Spawned(v).n < v.attempts
  BY DEF Spawned, Run, Job
<1>7. CASE RunDue
  <2>. DEFINE D == {j \in Due : FreeSched(j) # {}}
              slot(j) == CHOOSE k \in FreeSched(j) : TRUE
  <2>1. ASSUME NEW j \in D PROVE j \in Jobs /\ slot(j) \in Slots /\ config[j] \in Job
    BY <2>1 DEF Due, FreeSched, Slots, TypeOK, StoreType, Config
  <2>2. /\ pc' = [j \in Jobs |-> IF j \in D THEN [pc[j] EXCEPT ![slot(j)] = "spawned"] ELSE pc[j]]
        /\ run' = [j \in Jobs |-> IF j \in D THEN [run[j] EXCEPT ![slot(j)] = Spawned(config[j])] ELSE run[j]]
    BY <1>7 DEF RunDue
  <2>. HIDE DEF D, slot
  <2>3. RunType'
    <3>1. running' = running
      BY <1>7 DEF RunDue
    <3>2. pc' \in [Jobs -> [Slots -> Body \cup {"free", "spawned"}]]
      BY <2>1, <2>2 DEF TypeOK, RunType
    <3>3. run' \in [Jobs -> [Slots -> Run]]
      BY <2>1, <2>2, <1>s DEF TypeOK, RunType
    <3>4. ASSUME NEW j \in Jobs, NEW k \in Slots
          PROVE \/ pc'[j][k] = pc[j][k] /\ run'[j][k] = run[j][k]
                \/ pc'[j][k] = "spawned" /\ \E v \in Job : run'[j][k] = Spawned(v)
      BY <2>1, <2>2 DEF TypeOK, RunType
    <3>5. QED
      BY <3>1, <3>2, <3>3, <3>4, <1>s DEF TypeOK, RunType
  <2>4. StoreType' /\ EditType'
    BY <1>7 DEF RunDue, TypeOK, StoreType, EditType
  <2>5. QED
    BY <2>3, <2>4 DEF TypeOK
<1>r. ASSUME NEW j \in Jobs, NEW k \in Slots, NEW p \in Body \cup {"free", "spawned"}, NEW r \in Run,
             running' \subseteq Jobs,
             pc' = [pc EXCEPT ![j][k] = p], run' = [run EXCEPT ![j][k] = r],
             p # "free" => r.job \in Job,
             p \in {"spawned", "mark_started", "execute", "backoff"} => r.n < r.job.attempts,
             p \in {"mark_finished", "finish"} => r.status # "running"
      PROVE  RunType'
  BY <1>r DEF TypeOK, RunType
<1>k. ASSUME NEW j \in Jobs, NEW k \in Slots, run' = run
      PROVE  run' = [run EXCEPT ![j][k] = run[j][k]] /\ run[j][k] \in Run
  BY <1>k DEF TypeOK, RunType
<1>m. ASSUME NEW j \in Jobs, NEW k \in Slots, NEW p \in Body \cup {"free", "spawned"},
             running' \subseteq Jobs, pc' = [pc EXCEPT ![j][k] = p], run' = run, pc[j][k] # "free",
             p \in {"spawned", "mark_started", "execute", "backoff"} =>
               pc[j][k] \in {"spawned", "mark_started", "execute", "backoff"},
             p \in {"mark_finished", "finish"} => pc[j][k] \in {"mark_finished", "finish"}
      PROVE  RunType'
  <2>1. run' = [run EXCEPT ![j][k] = run[j][k]] /\ run[j][k] \in Run
    BY <1>k, <1>m
  <2>2. /\ run[j][k].job \in Job
        /\ p \in {"spawned", "mark_started", "execute", "backoff"} => run[j][k].n < run[j][k].job.attempts
        /\ p \in {"mark_finished", "finish"} => run[j][k].status # "running"
    BY <1>m DEF TypeOK, RunType
  <2>3. QED
    BY <1>m, <1>r, <2>1, <2>2
<1>b. {"mark_started", "execute", "finish"} \subseteq Body
  BY DEF Body
<1>u. ASSUME NEW j \in Jobs, NEW s \in JobState, updateState(j, s)
      PROVE  state' \in State /\ stateFile' \in State /\ cleared' \subseteq Jobs /\ faults' \in Nat
  <2>1. state' \in State
    BY <1>u DEF updateState, TypeOK, StoreType, State
  <2>2. faults' \in Nat
    BY <1>u, <1>f DEF updateState, TypeOK, StoreType
  <2>3. QED
    BY <1>u, <2>1, <2>2 DEF updateState, TypeOK, StoreType
<1>8. ASSUME NEW j \in Jobs, NEW k \in Slots, RunNow(j, k) PROVE TypeOK'
  <2>1. config[j] \in Job
    BY <1>8 DEF RunNow, TypeOK, StoreType, Config
  <2>2. running' \subseteq Jobs
    BY <1>8 DEF RunNow, TypeOK, RunType
  <2>3. RunType'
    BY <1>8, <1>r, <1>s, <2>1, <2>2 DEF RunNow
  <2>4. QED
    BY <1>8, <2>3 DEF RunNow, TypeOK, StoreType, EditType
<1>9. ASSUME NEW j \in Jobs, NEW k \in Slots, tryStartRun(j, k) PROVE TypeOK'
  <2>1. PICK p \in {"free", "mark_started"} : pc' = [pc EXCEPT ![j][k] = p]
    BY <1>9 DEF tryStartRun
  <2>2. run' = run /\ running' \subseteq Jobs /\ pc[j][k] = "spawned"
    BY <1>9 DEF tryStartRun, TypeOK, RunType
  <2>3. RunType'
    BY <1>m, <1>b, <2>1, <2>2
  <2>4. QED
    BY <1>9, <2>3 DEF tryStartRun, TypeOK, StoreType, EditType
<1>10. ASSUME NEW j \in Jobs, NEW k \in Slots, markRunStarted(j, k) PROVE TypeOK'
  <2>1. nextScheduleAfter(run[j][k].job) \in {"none", "later", "due"}
    BY DEF nextScheduleAfter
  <2>2. [status |-> "running", last |-> "running", next |-> nextScheduleAfter(run[j][k].job)] \in JobState
    BY <2>1 DEF JobState
  <2>3. state' \in State /\ stateFile' \in State /\ cleared' \subseteq Jobs /\ faults' \in Nat
    BY <1>10, <1>u, <2>2 DEF markRunStarted
  <2>4. run' = run /\ running' \subseteq Jobs /\ pc[j][k] = "mark_started" /\ pc' = [pc EXCEPT ![j][k] = "execute"]
    BY <1>10 DEF markRunStarted, TypeOK, RunType
  <2>5. RunType'
    BY <1>m, <1>b, <2>4
  <2>6. QED
    BY <1>10, <2>3, <2>5 DEF markRunStarted, TypeOK, StoreType, EditType
<1>11. ASSUME NEW j \in Jobs, NEW k \in Slots, Attempt(j, k) PROVE TypeOK'
  <2>1. PICK s \in executeOnce(run[j][k].job) :
            LET r == [run[j][k] EXCEPT !.n = @ + 1, !.status = s] IN
            /\ run' = [run EXCEPT ![j][k] = r]
            /\ pc' = [pc EXCEPT ![j][k] = IF shouldRetry(r) THEN "backoff" ELSE "mark_finished"]
    BY <1>11 DEF Attempt
  <2>. DEFINE r == [run[j][k] EXCEPT !.n = @ + 1, !.status = s]
  <2>2. s \in Outcome
    BY <2>1 DEF executeOnce, Outcome
  <2>3. /\ run[j][k] \in Run /\ run[j][k].job \in Job /\ run[j][k].n < run[j][k].job.attempts
        /\ running' \subseteq Jobs
    BY <1>11 DEF Attempt, TypeOK, RunType
  <2>4. r \in Run /\ r.job \in Job /\ r.status # "running"
    <3>1. run[j][k].n \in 0..5 /\ run[j][k].job.attempts \in 1..5
      BY <2>3 DEF Run, Job
    <3>2. run[j][k].n + 1 \in 0..5
      BY <2>3, <3>1
    <3>3. QED
      BY <2>2, <2>3, <3>2 DEF Run, Outcome
  <2>. HIDE DEF r
  <2>5. run' = [run EXCEPT ![j][k] = r] /\ pc' = [pc EXCEPT ![j][k] = IF shouldRetry(r) THEN "backoff" ELSE "mark_finished"]
    BY <2>1 DEF r
  <2>6. RunType'
    BY <1>r, <2>3, <2>4, <2>5 DEF Body, shouldRetry
  <2>7. QED
    BY <1>11, <2>6 DEF Attempt, TypeOK, StoreType, EditType
<1>12. ASSUME NEW j \in Jobs, NEW k \in Slots, Backoff(j, k) PROVE TypeOK'
  <2>1. run' = run /\ running' \subseteq Jobs /\ pc[j][k] = "backoff" /\ pc' = [pc EXCEPT ![j][k] = "execute"]
    BY <1>12 DEF Backoff, TypeOK, RunType
  <2>2. RunType'
    BY <1>m, <1>b, <2>1
  <2>3. QED
    BY <1>12, <2>2 DEF Backoff, TypeOK, StoreType, EditType
<1>13. ASSUME NEW j \in Jobs, NEW k \in Slots, markRunFinished(j, k) PROVE TypeOK'
  <2>1. /\ run' = run /\ running' \subseteq Jobs /\ pc[j][k] = "mark_finished" /\ pc' = [pc EXCEPT ![j][k] = "finish"]
        /\ run[j][k].status \in Outcome
    BY <1>13 DEF markRunFinished, TypeOK, RunType, Run
  <2>2. nextScheduleAfter(run[j][k].job) \in {"none", "later", "due"}
    BY DEF nextScheduleAfter
  <2>3. [status |-> run[j][k].status, last |-> run[j][k].status, next |-> nextScheduleAfter(run[j][k].job)] \in JobState
    BY <2>1, <2>2 DEF JobState
  <2>4. state' \in State /\ stateFile' \in State /\ cleared' \subseteq Jobs /\ faults' \in Nat
    BY <1>13, <1>u, <2>3 DEF markRunFinished
  <2>5. RunType'
    BY <1>m, <1>b, <2>1
  <2>6. QED
    BY <1>13, <2>4, <2>5 DEF markRunFinished, TypeOK, StoreType, EditType
<1>o. NoRun \in Run
  BY DEF NoRun, Run
<1>14. ASSUME NEW j \in Jobs, NEW k \in Slots, finishRun(j, k) PROVE TypeOK'
  <2>1. running' \subseteq Jobs /\ pc' = [pc EXCEPT ![j][k] = "free"] /\ run' = [run EXCEPT ![j][k] = NoRun]
    BY <1>14 DEF finishRun, TypeOK, RunType
  <2>2. RunType'
    BY <1>r, <1>o, <2>1 DEF Body
  <2>3. QED
    BY <1>14, <2>2 DEF finishRun, TypeOK, StoreType, EditType
<1>15. CASE Crash
  <2>1. EditType' /\ loose' \in [Jobs -> SUBSET Job]
    BY <1>15, <1>a DEF Crash
  <2>2. RunType'
    BY <1>15, <1>o DEF Crash, RunType, Unstarted
  <2>3. Nothing \in Config /\ Nothing \in State
    BY DEF Nothing, Config, State
  <2>4. StoreType'
    BY <1>15, <1>f, <2>1, <2>3 DEF Crash, TypeOK, StoreType
  <2>5. QED
    BY <2>1, <2>2, <2>4 DEF TypeOK
<1>16. CASE Reload
  <2>1. state' \in State
    BY <1>16, SyncType DEF Reload, TypeOK, StoreType
  <2>2. QED
    BY <1>16, <2>1 DEF Reload, TypeOK, StoreType, EditType, RunType
<1>17. CASE UNCHANGED vars
  BY <1>17 DEF vars, TypeOK, StoreType, EditType, RunType
<1>18. QED
  BY <1>1, <1>2, <1>3, <1>4, <1>5, <1>6, <1>7, <1>8, <1>9, <1>10, <1>11, <1>12, <1>13, <1>14, <1>15, <1>16, <1>17
  DEF Next, Edit, runJob

LEMMA TypeInit == Init => TypeOK
<1>. SUFFICES ASSUME Init PROVE TypeOK
  OBVIOUS
<1>1. Nothing \in Config /\ Nothing \in State /\ NoRun \in Run
  BY DEF Nothing, Config, State, NoRun, Run
<1>2. StoreType
  BY <1>1 DEF Init, StoreType
<1>3. NoEdit \in [pc : EditStep, job : Jobs \cup {Absent}, cfg : Config, st : State] /\ NoEdit.pc = "idle"
  BY <1>1 DEF NoEdit, EditStep
<1>4. EditType
  BY <1>3 DEF Init, EditType
<1>5. RunType
  BY <1>1 DEF Init, RunType, Unstarted
<1>6. QED
  BY <1>2, <1>4, <1>5 DEF TypeOK

(* Every reachable state of the automation manager is well typed: files,   *)
(* memory, drafts of edits and runs, whose attempts stay within the limit  *)
(* of their job.                                                           *)
THEOREM TypeCorrect == Spec => []TypeOK
<1>1. QED
  BY TypeInit, TypeStep, PTL DEF Spec

-----------------------------------------------------------------------------
(* One run per job.                                                        *)

\* A run that tryStartRun let in holds the mark of its job.
Marked == \A j \in Jobs, k \in Slots : pc[j][k] \in Body => j \in running

(* The mark excludes a second run, and only the run that holds it drops it. *)
LEMMA ExclusionStep == TypeOK /\ Marked /\ OneRunPerJob /\ [Next]_vars => Marked' /\ OneRunPerJob'
<1>. SUFFICES ASSUME TypeOK, Marked, OneRunPerJob, [Next]_vars PROVE Marked' /\ OneRunPerJob'
  OBVIOUS
<1>t. pc \in [Jobs -> [Slots -> Body \cup {"free", "spawned"}]]
  BY DEF TypeOK, RunType
<1>1. CASE pc' = pc /\ running' = running
  BY <1>1 DEF Marked, OneRunPerJob
<1>2. ASSUME NEW j \in Jobs, NEW k \in Slots, NEW p, pc' = [pc EXCEPT ![j][k] = p], running' = running,
             p \in Body => pc[j][k] \in Body
      PROVE  Marked' /\ OneRunPerJob'
  <2>1. \A i \in Jobs, l \in Slots : pc'[i][l] \in Body => pc[i][l] \in Body
    BY <1>2, <1>t
  <2>2. QED
    BY <1>2, <2>1 DEF Marked, OneRunPerJob
<1>3. CASE RunDue
  <2>1. \A i \in Jobs, l \in Slots : pc'[i][l] \in Body => pc[i][l] \in Body
    BY <1>3, <1>t DEF RunDue, Body
  <2>2. running' = running
    BY <1>3 DEF RunDue
  <2>3. QED
    BY <2>1, <2>2 DEF Marked, OneRunPerJob
<1>4. ASSUME NEW j \in Jobs, NEW k \in Slots, RunNow(j, k) PROVE Marked' /\ OneRunPerJob'
  BY <1>4, <1>2 DEF RunNow, Body
<1>5. ASSUME NEW j \in Jobs, NEW k \in Slots, tryStartRun(j, k) PROVE Marked' /\ OneRunPerJob'
  <2>1. CASE j \in running
    BY <1>5, <1>2, <2>1 DEF tryStartRun, Body
  <2>2. CASE j \notin running
    <3>1. pc' = [pc EXCEPT ![j][k] = "mark_started"] /\ running' = running \cup {j}
      BY <1>5, <2>2 DEF tryStartRun
    <3>2. \A l \in Slots : pc[j][l] \notin Body
      BY <2>2 DEF Marked
    <3>3. \A i \in Jobs, l \in Slots : pc'[i][l] \in Body => (i = j /\ l = k) \/ (i # j /\ pc[i][l] \in Body)
      BY <1>t, <3>1, <3>2
    <3>4. QED
      BY <3>1, <3>3 DEF Marked, OneRunPerJob
  <2>3. QED
    BY <2>1, <2>2
<1>6. ASSUME NEW j \in Jobs, NEW k \in Slots, markRunStarted(j, k) PROVE Marked' /\ OneRunPerJob'
  BY <1>6, <1>2 DEF markRunStarted, Body
<1>7. ASSUME NEW j \in Jobs, NEW k \in Slots, Attempt(j, k) PROVE Marked' /\ OneRunPerJob'
  <2>1. PICK p : pc' = [pc EXCEPT ![j][k] = p]
    BY <1>7 DEF Attempt
  <2>2. pc[j][k] \in Body /\ running' = running
    BY <1>7 DEF Attempt, Body
  <2>3. QED
    BY <1>2, <2>1, <2>2
<1>8. ASSUME NEW j \in Jobs, NEW k \in Slots, Backoff(j, k) PROVE Marked' /\ OneRunPerJob'
  BY <1>8, <1>2 DEF Backoff, Body
<1>9. ASSUME NEW j \in Jobs, NEW k \in Slots, markRunFinished(j, k) PROVE Marked' /\ OneRunPerJob'
  BY <1>9, <1>2 DEF markRunFinished, Body
<1>10. ASSUME NEW j \in Jobs, NEW k \in Slots, finishRun(j, k) PROVE Marked' /\ OneRunPerJob'
  <2>1. pc' = [pc EXCEPT ![j][k] = "free"] /\ running' = running \ {j} /\ pc[j][k] \in Body
    BY <1>10 DEF finishRun, Body
  <2>2. \A l \in Slots : pc[j][l] \in Body => l = k
    BY <2>1 DEF OneRunPerJob
  <2>3. \A i \in Jobs, l \in Slots : pc'[i][l] \in Body => i # j /\ pc[i][l] \in Body
    BY <1>t, <2>1, <2>2 DEF Body
  <2>4. QED
    BY <2>1, <2>3 DEF Marked, OneRunPerJob
<1>11. CASE Crash
  BY <1>11 DEF Crash, Unstarted, Body, Marked, OneRunPerJob
<1>12. CASE Reload
  BY <1>1, <1>12 DEF Reload
<1>13. ASSUME NEW e \in Editors, NEW j \in Jobs, Upsert(e, j) \/ SetEnabled(e, j) PROVE Marked' /\ OneRunPerJob'
  BY <1>1, <1>13 DEF Upsert, SetEnabled, Prepare
<1>14. ASSUME NEW e \in Editors, Edit(e) PROVE Marked' /\ OneRunPerJob'
  BY <1>1, <1>14 DEF Edit, WriteConfig, WriteState, Swap, WriteFails
<1>15. ASSUME NEW j \in Jobs, BecomeDue(j) PROVE Marked' /\ OneRunPerJob'
  BY <1>1, <1>15 DEF BecomeDue
<1>16. CASE UNCHANGED vars
  BY <1>1, <1>16 DEF vars
<1>17. QED
  BY <1>3, <1>4, <1>5, <1>6, <1>7, <1>8, <1>9, <1>10, <1>11, <1>12, <1>13, <1>14, <1>15, <1>16 DEF Next, runJob

(* The scheduler and any number of operators never have two runs of the    *)
(* same job in runJob at a time.                                           *)
THEOREM NoOverlap == Spec => []OneRunPerJob
<1>1. Init => Marked /\ OneRunPerJob
  BY DEF Init, Unstarted, Body, Marked, OneRunPerJob
<1>2. QED
  BY <1>1, TypeInit, TypeStep, ExclusionStep, PTL DEF Spec

-----------------------------------------------------------------------------
(* Edits, with one editor at a time.                                       *)

\* an edit changes its own job only, and no process means no edit
Drafted == \A e \in Editors : edit[e].pc # "idle" =>
                /\ up
                /\ \A i \in Jobs : i # edit[e].job => edit[e].cfg[i] = config[i]

InFile(e) == edit[e].pc \in {"write_state", "swap"}

\* what the editor has written is still there
Written == \A e \in Editors : InFile(e) => cfgFile = edit[e].cfg

\* what the file says of a job was acknowledged, or failed half-way, or is being written
FileKept == \A j \in Jobs : \/ cfgFile[j] = acked[j] \/ cfgFile[j] \in loose[j]
                            \/ \E e \in Editors : InFile(e) /\ edit[e].job = j

KeptInv == Drafted /\ Written /\ FileKept /\ EditsKept

LEMMA KeptStep ==
    ASSUME NEW x, Editors = {x}
    PROVE  TypeOK /\ KeptInv /\ [Next]_vars => KeptInv'
<1>. SUFFICES ASSUME TypeOK, KeptInv, [Next]_vars PROVE KeptInv'
  OBVIOUS
<1>. USE DEF KeptInv, Drafted, Written, FileKept, EditsKept, InFile
<1>t. /\ config \in Config /\ cfgFile \in Config /\ acked \in Config /\ loose \in [Jobs -> SUBSET Job]
      /\ edit \in [Editors -> [pc : EditStep, job : Jobs \cup {Absent}, cfg : Config, st : State]]
      /\ edit[x].pc # "idle" => edit[x].job \in Jobs
  BY DEF TypeOK, StoreType, EditType
<1>1. CASE UNCHANGED <<up, config, cfgFile, edit, acked, loose>>
  BY <1>1
<1>2. ASSUME NEW j \in Jobs, NEW v \in Job, Prepare(x, j, v) PROVE KeptInv'
  <2>1. /\ edit[x].pc = "idle" /\ up /\ up' = up
        /\ edit'[x].pc = "write_config" /\ edit'[x].job = j
        /\ edit'[x].cfg = [config EXCEPT ![j] = v]
        /\ UNCHANGED <<config, cfgFile, acked, loose>>
    BY <1>2, <1>t DEF Prepare
  <2>2. QED
    BY <1>t, <2>1 DEF Config
<1>3. CASE WriteConfig(x)
  <2>1. /\ edit[x].pc = "write_config" /\ edit'[x].pc = "write_state"
        /\ edit'[x].job = edit[x].job /\ edit'[x].cfg = edit[x].cfg
        /\ cfgFile' = edit[x].cfg
        /\ UNCHANGED <<up, config, acked, loose>>
    BY <1>3, <1>t DEF WriteConfig, EditTo
  <2>2. QED
    BY <1>t, <2>1
<1>4. CASE WriteState(x)
  <2>1. /\ edit[x].pc = "write_state" /\ edit'[x].pc = "swap"
        /\ edit'[x].job = edit[x].job /\ edit'[x].cfg = edit[x].cfg
        /\ UNCHANGED <<up, config, cfgFile, acked, loose>>
    BY <1>4, <1>t DEF WriteState, EditTo
  <2>2. QED
    BY <1>t, <2>1
<1>5. CASE Swap(x)
  <2>1. /\ edit[x].pc = "swap" /\ edit'[x].pc = "idle"
        /\ config' = edit[x].cfg /\ UNCHANGED <<up, cfgFile>>
        /\ acked' = [acked EXCEPT ![edit[x].job] = edit[x].cfg[edit[x].job]]
        /\ loose' = [loose EXCEPT ![edit[x].job] = {}]
    BY <1>5, <1>t DEF Swap, NoEdit
  <2>2. cfgFile = edit[x].cfg /\ up
    BY <2>1
  <2>3. ASSUME NEW j \in Jobs PROVE (config'[j] = acked'[j] \/ config'[j] \in loose'[j]) /\ cfgFile'[j] = config'[j]
    <3>1. CASE j = edit[x].job
      BY <1>t, <2>1, <2>2, <3>1 DEF Config
    <3>2. CASE j # edit[x].job
      BY <1>t, <2>1, <2>2, <3>2 DEF Config
    <3>3. QED
      BY <3>1, <3>2
  <2>4. QED
    BY <2>1, <2>3
<1>a. ASSUME Abandon(Editors), UNCHANGED <<cfgFile, acked>>
      PROVE  /\ edit'[x].pc = "idle"
             /\ \A j \in Jobs : loose[j] \subseteq loose'[j]
             /\ \A j \in Jobs : cfgFile'[j] = acked'[j] \/ cfgFile'[j] \in loose'[j]
  <2>1. edit'[x].pc = "idle"
    BY <1>a DEF Abandon, NoEdit
  <2>2. \A j \in Jobs : loose'[j] = loose[j] \cup {edit[e].cfg[j] : e \in {d \in Editors : InFile(d) /\ edit[d].job = j}}
    BY <1>a DEF Abandon
  <2>3. \A j \in Jobs : InFile(x) /\ edit[x].job = j => cfgFile[j] \in loose'[j]
    BY <2>2
  <2>4. QED
    BY <1>a, <2>1, <2>2, <2>3
<1>6. CASE WriteFails(x)
  BY <1>6, <1>a DEF WriteFails
<1>7. CASE Crash
  BY <1>7, <1>a DEF Crash
<1>8. CASE Reload
  <2>1. edit[x].pc = "idle"
    BY <1>8 DEF Reload
  <2>2. QED
    BY <1>8, <2>1 DEF Reload
<1>9. ASSUME NEW j \in Jobs, BecomeDue(j) PROVE KeptInv'
  BY <1>1, <1>9 DEF BecomeDue
<1>10. CASE RunDue
  BY <1>1, <1>10 DEF RunDue
<1>11. ASSUME NEW j \in Jobs, NEW k \in Slots, RunNow(j, k) \/ runJob(j, k) PROVE KeptInv'
  BY <1>1, <1>11 DEF RunNow, runJob, tryStartRun, markRunStarted, Attempt, Backoff, markRunFinished, finishRun
<1>12. ASSUME NEW j \in Jobs, Upsert(x, j) \/ SetEnabled(x, j) PROVE KeptInv'
  BY <1>2, <1>12, SubmittedType
<1>13. CASE UNCHANGED vars
  BY <1>1, <1>13 DEF vars
<1>14. QED
  BY <1>3, <1>4, <1>5, <1>6, <1>7, <1>8, <1>9, <1>10, <1>11, <1>12, <1>13 DEF Next, Edit

(* When edits come one at a time, an edit that was answered with success   *)
(* is in force until its job is edited again, through crashes between any  *)
(* two writes, failed writes and any number of runs.                       *)
THEOREM EditsSurvive ==
    ASSUME NEW x, Editors = {x}
    PROVE  Spec => []EditsKept
<1>1. Init => KeptInv
  BY DEF Init, KeptInv, Drafted, Written, FileKept, EditsKept, InFile, NoEdit
<1>2. KeptInv => EditsKept
  BY DEF KeptInv
<1>3. TypeOK /\ KeptInv /\ [Next]_vars => KeptInv'
  BY KeptStep
<1>4. QED
  BY <1>1, <1>2, <1>3, TypeInit, TypeStep, PTL DEF Spec

-----------------------------------------------------------------------------
(* Enabled jobs are scheduled.                                             *)

\* every enabled job whose schedule recurs has a next run, but for the jobs of cl
Fits(cfg, st, cl) ==
    \A j \in Jobs : cfg[j] # Absent /\ cfg[j].enabled /\ cfg[j].schedule = "recurring" =>
        st[j] # Absent /\ (st[j].next # "none" \/ j \in cl)

\* what is in memory, and the drafts of edits, which no run has touched
ScheduleInv == /\ Fits(config, state, cleared)
               /\ \A e \in Editors : Fits(edit[e].cfg, edit[e].st, {})

LEMMA SyncFits ==
    ASSUME NEW prev \in State, NEW cfg \in Config
    PROVE  Fits(cfg, syncState(prev, cfg), {})
<1>. SUFFICES ASSUME NEW j \in Jobs, cfg[j] # Absent, cfg[j].enabled, cfg[j].schedule = "recurring"
              PROVE  syncState(prev, cfg)[j] # Absent /\ syncState(prev, cfg)[j].next # "none"
  BY DEF Fits
<1>1. nextScheduleAfter(cfg[j]) = "later"
  BY DEF nextScheduleAfter
<1>2. syncState(prev, cfg)[j] =
        [status |-> "enabled", next |-> "later", last |-> IF prev[j] = Absent THEN "none" ELSE prev[j].last]
  BY <1>1 DEF syncState
<1>3. (IF prev[j] = Absent THEN "none" ELSE prev[j].last) \in {"none", "running"} \cup Outcome
  BY DEF State, JobState
<1>4. syncState(prev, cfg)[j] \in JobState
  BY <1>2, <1>3 DEF JobState
<1>5. QED
  BY <1>2, <1>4, AbsentNoState

LEMMA ScheduleStep == TypeOK /\ ScheduleInv /\ [Next]_vars => ScheduleInv'
<1>. SUFFICES ASSUME TypeOK, ScheduleInv, [Next]_vars PROVE ScheduleInv'
  OBVIOUS
<1>t. /\ config \in Config /\ cfgFile \in Config /\ state \in State /\ stateFile \in State
      /\ edit \in [Editors -> [pc : EditStep, job : Jobs \cup {Absent}, cfg : Config, st : State]]
      /\ pc \in [Jobs -> [Slots -> Body \cup {"free", "spawned"}]]
      /\ run \in [Jobs -> [Slots -> Run]]
  BY DEF TypeOK, StoreType, EditType, RunType
<1>n. \A cl : Fits(Nothing, Nothing, cl)
  BY DEF Fits, Nothing
<1>1. CASE UNCHANGED <<config, state, cleared, edit>>
  BY <1>1 DEF ScheduleInv
<1>2. ASSUME NEW e \in Editors, NEW j \in Jobs, NEW v \in Job, Prepare(e, j, v)
      PROVE  ScheduleInv'
  <2>. DEFINE cfg == [config EXCEPT ![j] = v]
  <2>1. cfg \in Config
    BY <1>2, <1>t DEF Config
  <2>2. Fits(cfg, syncState(state, cfg), {})
    BY <1>t, <2>1, SyncFits
  <2>3. /\ edit' = [edit EXCEPT ![e] = [pc |-> "write_config", job |-> j, cfg |-> cfg, st |-> syncState(state, cfg)]]
        /\ UNCHANGED <<config, state, cleared>>
    BY <1>2 DEF Prepare
  <2>. HIDE DEF cfg
  <2>4. \A d \in Editors : Fits(edit'[d].cfg, edit'[d].st, {})
    BY <1>t, <2>1, <2>2, <2>3 DEF ScheduleInv
  <2>5. QED
    BY <2>3, <2>4 DEF ScheduleInv
<1>3. ASSUME NEW e \in Editors, NEW j \in Jobs, Upsert(e, j) \/ SetEnabled(e, j) PROVE ScheduleInv'
  BY <1>2, <1>3, SubmittedType
<1>4. ASSUME NEW e \in Editors, WriteConfig(e) \/ WriteState(e) PROVE ScheduleInv'
  <2>1. \A d \in Editors : edit'[d].cfg = edit[d].cfg /\ edit'[d].st = edit[d].st
    BY <1>4, <1>t DEF WriteConfig, WriteState, EditTo
  <2>2. UNCHANGED <<config, state, cleared>>
    BY <1>4 DEF WriteConfig, WriteState
  <2>3. QED
    BY <2>1, <2>2 DEF ScheduleInv
<1>5. ASSUME NEW e \in Editors, Swap(e) PROVE ScheduleInv'
  <2>1. /\ config' = edit[e].cfg /\ state' = edit[e].st /\ cleared' = {}
        /\ edit' = [edit EXCEPT ![e] = NoEdit]
    BY <1>5 DEF Swap
  <2>2. \A d \in Editors : Fits(edit'[d].cfg, edit'[d].st, {})
    BY <1>n, <1>t, <2>1 DEF ScheduleInv, NoEdit
  <2>3. QED
    BY <2>1, <2>2 DEF ScheduleInv
<1>a. ASSUME NEW E \in SUBSET Editors, Abandon(E)
      PROVE  \A d \in Editors : Fits(edit'[d].cfg, edit'[d].st, {})
  BY <1>a, <1>n, <1>t DEF Abandon, NoEdit, ScheduleInv
<1>6. ASSUME NEW e \in Editors, WriteFails(e) PROVE ScheduleInv'
  BY <1>6, <1>a DEF WriteFails, ScheduleInv
<1>7. ASSUME NEW j \in Jobs, BecomeDue(j) PROVE ScheduleInv'
  <2>1. state' = [state EXCEPT ![j] = [state[j] EXCEPT !.next = "due"]] /\ state[j] \in JobState
    BY <1>7, <1>t DEF BecomeDue, State
  <2>2. [state[j] EXCEPT !.next = "due"] \in JobState /\ [state[j] EXCEPT !.next = "due"].next = "due"
    BY <2>1 DEF JobState
  <2>3. Fits(config, state', cleared)
    BY <1>t, <2>1, <2>2, AbsentNoState DEF Fits, ScheduleInv, State
  <2>4. QED
    BY <1>7, <2>3 DEF BecomeDue, ScheduleInv
<1>8. ASSUME NEW j \in Jobs, NEW s \in JobState, updateState(j, s), UNCHANGED <<config, edit>>
      PROVE  ScheduleInv'
  <2>1. s # Absent /\ state' = [state EXCEPT ![j] = s] /\ (s.next = "none" => j \in cleared')
        /\ \A i \in Jobs : i # j => (i \in cleared => i \in cleared')
    BY <1>8, AbsentNoState DEF updateState
  <2>2. Fits(config, state', cleared')
    BY <1>t, <2>1 DEF State, Fits, ScheduleInv
  <2>3. QED
    BY <1>8, <2>2 DEF ScheduleInv
<1>9. ASSUME NEW j \in Jobs, NEW k \in Slots, markRunStarted(j, k) \/ markRunFinished(j, k) PROVE ScheduleInv'
  <2>1. nextScheduleAfter(run[j][k].job) \in {"none", "later", "due"}
    BY DEF nextScheduleAfter
  <2>2. run[j][k].status \in {"running"} \cup Outcome
    BY <1>t DEF Run
  <2>3. PICK s : /\ s = [status |-> s.status, next |-> nextScheduleAfter(run[j][k].job), last |-> s.last]
                 /\ s.status \in {"enabled", "disabled", "running"} \cup Outcome
                 /\ s.last \in {"none", "running"} \cup Outcome
                 /\ updateState(j, s)
    BY <1>9, <2>2 DEF markRunStarted, markRunFinished
  <2>4. s \in JobState
    BY <2>1, <2>3 DEF JobState
  <2>5. UNCHANGED <<config, edit>>
    BY <1>9 DEF markRunStarted, markRunFinished
  <2>6. QED
    BY <1>8, <2>3, <2>4, <2>5
<1>10. ASSUME NEW j \in Jobs, NEW k \in Slots,
              RunNow(j, k) \/ tryStartRun(j, k) \/ Backoff(j, k) \/ Attempt(j, k) \/ finishRun(j, k)
       PROVE  ScheduleInv'
  BY <1>1, <1>10 DEF RunNow, tryStartRun, Backoff, Attempt, finishRun
<1>11. CASE RunDue
  BY <1>1, <1>11 DEF RunDue
<1>12. CASE Crash
  BY <1>12, <1>a, <1>n DEF Crash, ScheduleInv
<1>13. CASE Reload
  <2>1. Fits(cfgFile, syncState(stateFile, cfgFile), {})
    BY <1>t, SyncFits
  <2>2. QED
    BY <1>13, <2>1 DEF Reload, ScheduleInv
<1>14. CASE UNCHANGED vars
  BY <1>1, <1>14 DEF vars
<1>15. QED
  BY <1>3, <1>4, <1>5, <1>6, <1>7, <1>9, <1>10, <1>11, <1>12, <1>13, <1>14 DEF Next, Edit, runJob

(* An enabled job whose schedule recurs has a next run at all times, with  *)
(* any number of concurrent editors; only a run that still works on a copy *)
(* with a schedule that matches no date takes it away.                     *)
THEOREM AlwaysScheduled == Spec => []EnabledScheduled
<1>1. Init => ScheduleInv
  BY DEF Init, ScheduleInv, Fits, NoEdit, Nothing
<1>2. ScheduleInv => EnabledScheduled
  BY DEF ScheduleInv, Fits, EnabledScheduled
<1>3. QED
  BY <1>1, <1>2, ScheduleStep, TypeInit, TypeStep, PTL DEF Spec

(* Attempts are bounded and runs of one job do not overlap. *)
THEOREM RunsCorrect == Spec => []RunsExclusive
  BY TypeCorrect, NoOverlap, PTL DEF RunsExclusive

-----------------------------------------------------------------------------
(* The signal files.  The inductive invariant.                             *)

\* A rotation has copied the active file and not yet removed it, or has found
\* none; Base is what the files are once it is removed.
Halfway == \E w \in Writers : wr[w].pc = "remove"
BaseOf(fs, halfway) == IF halfway THEN [fs EXCEPT ![Active] = <<>>] ELSE fs
Base == BaseOf(files, Halfway)

\* The labels of a writer, and those at which its record is not yet on disk.
Pcs == {"idle", "stamped", "copy", "remove", "append", "govern"}
Holding == {"stamped", "copy", "remove", "append"}

\* What is on disk was written, and a part of a line is what a write that was cut
\* off has left.
SigTypes ==
    /\ SignalsTypeOK
    /\ wr \in [Writers -> [pc : Pcs, rec : Record]]
    /\ IsFiniteSet(written) /\ OnDisk \subseteq written
    /\ ragged # {} => torn

\* Ids are counted, and a tag is of one record.
SigNumbers ==
    /\ nextID <= stamped
    /\ \A w \in Writers : wr[w].rec.n <= nextID
    /\ \A r \in OnDisk : r.tag <= stamped
    /\ \A w \in Writers : wr[w].pc \in Holding =>
         /\ wr[w].rec.tag <= stamped
         /\ \A r \in OnDisk : r.tag # wr[w].rec.tag
         /\ \A v \in Writers \ {w} : wr[v].pc \in Holding => wr[v].rec.tag # wr[w].rec.tag

\* A file has no record of a later day, a rotation goes to an earlier day than
\* that of the record to be appended, and no file is of a day after all records;
\* an active file without records may be, if its first record could not be written.
SigDays ==
    /\ \A f \in 0 .. LastDay : \A r \in Range(files[f]) : Day(r.ts) <= f
    /\ activeDay # Unknown => \A r \in Range(files[Active]) : Day(r.ts) <= activeDay
    /\ \A w \in Writers :
         /\ wr[w].pc = "append" => activeDay = Unknown \/ Day(wr[w].rec.ts) <= activeDay
         /\ wr[w].pc = "copy" => MustRotate(Day(wr[w].rec.ts))
    /\ ~late => \A f \in 0 .. LastDay : files[f] # <<>> => \E m \in written : Day(m.ts) >= f
    /\ ~late /\ activeDay # Unknown /\ files[Active] # <<>> => \E m \in written : Day(m.ts) >= activeDay

\* No record is at two places.
At(fs, p) == fs[p[1]][p[2]]
Apart(fs) == \A p, q \in Places(fs) : At(fs, p) = At(fs, q) => p = q

\* The records are counted, and unless a rotation was cut off each is in one place.
SigCounted == /\ ~stale => counted = Total(Base)
              /\ ~doubled => Apart(Base)
              /\ ~doubled /\ ~torn => OnDisk = Stored(Base)

\* The young records are in the order of the files, one that is not older than
\* any young record written is on disk, and the active file has no young record
\* of a day before that of a rotated file.
InFiles(fs) == \A f, g \in Files : f < g =>
                 \A r \in Range(fs[f]), s \in Range(fs[g]) : Young(r) /\ Young(s) => ~Older(s, r)
Topped == \A m \in written : Young(m) => \E r \in OnDisk : ~Older(r, m)
DaysRise(fs) == \A s \in Range(fs[Active]), f \in 0 .. LastDay : Young(s) /\ fs[f] # <<>> => Day(s.ts) >= f
SigOrdered == (~torn /\ ~doubled /\ ~late) => InFiles(Base) /\ Topped /\ DaysRise(Base)

\* A query under way has found all records of the files it has read, and these
\* are the last ones.
SigQuery ==
    query.todo # {} =>
        /\ query.seen <= Len(files[Active])
        /\ \A p \in Places(View(query.seen)) : p[1] \in query.todo \/ p \in query.got
        /\ \A p \in query.got : p \in Places(View(query.seen)) /\ \A f \in query.todo : f < p[1]
        /\ IsFiniteSet(query.got) /\ Cardinality(query.got) < Limit

SigInv == SigTypes /\ SigNumbers /\ SigDays /\ SigCounted /\ SigOrdered /\ SigQuery /\ OnlyOldGone /\ ~missed

-----------------------------------------------------------------------------
(* Counting and sorting.                                                   *)

\* A finite set in a linear order, given by what is above each element: the number
\* of elements above one tells which it is, and all numbers below the size occur.
LEMMA Ranks ==
    ASSUME NEW S, IsFiniteSet(S), NEW A \in [S -> SUBSET S],
           \A p \in S : p \notin A[p],
           \A p, q, r \in S : q \in A[p] /\ r \in A[q] => r \in A[p],
           \A p, q \in S : p = q \/ q \in A[p] \/ p \in A[q]
    PROVE  /\ \A p \in S : IsFiniteSet(A[p]) /\ Cardinality(A[p]) \in 0 .. Cardinality(S) - 1
           /\ \A p, q \in S : q \in A[p] => Cardinality(A[q]) < Cardinality(A[p])
           /\ \A p, q \in S : Cardinality(A[p]) = Cardinality(A[q]) => p = q
           /\ \A k \in 0 .. Cardinality(S) - 1 : \E p \in S : Cardinality(A[p]) = k
           /\ Cardinality(S) \in Nat
<1> DEFINE n == Cardinality(S)
           rank == [p \in S |-> Cardinality(A[p])]
<1>1. n \in Nat
  BY FS_CardinalityType
<1> HIDE DEF n
<1>2. ASSUME NEW p \in S PROVE IsFiniteSet(A[p]) /\ Cardinality(A[p]) \in Nat /\ Cardinality(A[p]) < n
  <2>1. A[p] \subseteq S /\ A[p] # S
    OBVIOUS
  <2>2. IsFiniteSet(A[p]) /\ Cardinality(A[p]) <= n /\ Cardinality(A[p]) # n
    BY <2>1, FS_Subset DEF n
  <2>3. Cardinality(A[p]) \in Nat
    BY <2>2, FS_CardinalityType
  <2> QED
    BY <1>1, <2>2, <2>3
<1>3. ASSUME NEW p \in S, NEW q \in S, q \in A[p] PROVE Cardinality(A[q]) < Cardinality(A[p])
  <2>1. A[q] \subseteq A[p] /\ A[q] # A[p]
    BY <1>3
  <2>2. Cardinality(A[q]) <= Cardinality(A[p]) /\ Cardinality(A[q]) # Cardinality(A[p])
    BY <1>2, <2>1, FS_Subset
  <2> QED
    BY <1>2, <2>2
<1>4. ASSUME NEW p \in S, NEW q \in S, Cardinality(A[p]) = Cardinality(A[q]) PROVE p = q
  <2>1. CASE q \in A[p]
    BY <1>2, <1>3, <1>4, <2>1
  <2>2. CASE p \in A[q]
    BY <1>2, <1>3, <1>4, <2>2
  <2> QED
    BY <2>1, <2>2
<1>5. IsFiniteSet(0 .. n - 1) /\ Cardinality(0 .. n - 1) = n
  BY <1>1, FS_Interval
<1>6. rank \in Injection(S, 0 .. n - 1)
  <2>1. rank \in [S -> 0 .. n - 1]
    BY <1>1, <1>2
  <2>2. \A p, q \in S : rank[p] = rank[q] => p = q
    BY <1>4
  <2> QED
    BY <2>1, <2>2 DEF Injection, IsInjective
<1>7. rank \in Surjection(S, 0 .. n - 1)
  <2> HIDE DEF rank
  <2> QED
    BY <1>5, <1>6, FS_Injection DEF n
<1>8. ASSUME NEW k \in 0 .. n - 1 PROVE \E p \in S : Cardinality(A[p]) = k
  <2>1. PICK p \in S : rank[p] = k
    <3> HIDE DEF rank
    <3> QED
      BY <1>7 DEF Surjection
  <2> QED
    BY <2>1
<1>9. \A p \in S : IsFiniteSet(A[p]) /\ Cardinality(A[p]) \in 0 .. n - 1
  BY <1>1, <1>2
<1> QED
  BY <1>1, <1>3, <1>4, <1>8, <1>9 DEF n

\* Time stamps are numbers.
Stamps(S) == \A r \in S : r.ts \in Int

\* Records are sorted by their time stamps, those of the same time in their order.
LEMMA SortsLinear ==
    ASSUME NEW S, Stamps(S), NEW s \in Seq(S)
    PROVE  /\ \A i \in DOMAIN s : ~SortsBefore(s, i, i)
           /\ \A i, j, k \in DOMAIN s : SortsBefore(s, i, j) /\ SortsBefore(s, j, k) => SortsBefore(s, i, k)
           /\ \A i, j \in DOMAIN s : i = j \/ SortsBefore(s, i, j) \/ SortsBefore(s, j, i)
<1>1. \A i \in DOMAIN s : i \in Int /\ s[i].ts \in Int
  BY DEF Stamps
<1> QED
  BY <1>1 DEF SortsBefore, Older

\* What sorting gives: the records at the positions, each once, the youngest last.
LEMMA SortedFacts ==
    ASSUME NEW S, Stamps(S), NEW s \in Seq(S), NEW P \in SUBSET DOMAIN s
    PROVE  /\ Sorted(s, P) \in Seq(S) /\ Len(Sorted(s, P)) = Cardinality(P)
           /\ Range(Sorted(s, P)) = {s[i] : i \in P}
           /\ IsInjective(s) => IsInjective(Sorted(s, P))
           /\ \A k, l \in DOMAIN Sorted(s, P) : k <= l => ~Older(Sorted(s, P)[l], Sorted(s, P)[k])
           /\ IsFiniteSet(P) /\ Cardinality(P) \in Nat
<1> DEFINE n == Len(s)
           c == Cardinality(P)
           before == [i \in P |-> {j \in P : SortsBefore(s, j, i)}]
           place(k) == CHOOSE i \in P : Cardinality(before[i]) = k - 1
           q == Sorted(s, P)
<1>1. n \in Nat /\ DOMAIN s = 1 .. n /\ \A i \in DOMAIN s : s[i] \in S /\ s[i].ts \in Int
  BY DEF Stamps
<1>2. IsFiniteSet(P) /\ c \in Nat
  <2>1. IsFiniteSet(1 .. n)
    <3> HIDE DEF n
    <3> QED
      BY <1>1, FS_Interval
  <2>2. P \subseteq 1 .. n
    BY <1>1
  <2> HIDE DEF n
  <2> QED
    BY <2>1, <2>2, FS_Subset, FS_CardinalityType
<1>3. before \in [P -> SUBSET P] /\ \A i, j \in P : j \in before[i] <=> SortsBefore(s, j, i)
  OBVIOUS
<1>4. \A i \in P : before[i] = {j \in P : SortsBefore(s, j, i)}
  OBVIOUS
<1> HIDE DEF before
<1>5. /\ \A i \in P : i \notin before[i]
      /\ \A i, j, k \in P : j \in before[i] /\ k \in before[j] => k \in before[i]
      /\ \A i, j \in P : i = j \/ j \in before[i] \/ i \in before[j]
  <2>1. P \subseteq DOMAIN s
    OBVIOUS
  <2> QED
    BY <1>3, <2>1, SortsLinear
<1>6. /\ \A i \in P : Cardinality(before[i]) \in 0 .. c - 1
      /\ \A i, j \in P : j \in before[i] => Cardinality(before[j]) < Cardinality(before[i])
      /\ \A i, j \in P : Cardinality(before[i]) = Cardinality(before[j]) => i = j
      /\ \A k \in 0 .. c - 1 : \E i \in P : Cardinality(before[i]) = k
  BY <1>2, <1>3, <1>5, Ranks
<1> HIDE DEF c
<1>7. ASSUME NEW k \in 1 .. c PROVE place(k) \in P /\ Cardinality(before[place(k)]) = k - 1
  <2>1. k - 1 \in 0 .. c - 1
    BY <1>2
  <2> QED
    BY <1>6, <2>1
<1>8. ASSUME NEW i \in P PROVE \E k \in 1 .. c : place(k) = i
  <2> DEFINE k == Cardinality(before[i]) + 1
  <2>1. k \in 1 .. c /\ k - 1 = Cardinality(before[i])
    BY <1>2, <1>6
  <2>2. place(k) = i
    <3>1. place(k) \in P /\ Cardinality(before[place(k)]) = Cardinality(before[i])
      BY <1>7, <2>1
    <3> HIDE DEF place, k
    <3> QED
      BY <1>6, <3>1
  <2> QED
    BY <2>1, <2>2
<1>9. q = [k \in 1 .. c |-> s[place(k)]]
  <2> DEFINE at(k) == CHOOSE i \in P : Cardinality({j \in P : SortsBefore(s, j, i)}) = k - 1
  <2>1. q = [k \in 1 .. c |-> s[at(k)]]
    BY DEF Sorted, c
  <2>2. ASSUME NEW k PROVE at(k) = place(k)
    BY <1>4, Zenon
  <2> HIDE DEF at, place, q
  <2> QED
    BY <2>1, <2>2
<1> HIDE DEF place, q
<1>10. q \in Seq(S) /\ Len(q) = c /\ DOMAIN q = 1 .. c /\ \A k \in 1 .. c : q[k] = s[place(k)] /\ place(k) \in P
  BY <1>1, <1>2, <1>7, <1>9
<1>11. Range(q) = {s[i] : i \in P}
  <2>1. ASSUME NEW k \in DOMAIN q PROVE \E i \in P : q[k] = s[i]
    BY <1>10
  <2>2. ASSUME NEW i \in P PROVE \E k \in DOMAIN q : q[k] = s[i]
    BY <1>8, <1>10
  <2>3. ASSUME NEW x PROVE x \in Range(q) <=> \E k \in DOMAIN q : x = q[k]
    BY DEF Range
  <2>4. ASSUME NEW x PROVE x \in {s[i] : i \in P} <=> \E i \in P : x = s[i]
    OBVIOUS
  <2> QED
    BY <2>1, <2>2, <2>3, <2>4
<1>12. ASSUME NEW k \in 1 .. c, NEW l \in 1 .. c, k <= l PROVE ~Older(q[l], q[k])
  <2>1. ~(Cardinality(before[place(l)]) < Cardinality(before[place(k)]))
    BY <1>2, <1>7, <1>12
  <2>2. place(k) \in P /\ place(l) \in P
    BY <1>10
  <2>3. place(l) \notin before[place(k)]
    BY <1>6, <2>1, <2>2
  <2> QED
    BY <1>3, <1>10, <2>2, <2>3 DEF SortsBefore, Older
<1>13. ASSUME IsInjective(s) PROVE IsInjective(q)
  <2> SUFFICES ASSUME NEW k \in 1 .. c, NEW l \in 1 .. c, q[k] = q[l] PROVE k = l
    BY <1>10 DEF IsInjective
  <2>1. place(k) = place(l)
    BY <1>1, <1>10, <1>13 DEF IsInjective
  <2>2. k - 1 = l - 1
    BY <1>7, <2>1
  <2> QED
    BY <1>2, <2>2
<1> QED
  BY <1>2, <1>10, <1>11, <1>12, <1>13 DEF c, q

\* A one-to-one function onto a set counts it.
LEMMA OneToOne ==
    ASSUME NEW S, NEW T, IsFiniteSet(S), NEW f \in [S -> T],
           \A x, y \in S : f[x] = f[y] => x = y,
           \A y \in T : \E x \in S : f[x] = y
    PROVE  IsFiniteSet(T) /\ Cardinality(T) = Cardinality(S)
<1>1. f \in Injection(S, T)
  BY DEF Injection, IsInjective
<1>2. f \in Surjection(S, T)
  BY DEF Surjection
<1> QED
  BY <1>1, <1>2, FS_Surjection

-----------------------------------------------------------------------------
(* Days and files. *)

\* Days are counted from the start and do not decrease.
LEMMA DayFacts ==
    /\ \A a, b \in Nat : a <= b => Day(a) <= Day(b)
    /\ \A a \in Nat : Day(a) \in Nat
    /\ \A a \in 0 .. MaxClock : Day(a) \in 0 .. LastDay
<1>1. TicksPerDay \in Nat /\ TicksPerDay > 0 /\ MaxClock \in Nat
  BY SignalsAssumption
<1>2. \A a \in Nat : Day(a) \in Nat
  BY <1>1, Z3 DEF Day
<1>3. ASSUME NEW a \in Nat, NEW b \in Nat, a <= b PROVE Day(a) <= Day(b)
  BY <1>1, <1>3, Z3 DEF Day
<1>4. ASSUME NEW a \in 0 .. MaxClock PROVE Day(a) \in 0 .. LastDay
  <2>1. a \in Nat /\ a <= MaxClock
    BY <1>1
  <2> QED
    BY <1>1, <1>2, <1>3, <2>1 DEF LastDay
<1> QED
  BY <1>2, <1>3, <1>4

\* The active file comes after the files of the days.
LEMMA FileFacts ==
    /\ LastDay \in Nat /\ Active \in Nat /\ Active = LastDay + 1 /\ Unknown = LastDay + 1
    /\ Files = 0 .. Active /\ Active \in Files /\ 0 .. LastDay \subseteq Files /\ Active \notin 0 .. LastDay
    /\ \A f \in Files : f = Active \/ f \in 0 .. LastDay
    /\ IsFiniteSet(Files)
<1>1. LastDay \in Nat
  BY DayFacts, SignalsAssumption DEF LastDay
<1>2. IsFiniteSet(0 .. Active)
  BY <1>1, FS_Interval DEF Active
<1> QED
  BY <1>1, <1>2 DEF Active, Unknown, Files

\* The type of the files.
FilesOK(fs) == fs \in [Files -> Seq(Record)]

\* A record has a time stamp.
LEMMA RecordFacts == Stamps(Record) /\ \A r \in Record : r.ts \in 0 .. MaxClock /\ r.ts \in Nat
BY SignalsAssumption DEF Stamps, Record

\* What is stored is what is at some place of some file.
LEMMA StoredFacts ==
    ASSUME NEW fs, FilesOK(fs)
    PROVE  /\ \A r : r \in Stored(fs) <=> \E f \in Files : \E i \in DOMAIN fs[f] : r = fs[f][i]
           /\ \A f \in Files : Range(fs[f]) \subseteq Stored(fs) /\ Range(fs[f]) \subseteq Record
           /\ Stored(fs) \subseteq Record
           /\ \A f \in Files : \A r : r \in Range(fs[f]) <=> \E i \in DOMAIN fs[f] : r = fs[f][i]
<1>1. ASSUME NEW f \in Files, NEW r PROVE r \in Range(fs[f]) <=> \E i \in DOMAIN fs[f] : r = fs[f][i]
  BY DEF Range
<1>2. \A f \in Files : \A i \in DOMAIN fs[f] : fs[f][i] \in Record
  BY DEF FilesOK
<1>3. ASSUME NEW f \in Files PROVE Range(fs[f]) \subseteq Stored(fs)
  BY DEF Stored
<1>4. ASSUME NEW f \in Files PROVE Range(fs[f]) \subseteq Record
  BY <1>1, <1>2
<1>5. ASSUME NEW r PROVE r \in Stored(fs) <=> \E f \in Files : r \in Range(fs[f])
  BY DEF Stored
<1> QED
  BY <1>1, <1>3, <1>4, <1>5

\* A place is a file and a position in it; there are finitely many.
LEMMA SlotFacts ==
    ASSUME NEW fs, FilesOK(fs)
    PROVE  /\ \A p : p \in Places(fs) <=> \E f \in Files : \E i \in DOMAIN fs[f] : p = <<f, i>>
           /\ \A p \in Places(fs) : p = <<p[1], p[2]>> /\ p[1] \in Files /\ p[2] \in DOMAIN fs[p[1]]
                                   /\ p[1] \in Int /\ p[2] \in Int
           /\ \A f \in Files : \A i \in DOMAIN fs[f] : <<f, i>> \in Places(fs)
           /\ IsFiniteSet(Places(fs)) /\ Total(fs) \in Nat
<1> DEFINE row == [f \in Files |-> {f} \X DOMAIN fs[f]]
           Rows == {{f} \X DOMAIN fs[f] : f \in Files}
<1>1. ASSUME NEW p PROVE p \in Places(fs) <=> \E f \in Files : \E i \in DOMAIN fs[f] : p = <<f, i>>
  <2>1. p \in Places(fs) <=> \E f \in Files : p \in {f} \X DOMAIN fs[f]
    BY DEF Places
  <2>2. ASSUME NEW f PROVE p \in {f} \X DOMAIN fs[f] <=> \E i \in DOMAIN fs[f] : p = <<f, i>>
    OBVIOUS
  <2> QED
    BY <2>1, <2>2
<1>2. ASSUME NEW f \in Files PROVE Len(fs[f]) \in Nat /\ DOMAIN fs[f] = 1 .. Len(fs[f]) /\ f \in Int
  BY FileFacts DEF FilesOK
<1>3. IsFiniteSet(Rows)
  <2>1. row \in Surjection(Files, Rows)
    BY DEF Surjection
  <2> HIDE DEF row, Rows
  <2> QED
    BY <2>1, FileFacts, FS_Surjection
<1>4. ASSUME NEW f \in Files PROVE IsFiniteSet({f} \X DOMAIN fs[f])
  <2>1. IsFiniteSet(1 .. Len(fs[f]))
    BY <1>2, FS_Interval
  <2>2. IsFiniteSet({f})
    BY FS_Singleton
  <2> QED
    BY <1>2, <2>1, <2>2, FS_Product
<1>5. IsFiniteSet(UNION Rows)
  <2>1. \A T \in Rows : IsFiniteSet(T)
    BY <1>4
  <2> HIDE DEF Rows
  <2> QED
    BY <1>3, <2>1, FS_UNION
<1>6. IsFiniteSet(Places(fs)) /\ Total(fs) \in Nat
  BY <1>5, FS_CardinalityType DEF Places, Total
<1>7. ASSUME NEW p \in Places(fs)
      PROVE  p = <<p[1], p[2]>> /\ p[1] \in Files /\ p[2] \in DOMAIN fs[p[1]] /\ p[1] \in Int /\ p[2] \in Int
  <2>1. PICK f \in Files : \E i \in DOMAIN fs[f] : p = <<f, i>>
    BY <1>1
  <2>2. PICK i \in DOMAIN fs[f] : p = <<f, i>>
    BY <2>1
  <2>3. p[1] = f /\ p[2] = i
    BY <2>2
  <2> QED
    BY <1>2, <2>2, <2>3
<1> QED
  BY <1>1, <1>6, <1>7

\* Records that are in one place each are as many as the places.
LEMMA ApartTotal ==
    ASSUME NEW fs, FilesOK(fs), Apart(fs)
    PROVE  IsFiniteSet(Stored(fs)) /\ Cardinality(Stored(fs)) = Total(fs)
<1> DEFINE at == [p \in Places(fs) |-> At(fs, p)]
<1>1. at \in [Places(fs) -> Stored(fs)]
  BY SlotFacts, StoredFacts DEF At
<1>2. \A p, q \in Places(fs) : at[p] = at[q] => p = q
  BY DEF Apart
<1>3. ASSUME NEW r \in Stored(fs) PROVE \E p \in Places(fs) : at[p] = r
  <2>1. PICK f \in Files : \E i \in DOMAIN fs[f] : r = fs[f][i]
    BY StoredFacts
  <2>2. PICK i \in DOMAIN fs[f] : r = fs[f][i]
    BY <2>1
  <2>3. <<f, i>> \in Places(fs) /\ at[<<f, i>>] = r
    BY <2>2, SlotFacts DEF At
  <2> QED
    BY <2>3
<1> HIDE DEF at
<1> QED
  BY <1>1, <1>2, <1>3, SlotFacts, OneToOne DEF Total

\* What is stored is what is at some place.
LEMMA StoredAt ==
    ASSUME NEW fs, FilesOK(fs), NEW r
    PROVE  r \in Stored(fs) <=> \E p \in Places(fs) : r = At(fs, p)
<1>1. ASSUME NEW f \in Files, NEW i \in DOMAIN fs[f] PROVE <<f, i>> \in Places(fs) /\ At(fs, <<f, i>>) = fs[f][i]
  BY SlotFacts DEF At
<1>2. ASSUME NEW p \in Places(fs) PROVE p[1] \in Files /\ p[2] \in DOMAIN fs[p[1]] /\ At(fs, p) = fs[p[1]][p[2]]
  BY SlotFacts DEF At
<1>3. r \in Stored(fs) <=> \E f \in Files : \E i \in DOMAIN fs[f] : r = fs[f][i]
  BY StoredFacts
<1>4. CASE r \in Stored(fs)
  <2>1. PICK f \in Files : \E i \in DOMAIN fs[f] : r = fs[f][i]
    BY <1>3, <1>4
  <2>2. PICK i \in DOMAIN fs[f] : r = fs[f][i]
    BY <2>1
  <2> QED
    BY <1>1, <1>4, <2>2
<1>5. ASSUME NEW p \in Places(fs), r = At(fs, p) PROVE r \in Stored(fs)
  BY <1>2, <1>3, <1>5
<1> QED
  BY <1>4, <1>5

\* Records that change their places.
LEMMA Moved ==
    ASSUME NEW fs, FilesOK(fs), NEW gs, FilesOK(gs), NEW to \in [Places(fs) -> Places(gs)],
           \A p, q \in Places(fs) : to[p] = to[q] => p = q,
           \A q \in Places(gs) : \E p \in Places(fs) : to[p] = q,
           \A p \in Places(fs) : At(gs, to[p]) = At(fs, p)
    PROVE  /\ Total(gs) = Total(fs) /\ Stored(gs) = Stored(fs)
           /\ Apart(fs) => Apart(gs)
<1>1. Total(gs) = Total(fs)
  BY SlotFacts, OneToOne DEF Total
<1>2. \A r : r \in Stored(fs) <=> \E p \in Places(fs) : r = At(fs, p)
  BY StoredAt
<1>3. \A r : r \in Stored(gs) <=> \E p \in Places(gs) : r = At(gs, p)
  BY StoredAt
<1>4. Stored(gs) = Stored(fs)
  BY <1>2, <1>3
<1>5. Apart(fs) => Apart(gs)
  BY DEF Apart
<1> QED
  BY <1>1, <1>4, <1>5

\* A file is appended to an earlier one and emptied.
RotatedTo(fs, d, gs) == /\ gs[d] = fs[d] \o fs[Active] /\ gs[Active] = <<>>
                        /\ \A f \in Files \ {d, Active} : gs[f] = fs[f]

LEMMA Rotated ==
    ASSUME NEW fs, FilesOK(fs), NEW d \in 0 .. LastDay, NEW gs, FilesOK(gs), RotatedTo(fs, d, gs)
    PROVE  /\ Total(gs) = Total(fs) /\ Stored(gs) = Stored(fs)
           /\ Apart(fs) => Apart(gs)
           /\ Range(gs[d]) = Range(fs[d]) \cup Range(fs[Active])
<1>a. PICK a : a = fs[Active]
  OBVIOUS
<1>b. PICK b : b = fs[d]
  OBVIOUS
<1> DEFINE to == [p \in Places(fs) |-> IF p[1] = Active THEN <<d, Len(b) + p[2]>> ELSE p]
<1>1. /\ d \in Files /\ d # Active /\ Active \in Files /\ fs \in [Files -> Seq(Record)]
      /\ a \in Seq(Record) /\ b \in Seq(Record)
  BY <1>a, <1>b, FileFacts DEF FilesOK
<1>2. /\ gs[d] = b \o a /\ gs[Active] = <<>>
      /\ \A f \in Files \ {d, Active} : gs[f] = fs[f]
  BY <1>a, <1>b DEF RotatedTo
<1>3. FilesOK(gs)
  OBVIOUS
<1>4. /\ Len(a) \in Nat /\ Len(b) \in Nat /\ DOMAIN a = 1 .. Len(a) /\ DOMAIN b = 1 .. Len(b)
      /\ DOMAIN (b \o a) = 1 .. Len(b) + Len(a)
      /\ \A i \in DOMAIN b : (b \o a)[i] = b[i]
      /\ \A i \in DOMAIN a : (b \o a)[Len(b) + i] = a[i]
      /\ DOMAIN gs[Active] = {}
  BY <1>1, <1>2
<1>5. ASSUME NEW p \in Places(fs) PROVE to[p] \in Places(gs) /\ At(gs, to[p]) = At(fs, p)
  <2>1. p = <<p[1], p[2]>> /\ p[1] \in Files /\ p[2] \in DOMAIN fs[p[1]]
    BY SlotFacts
  <2>2. CASE p[1] = Active
    <3>1. to[p] = <<d, Len(b) + p[2]>> /\ p[2] \in DOMAIN a
      BY <1>a, <2>1, <2>2
    <3>2. Len(b) + p[2] \in DOMAIN gs[d] /\ gs[d][Len(b) + p[2]] = a[p[2]]
      BY <1>2, <1>4, <3>1
    <3> QED
      BY <1>a, <1>1, <1>3, <2>2, <3>1, <3>2, SlotFacts DEF At
  <2>3. CASE p[1] = d
    <3>1. to[p] = <<d, p[2]>> /\ p[2] \in DOMAIN b
      BY <1>b, <1>1, <2>1, <2>3
    <3>2. p[2] \in DOMAIN gs[d] /\ gs[d][p[2]] = b[p[2]]
      BY <1>2, <1>4, <3>1
    <3> QED
      BY <1>b, <1>1, <1>3, <2>3, <3>1, <3>2, SlotFacts DEF At
  <2>4. CASE p[1] \in Files \ {d, Active}
    <3>1. to[p] = <<p[1], p[2]>> /\ gs[p[1]] = fs[p[1]]
      BY <1>2, <2>1, <2>4
    <3> QED
      BY <1>3, <2>1, <3>1, SlotFacts DEF At
  <2> QED
    BY <2>1, <2>2, <2>3, <2>4
<1>6. ASSUME NEW p \in Places(fs), NEW q \in Places(fs), to[p] = to[q] PROVE p = q
  <2>1. /\ p = <<p[1], p[2]>> /\ p[1] \in Files /\ p[2] \in DOMAIN fs[p[1]] /\ p[2] \in Int
        /\ q = <<q[1], q[2]>> /\ q[1] \in Files /\ q[2] \in DOMAIN fs[q[1]] /\ q[2] \in Int
    BY SlotFacts
  <2>2. /\ to[p] = IF p[1] = Active THEN <<d, Len(b) + p[2]>> ELSE p
        /\ to[q] = IF q[1] = Active THEN <<d, Len(b) + q[2]>> ELSE q
    OBVIOUS
  <2>3. CASE p[1] = Active /\ q[1] = Active
    <3>1. Len(b) + p[2] = Len(b) + q[2]
      BY <1>6, <2>2, <2>3
    <3> QED
      BY <1>4, <2>1, <2>3, <3>1
  <2>4. CASE p[1] = Active /\ q[1] # Active
    <3>1. q = <<d, Len(b) + p[2]>>
      BY <1>6, <2>2, <2>4
    <3>2. q[1] = d /\ q[2] = Len(b) + p[2] /\ p[2] \in DOMAIN a
      BY <1>a, <2>1, <2>4, <3>1
    <3>3. q[2] \in DOMAIN b
      BY <1>b, <2>1, <3>2
    <3> QED
      BY <1>4, <3>2, <3>3
  <2>5. CASE p[1] # Active /\ q[1] = Active
    <3>1. p = <<d, Len(b) + q[2]>>
      BY <1>6, <2>2, <2>5
    <3>2. p[1] = d /\ p[2] = Len(b) + q[2] /\ q[2] \in DOMAIN a
      BY <1>a, <2>1, <2>5, <3>1
    <3>3. p[2] \in DOMAIN b
      BY <1>b, <2>1, <3>2
    <3> QED
      BY <1>4, <3>2, <3>3
  <2>6. CASE p[1] # Active /\ q[1] # Active
    BY <1>6, <2>2, <2>6
  <2> QED
    BY <2>3, <2>4, <2>5, <2>6
<1>7. ASSUME NEW q \in Places(gs) PROVE \E p \in Places(fs) : to[p] = q
  <2>1. q = <<q[1], q[2]>> /\ q[1] \in Files /\ q[2] \in DOMAIN gs[q[1]]
    BY <1>3, SlotFacts
  <2>2. CASE q[1] = d /\ q[2] \in DOMAIN b
    <3>1. q \in Places(fs) /\ to[q] = q
      BY <1>b, <1>1, <2>1, <2>2, SlotFacts
    <3> QED
      BY <3>1
  <2>3. CASE q[1] = d /\ q[2] \notin DOMAIN b
    <3> DEFINE j == q[2] - Len(b)
    <3>1. j \in DOMAIN a /\ q[2] = Len(b) + j
      BY <1>2, <1>4, <2>1, <2>3
    <3>2. <<Active, j>> \in Places(fs)
      BY <1>a, <1>1, <3>1, SlotFacts
    <3>3. to[<<Active, j>>] = <<d, Len(b) + j>>
      BY <3>2
    <3> QED
      BY <2>1, <2>3, <3>1, <3>2, <3>3
  <2>4. CASE q[1] \in Files \ {d, Active}
    <3>1. q \in Places(fs) /\ to[q] = q
      BY <1>2, <2>1, <2>4, SlotFacts
    <3> QED
      BY <3>1
  <2> QED
    BY <1>4, <2>1, <2>2, <2>3, <2>4
<1>8. to \in [Places(fs) -> Places(gs)]
  BY <1>5
<1>9. /\ Total(gs) = Total(fs) /\ Stored(gs) = Stored(fs)
      /\ Apart(fs) => Apart(gs)
  <2> HIDE DEF to
  <2> QED
    BY <1>3, <1>5, <1>6, <1>7, <1>8, Moved
<1>10. Range(gs[d]) = Range(b) \cup Range(a)
  <2>1. \A r : r \in Range(gs[d]) <=> \E i \in 1 .. Len(b) + Len(a) : r = gs[d][i]
    BY <1>2, <1>4 DEF Range
  <2>2. \A r : r \in Range(b) <=> \E i \in DOMAIN b : r = b[i]
    BY DEF Range
  <2>3. \A r : r \in Range(a) <=> \E i \in DOMAIN a : r = a[i]
    BY DEF Range
  <2>4. ASSUME NEW i \in 1 .. Len(b) + Len(a) PROVE gs[d][i] \in Range(b) \cup Range(a)
    <3>1. CASE i \in DOMAIN b
      BY <1>2, <1>4, <2>2, <3>1
    <3>2. CASE i \notin DOMAIN b
      <4>1. i - Len(b) \in DOMAIN a /\ i = Len(b) + (i - Len(b))
        BY <1>4, <3>2
      <4>2. gs[d][i] = a[i - Len(b)]
        BY <1>2, <1>4, <4>1
      <4> QED
        BY <2>3, <4>1, <4>2
    <3> QED
      BY <3>1, <3>2
  <2>5. ASSUME NEW i \in DOMAIN b PROVE b[i] \in Range(gs[d])
    BY <1>2, <1>4, <2>1
  <2>6. ASSUME NEW i \in DOMAIN a PROVE a[i] \in Range(gs[d])
    <3>1. Len(b) + i \in 1 .. Len(b) + Len(a) /\ gs[d][Len(b) + i] = a[i]
      BY <1>2, <1>4
    <3> QED
      BY <2>1, <3>1
  <2> QED
    BY <2>1, <2>2, <2>3, <2>4, <2>5, <2>6
<1> QED
  BY <1>a, <1>b, <1>9, <1>10

\* A record that is on no file is appended.
AppendedTo(fs, r, gs) == /\ gs[Active] = Append(fs[Active], r)
                         /\ \A f \in Files \ {Active} : gs[f] = fs[f]

LEMMA Appended ==
    ASSUME NEW fs, FilesOK(fs), NEW gs, FilesOK(gs), NEW r \in Record, AppendedTo(fs, r, gs)
    PROVE  /\ Total(gs) = Total(fs) + 1 /\ Stored(gs) = Stored(fs) \cup {r}
           /\ Range(gs[Active]) = Range(fs[Active]) \cup {r}
           /\ Apart(fs) /\ r \notin Stored(fs) => Apart(gs)
<1>a. PICK a : a = fs[Active]
  OBVIOUS
<1>b. /\ a \in Seq(Record) /\ gs[Active] = Append(a, r)
      /\ \A f \in Files \ {Active} : gs[f] = fs[f]
  BY <1>a, FileFacts DEF AppendedTo, FilesOK
<1> DEFINE new == <<Active, Len(a) + 1>>
<1>1. Active \in Files
  BY FileFacts
<1>2. /\ Len(a) \in Nat /\ DOMAIN a = 1 .. Len(a) /\ DOMAIN gs[Active] = 1 .. Len(a) + 1
      /\ gs[Active][Len(a) + 1] = r /\ \A i \in DOMAIN a : gs[Active][i] = a[i]
  BY <1>b
<1>3. ASSUME NEW p \in Places(fs) PROVE p \in Places(gs) /\ p # new /\ At(gs, p) = At(fs, p)
  <2>1. p = <<p[1], p[2]>> /\ p[1] \in Files /\ p[2] \in DOMAIN fs[p[1]]
    BY SlotFacts
  <2>2. CASE p[1] = Active
    <3>1. p[2] \in DOMAIN a /\ p[2] \in DOMAIN gs[Active] /\ p[2] # Len(a) + 1
      BY <1>a, <1>2, <2>1, <2>2
    <3> QED
      BY <1>a, <1>1, <1>2, <2>1, <2>2, <3>1, SlotFacts DEF At
  <2>3. CASE p[1] # Active
    BY <1>b, <2>1, <2>3, SlotFacts DEF At
  <2> QED
    BY <2>2, <2>3
<1>4. new \in Places(gs) /\ At(gs, new) = r
  BY <1>1, <1>2, SlotFacts DEF At
<1>5. ASSUME NEW p \in Places(gs), p # new PROVE p \in Places(fs)
  <2>1. p = <<p[1], p[2]>> /\ p[1] \in Files /\ p[2] \in DOMAIN gs[p[1]]
    BY SlotFacts
  <2>2. CASE p[1] = Active
    <3>1. p[2] \in DOMAIN a
      BY <1>2, <1>5, <2>1, <2>2
    <3> QED
      BY <1>a, <1>1, <2>1, <2>2, <3>1, SlotFacts
  <2>3. CASE p[1] # Active
    BY <1>b, <2>1, <2>3, SlotFacts
  <2> QED
    BY <2>2, <2>3
<1> HIDE DEF new
<1>6. Places(gs) = Places(fs) \cup {new} /\ new \notin Places(fs)
  BY <1>3, <1>4, <1>5
<1>7. Total(gs) = Total(fs) + 1
  BY <1>6, SlotFacts, FS_AddElement DEF Total
<1>8. Stored(gs) = Stored(fs) \cup {r}
  <2>1. \A x : x \in Stored(fs) <=> \E p \in Places(fs) : x = At(fs, p)
    BY StoredAt
  <2>2. \A x : x \in Stored(gs) <=> \E p \in Places(gs) : x = At(gs, p)
    BY StoredAt
  <2> QED
    BY <1>3, <1>4, <1>6, <2>1, <2>2
<1>9. Range(gs[Active]) = Range(a) \cup {r}
  <2>1. \A x : x \in Range(a) <=> \E i \in 1 .. Len(a) : x = a[i]
    BY <1>2 DEF Range
  <2>2. \A x : x \in Range(gs[Active]) <=> \E i \in 1 .. Len(a) + 1 : x = gs[Active][i]
    BY <1>2 DEF Range
  <2>3. 1 .. Len(a) + 1 = (1 .. Len(a)) \cup {Len(a) + 1}
    BY <1>2
  <2> QED
    BY <1>2, <2>1, <2>2, <2>3
<1>10. ASSUME Apart(fs), r \notin Stored(fs) PROVE Apart(gs)
  <2>1. \A p \in Places(fs) : At(fs, p) # r
    BY <1>10, StoredAt
  <2> QED
    BY <1>3, <1>4, <1>6, <1>10, <2>1 DEF Apart
<1> QED
  BY <1>a, <1>7, <1>8, <1>9, <1>10

\* Records that leave their files.
LEMMA Thinned ==
    ASSUME NEW fs, FilesOK(fs), NEW gs, FilesOK(gs),
           \A f \in Files : Range(gs[f]) \subseteq Range(fs[f])
    PROVE  /\ Stored(gs) \subseteq Stored(fs)
           /\ Apart(fs) /\ (\A f \in Files : IsInjective(gs[f])) => Apart(gs)
<1>1. Stored(gs) \subseteq Stored(fs)
  BY DEF Stored
<1>2. ASSUME Apart(fs), \A f \in Files : IsInjective(gs[f]), NEW p \in Places(gs), NEW q \in Places(gs),
             At(gs, p) = At(gs, q)
      PROVE  p = q
  <2>1. /\ p = <<p[1], p[2]>> /\ p[1] \in Files /\ p[2] \in DOMAIN gs[p[1]]
        /\ q = <<q[1], q[2]>> /\ q[1] \in Files /\ q[2] \in DOMAIN gs[q[1]]
    BY SlotFacts
  <2>2. At(gs, p) \in Range(fs[p[1]]) /\ At(gs, q) \in Range(fs[q[1]])
    BY <2>1, StoredFacts DEF At
  <2>3. PICK i \in DOMAIN fs[p[1]] : At(gs, p) = fs[p[1]][i]
    BY <2>1, <2>2, StoredFacts
  <2>4. PICK j \in DOMAIN fs[q[1]] : At(gs, q) = fs[q[1]][j]
    BY <2>1, <2>2, StoredFacts
  <2>5. /\ <<p[1], i>> \in Places(fs) /\ At(fs, <<p[1], i>>) = fs[p[1]][i]
        /\ <<q[1], j>> \in Places(fs) /\ At(fs, <<q[1], j>>) = fs[q[1]][j]
    BY <2>1, SlotFacts DEF At
  <2>6. <<p[1], i>> = <<q[1], j>>
    BY <1>2, <2>3, <2>4, <2>5 DEF Apart
  <2>7. p[1] = q[1]
    BY <2>6
  <2>8. p[2] = q[2]
    BY <1>2, <2>1, <2>7 DEF At, IsInjective
  <2> QED
    BY <2>1, <2>7, <2>8
<1> QED
  BY <1>1, <1>2 DEF Apart

\* In a file no record comes twice.
LEMMA ApartFiles ==
    ASSUME NEW fs, FilesOK(fs), Apart(fs), NEW f \in Files
    PROVE  IsInjective(fs[f])
<1> SUFFICES ASSUME NEW i \in DOMAIN fs[f], NEW j \in DOMAIN fs[f], fs[f][i] = fs[f][j] PROVE i = j
  BY DEF IsInjective
<1>1. /\ <<f, i>> \in Places(fs) /\ At(fs, <<f, i>>) = fs[f][i]
      /\ <<f, j>> \in Places(fs) /\ At(fs, <<f, j>>) = fs[f][j]
  BY SlotFacts DEF At
<1>2. <<f, i>> = <<f, j>>
  BY <1>1 DEF Apart
<1> QED
  BY <1>2

-----------------------------------------------------------------------------
(* The order of the records. *)

\* The files and the records in them are in one line.
LEMMA PrecedesLinear ==
    ASSUME FilesOK(files)
    PROVE  /\ \A p \in Places(files) : ~Precedes(p, p)
           /\ \A p, q, r \in Places(files) : Precedes(p, q) /\ Precedes(q, r) => Precedes(p, r)
           /\ \A p, q \in Places(files) : p = q \/ Precedes(p, q) \/ Precedes(q, p)
           /\ \A p, q \in Places(files) : p[1] = q[1] /\ Precedes(p, q) => ~Older(RecordAt(q), RecordAt(p))
<1>1. \A p \in Places(files) : /\ p = <<p[1], p[2]>> /\ p[1] \in Files /\ p[2] \in DOMAIN files[p[1]]
                              /\ p[1] \in Int /\ p[2] \in Int
  BY SlotFacts
<1>2. \A f \in Files : /\ \A i \in DOMAIN files[f] : ~SortsBefore(files[f], i, i)
                       /\ \A i, j, k \in DOMAIN files[f] :
                             SortsBefore(files[f], i, j) /\ SortsBefore(files[f], j, k) => SortsBefore(files[f], i, k)
                       /\ \A i, j \in DOMAIN files[f] : i = j \/ SortsBefore(files[f], i, j) \/ SortsBefore(files[f], j, i)
  BY SortsLinear, RecordFacts DEF FilesOK
<1>3. ASSUME NEW p \in Places(files) PROVE ~Precedes(p, p)
  BY <1>1, <1>2 DEF Precedes
<1>4. ASSUME NEW p \in Places(files), NEW q \in Places(files), NEW r \in Places(files), Precedes(p, q), Precedes(q, r)
      PROVE  Precedes(p, r)
  <2>1. CASE p[1] = q[1] /\ q[1] = r[1]
    BY <1>1, <1>2, <1>4, <2>1 DEF Precedes
  <2>2. CASE p[1] < r[1]
    BY <2>2 DEF Precedes
  <2> QED
    BY <1>1, <1>4, <2>1, <2>2 DEF Precedes
<1>5. ASSUME NEW p \in Places(files), NEW q \in Places(files) PROVE p = q \/ Precedes(p, q) \/ Precedes(q, p)
  <2>1. CASE p[1] = q[1]
    <3>1. p[2] = q[2] \/ SortsBefore(files[p[1]], p[2], q[2]) \/ SortsBefore(files[p[1]], q[2], p[2])
      BY <1>1, <1>2, <2>1
    <3> QED
      BY <1>1, <2>1, <3>1 DEF Precedes
  <2> QED
    BY <1>1, <2>1 DEF Precedes
<1>6. ASSUME NEW p \in Places(files), NEW q \in Places(files), p[1] = q[1], Precedes(p, q)
      PROVE  ~Older(RecordAt(q), RecordAt(p))
  <2>1. files[p[1]][p[2]].ts \in Int /\ files[p[1]][q[2]].ts \in Int
    BY <1>1, <1>6, RecordFacts DEF FilesOK
  <2> QED
    BY <1>1, <1>6, <2>1 DEF Precedes, SortsBefore, Older, RecordAt
<1> QED
  BY <1>3, <1>4, <1>5, <1>6

\* The places that come after one of them, counted.
LEMMA PrecedesRanks ==
    ASSUME FilesOK(files), NEW S \in SUBSET Places(files),
           NEW A \in [S -> SUBSET S], \A p \in S : A[p] = {q \in S : Precedes(p, q)}
    PROVE  /\ \A p \in S : IsFiniteSet(A[p]) /\ Cardinality(A[p]) \in 0 .. Cardinality(S) - 1
           /\ \A p, q \in S : q \in A[p] => Cardinality(A[q]) < Cardinality(A[p])
           /\ \A p, q \in S : Cardinality(A[p]) = Cardinality(A[q]) => p = q
           /\ \A k \in 0 .. Cardinality(S) - 1 : \E p \in S : Cardinality(A[p]) = k
           /\ Cardinality(S) \in Nat /\ IsFiniteSet(S)
<1>1. IsFiniteSet(S)
  BY SlotFacts, FS_Subset
<1>2. \A p, q \in S : q \in A[p] <=> Precedes(p, q)
  OBVIOUS
<1>3. /\ \A p \in S : p \notin A[p]
      /\ \A p, q, r \in S : q \in A[p] /\ r \in A[q] => r \in A[p]
      /\ \A p, q \in S : p = q \/ q \in A[p] \/ p \in A[q]
  BY <1>2, PrecedesLinear
<1> QED
  BY <1>1, <1>3, Ranks

-----------------------------------------------------------------------------
(* Retention. *)

\* The places of the young records.
LEMMA FreshFacts ==
    ASSUME FilesOK(files)
    PROVE  /\ Fresh \in SUBSET Places(files) /\ IsFiniteSet(Fresh)
           /\ \A p \in Fresh : RecordAt(p) \in OnDisk /\ RecordAt(p) \in Record /\ Young(RecordAt(p))
           /\ \A p \in Places(files) : RecordAt(p) \in OnDisk /\ RecordAt(p) \in Record
<1>1. Fresh \subseteq Places(files) /\ \A p \in Fresh : Young(RecordAt(p))
  BY DEF Fresh
<1>2. IsFiniteSet(Fresh)
  BY <1>1, SlotFacts, FS_Subset
<1>3. ASSUME NEW p \in Places(files) PROVE RecordAt(p) \in OnDisk
  BY StoredAt DEF At, RecordAt, OnDisk
<1>4. OnDisk \subseteq Record
  BY StoredFacts DEF OnDisk
<1> QED
  BY <1>1, <1>2, <1>3, <1>4

\* Governance takes records away and leaves those that stay.
LEMMA GovernedFacts ==
    ASSUME FilesOK(files), NEW ord \in Orders
    PROVE  /\ FilesOK(Governed(ord))
           /\ \A f \in Files : Range(Governed(ord)[f]) \subseteq Range(files[f])
           /\ \A f \in Files : IsInjective(files[f]) => IsInjective(Governed(ord)[f])
           /\ \A p \in Staying(ord) : RecordAt(p) \in Stored(Governed(ord))
<1> DEFINE new == Governed(ord)
           left(f) == {i \in DOMAIN files[f] : <<f, i>> \in Staying(ord)}
<1>1. Staying(ord) \subseteq Places(files)
  BY FreshFacts DEF Staying
<1>2. CASE Staying(ord) = Places(files)
  <2>1. Governed(ord) = files
    BY <1>2 DEF Governed
  <2>2. \A p \in Staying(ord) : RecordAt(p) \in Stored(files)
    BY <1>1, FreshFacts DEF OnDisk
  <2> QED
    BY <2>1, <2>2
<1>3. CASE Staying(ord) # Places(files)
  <2>1. Governed(ord) = [f \in Files |-> Sorted(files[f], left(f))]
    BY <1>3 DEF Governed
  <2>2. ASSUME NEW f \in Files
        PROVE  /\ Governed(ord)[f] \in Seq(Record)
               /\ Range(Governed(ord)[f]) = {files[f][i] : i \in left(f)}
               /\ IsInjective(files[f]) => IsInjective(Governed(ord)[f])
    <3>1. left(f) \in SUBSET DOMAIN files[f] /\ files[f] \in Seq(Record) /\ Stamps(Record)
      BY RecordFacts DEF FilesOK
    <3>2. Governed(ord)[f] = Sorted(files[f], left(f))
      BY <2>1
    <3> HIDE DEF left
    <3> QED
      BY <3>1, <3>2, SortedFacts
  <2>3. FilesOK(Governed(ord))
    <3>1. Governed(ord) = [f \in Files |-> Governed(ord)[f]]
      BY <2>1
    <3> QED
      BY <2>2, <3>1 DEF FilesOK
  <2>4. ASSUME NEW f \in Files PROVE Range(Governed(ord)[f]) \subseteq Range(files[f])
    <3>1. \A i \in left(f) : files[f][i] \in Range(files[f])
      BY DEF Range
    <3>2. Range(Governed(ord)[f]) = {files[f][i] : i \in left(f)}
      BY <2>2
    <3>3. ASSUME NEW x \in Range(Governed(ord)[f]) PROVE x \in Range(files[f])
      <4>1. \E i \in left(f) : x = files[f][i]
        BY <3>2
      <4> HIDE DEF left
      <4> QED
        BY <3>1, <4>1
    <3> QED
      BY <3>3
  <2>5. ASSUME NEW p \in Staying(ord) PROVE RecordAt(p) \in Stored(Governed(ord))
    <3>1. p = <<p[1], p[2]>> /\ p[1] \in Files /\ p[2] \in DOMAIN files[p[1]]
      BY <1>1, SlotFacts
    <3>2. p[2] \in left(p[1])
      BY <3>1
    <3>3. files[p[1]][p[2]] \in Range(Governed(ord)[p[1]])
      <4> HIDE DEF left
      <4> QED
        BY <2>2, <3>1, <3>2
    <3> QED
      BY <2>3, <3>1, <3>3, StoredFacts DEF RecordAt
  <2> QED
    BY <2>2, <2>3, <2>4, <2>5
<1> QED
  BY <1>2, <1>3

\* Among the young records the later ones are not older.
LEMMA FreshOrder ==
    ASSUME FilesOK(files), InFiles(files), NEW p \in Fresh, NEW q \in Fresh, Precedes(p, q)
    PROVE  ~Older(RecordAt(q), RecordAt(p))
<1>1. p \in Places(files) /\ q \in Places(files) /\ Young(RecordAt(p)) /\ Young(RecordAt(q))
  BY FreshFacts
<1>2. /\ p[1] \in Files /\ p[2] \in DOMAIN files[p[1]]
      /\ q[1] \in Files /\ q[2] \in DOMAIN files[q[1]]
  BY <1>1, SlotFacts
<1>3. CASE p[1] = q[1]
  BY <1>1, <1>3, PrecedesLinear
<1>4. CASE p[1] < q[1]
  <2>1. RecordAt(p) \in Range(files[p[1]]) /\ RecordAt(q) \in Range(files[q[1]])
    BY <1>2, StoredFacts DEF RecordAt
  <2> QED
    BY <1>1, <1>2, <1>4, <2>1 DEF InFiles
<1> QED
  BY <1>3, <1>4 DEF Precedes

\* What governance drops although it is young makes room for as many records
\* that are not older.
LEMMA DroppedForRoom ==
    ASSUME FilesOK(files), Apart(files), InFiles(files), NEW W, IsFiniteSet(W), OnDisk \subseteq W,
           NEW ord \in Orders, NEW r \in OnDisk, Young(r), r \notin Stored(Governed(ord))
    PROVE  Cardinality({s \in W \ {r} : ~Older(s, r)}) >= MaxRecords
<1> DEFINE V == {s \in W \ {r} : ~Older(s, r)}
<1>1. PICK p \in Places(files) : r = RecordAt(p)
  BY StoredAt DEF OnDisk, At, RecordAt
<1>2. p \in Fresh /\ p \notin Staying(ord)
  BY <1>1, GovernedFacts DEF Fresh
<1> DEFINE L == Alike(Fresh, p)
           K == L \cap TrimBySize(Fresh)
           N == Visited(Fresh, ord, p)
<1>3. /\ L \subseteq Fresh /\ p \in L /\ N \subseteq L /\ p \notin N
      /\ \A q \in L : IDOf(RecordAt(q)) = IDOf(r)
  <2>1. L \subseteq Fresh /\ p \in L /\ \A q \in L : IDOf(RecordAt(q)) = IDOf(r)
    BY <1>1, <1>2 DEF Alike
  <2>2. N \subseteq L
    BY DEF Visited
  <2>3. ~Precedes(p, p) /\ ord[p[1]] \in Int
    BY <1>1, PrecedesLinear, SlotFacts, FileFacts DEF Orders
  <2>4. p \notin N
    <3>1. ~(ord[p[1]] < ord[p[1]])
      BY <2>3
    <3> QED
      BY <2>3, <3>1 DEF Visited
  <2> QED
    BY <2>1, <2>2, <2>4
<1>4. ~(Cardinality(N) < Cardinality(K))
  BY <1>2 DEF Staying
<1> HIDE DEF K, N
<1>5. IsFiniteSet(L) /\ Cardinality(L) \in Nat
  BY <1>3, FreshFacts, FS_Subset, FS_CardinalityType
<1>6. Cardinality(N) \in Nat /\ Cardinality(N) < Cardinality(L)
  <2>1. N # L
    BY <1>3
  <2>2. IsFiniteSet(N) /\ Cardinality(N) <= Cardinality(L) /\ Cardinality(N) # Cardinality(L)
    BY <1>3, <1>5, <2>1, FS_Subset
  <2> QED
    BY <1>5, <2>2, FS_CardinalityType
<1>7. K # L
  <2>1. K \subseteq L
    BY DEF K
  <2>2. Cardinality(K) \in Nat
    BY <1>5, <2>1, FS_Subset, FS_CardinalityType
  <2> QED
    BY <1>4, <1>5, <1>6, <2>2
<1>8. PICK t \in L : t \notin TrimBySize(Fresh)
  BY <1>7 DEF K
<1> DEFINE X == {q \in Fresh : Precedes(t, q)}
           Y == (X \cup {t}) \ {p}
<1>9. ~(Cardinality(X) < MaxRecords)
  BY <1>3, <1>8 DEF TrimBySize
<1>10. IsFiniteSet(X) /\ Cardinality(X) \in Nat /\ X \subseteq Fresh /\ t \in Fresh /\ t \notin X
  <2>1. X \subseteq Fresh
    OBVIOUS
  <2>2. t \in Fresh
    BY <1>3
  <2>3. ~Precedes(t, t)
    BY <2>2, FreshFacts, PrecedesLinear
  <2>4. IsFiniteSet(X)
    BY <2>1, FreshFacts, FS_Subset
  <2> QED
    BY <2>1, <2>2, <2>3, <2>4, FS_CardinalityType
<1>11. \A q \in Y : q \in Fresh /\ q # p /\ ~Older(RecordAt(q), RecordAt(t))
  <2>1. RecordAt(t).ts \in Int
    BY <1>10, FreshFacts, RecordFacts
  <2>2. ~Older(RecordAt(t), RecordAt(t))
    BY <2>1 DEF Older
  <2> QED
    BY <1>10, <2>2, FreshOrder
<1>12. RecordAt(t).ts = r.ts
  <2>1. IDOf(RecordAt(t)) = IDOf(r)
    BY <1>3
  <2> QED
    BY <2>1 DEF IDOf
<1> HIDE DEF X
<1>13. IsFiniteSet(Y) /\ Cardinality(Y) \in Nat /\ Cardinality(Y) >= Cardinality(X)
  <2>1. IsFiniteSet(X \cup {t}) /\ Cardinality(X \cup {t}) = Cardinality(X) + 1
    BY <1>10, FS_AddElement
  <2>2. CASE p \in X \cup {t}
    <3>1. IsFiniteSet(Y) /\ Cardinality(Y) = Cardinality(X \cup {t}) - 1
      BY <2>1, <2>2, FS_RemoveElement
    <3> QED
      BY <1>10, <2>1, <3>1
  <2>3. CASE p \notin X \cup {t}
    <3>1. Y = X \cup {t}
      BY <2>3
    <3> HIDE DEF Y
    <3>2. IsFiniteSet(Y) /\ Cardinality(Y) = Cardinality(X) + 1
      BY <2>1, <3>1, Zenon
    <3> QED
      BY <1>10, <3>2
  <2> QED
    BY <2>2, <2>3
<1> DEFINE at == [q \in Y |-> RecordAt(q)]
<1>14. at \in Injection(Y, V)
  <2>1. ASSUME NEW q \in Y PROVE RecordAt(q) \in V
    <3>1. q \in Places(files) /\ RecordAt(q) \in W /\ q # p
      BY <1>11, FreshFacts
    <3>2. RecordAt(q) # r
      BY <1>1, <3>1 DEF Apart, At, RecordAt
    <3>3. ~Older(RecordAt(q), r)
      BY <1>11, <1>12 DEF Older
    <3> QED
      BY <3>1, <3>2, <3>3
  <2>2. ASSUME NEW q \in Y, NEW z \in Y, RecordAt(q) = RecordAt(z) PROVE q = z
    <3>1. q \in Places(files) /\ z \in Places(files)
      BY <1>11, FreshFacts
    <3> QED
      BY <2>2, <3>1 DEF Apart, At, RecordAt
  <2> HIDE DEF V, Y
  <2> QED
    BY <2>1, <2>2 DEF Injection, IsInjective
<1>15. IsFiniteSet(V) /\ Cardinality(V) \in Nat
  <2>1. V \subseteq W
    OBVIOUS
  <2> QED
    BY <2>1, FS_Subset, FS_CardinalityType
<1>16. Cardinality(Y) <= Cardinality(V)
  <2> HIDE DEF V, Y, at
  <2> QED
    BY <1>13, <1>14, <1>15, FS_Injection
<1> HIDE DEF V, Y
<1>17. Cardinality(V) >= MaxRecords
  <2>1. MaxRecords \in Nat
    BY SignalsAssumption
  <2> QED
    BY <1>9, <1>10, <1>13, <1>15, <1>16, <2>1
<1> QED
  BY <1>17 DEF V

\* Among those as young as the youngest one stays.
LEMMA YoungestStays ==
    ASSUME FilesOK(files), InFiles(files), NEW ord \in Orders, NEW r \in OnDisk, Young(r)
    PROVE  \E s \in Stored(Governed(ord)) : ~Older(s, r)
<1>1. PICK p \in Places(files) : r = RecordAt(p)
  BY StoredAt DEF OnDisk, At, RecordAt
<1>2. p \in Fresh /\ Fresh \in SUBSET Places(files) /\ IsFiniteSet(Fresh)
  BY <1>1, FreshFacts DEF Fresh
<1> DEFINE after == [q \in Fresh |-> {z \in Fresh : Precedes(q, z)}]
<1>3. after \in [Fresh -> SUBSET Fresh] /\ \A q \in Fresh : after[q] = {z \in Fresh : Precedes(q, z)}
  OBVIOUS
<1>4. PICK z \in Fresh : Cardinality(after[z]) = 0
  <2> HIDE DEF after
  <2>1. /\ \A k \in 0 .. Cardinality(Fresh) - 1 : \E q \in Fresh : Cardinality(after[q]) = k
        /\ Cardinality(Fresh) \in Nat
    BY <1>2, <1>3, PrecedesRanks
  <2>2. Cardinality(Fresh) # 0
    BY <1>2, FS_EmptySet
  <2>3. 0 \in 0 .. Cardinality(Fresh) - 1
    BY <2>1, <2>2
  <2> QED
    BY <2>1, <2>3
<1>5. after[z] = {}
  <2>1. IsFiniteSet(after[z])
    BY <1>2, <1>3, FS_Subset
  <2> HIDE DEF after
  <2> QED
    BY <1>4, <2>1, FS_EmptySet
<1>6. ~Older(RecordAt(z), r)
  <2>1. z \in Places(files) /\ p \in Places(files)
    BY <1>2
  <2>2. ~Precedes(z, p)
    BY <1>2, <1>5
  <2>3. CASE p = z
    <3>1. r.ts \in Int
      BY <1>1, FreshFacts, RecordFacts
    <3> QED
      BY <1>1, <2>3, <3>1 DEF Older
  <2>4. CASE Precedes(p, z)
    BY <1>1, <1>2, <2>4, FreshOrder
  <2> QED
    BY <2>1, <2>2, <2>3, <2>4, PrecedesLinear
<1>7. z \in TrimBySize(Fresh)
  <2>1. Cardinality({q \in Fresh : Precedes(z, q)}) = 0
    BY <1>4
  <2> QED
    BY <2>1, SignalsAssumption DEF TrimBySize
<1> DEFINE L == Alike(Fresh, z)
           seen == [q \in L |-> Visited(Fresh, ord, q)]
<1>8. /\ L \subseteq Fresh /\ z \in L
      /\ \A q \in L : Alike(Fresh, q) = L /\ IDOf(RecordAt(q)) = IDOf(RecordAt(z))
  BY DEF Alike
<1>9. IsFiniteSet(L)
  BY <1>2, <1>8, FS_Subset
<1>10. /\ seen \in [L -> SUBSET L]
       /\ \A q, x \in L : x \in seen[q] <=> (ord[x[1]] < ord[q[1]] \/ (x[1] = q[1] /\ Precedes(x, q)))
  <2> HIDE DEF L
  <2> QED
    BY <1>8 DEF Visited
<1>11. /\ \A q \in L : q \notin seen[q]
       /\ \A q, x, y \in L : x \in seen[q] /\ y \in seen[x] => y \in seen[q]
       /\ \A q, x \in L : q = x \/ x \in seen[q] \/ q \in seen[x]
  <2> HIDE DEF L, seen
  <2>1. \A q \in L : q \in Places(files) /\ q[1] \in Files /\ ord[q[1]] \in Int
    BY <1>2, <1>8, SlotFacts, FileFacts DEF Orders
  <2>2. \A q, x \in L : ord[q[1]] = ord[x[1]] => q[1] = x[1]
    BY <2>1 DEF Orders, IsInjective
  <2>3. \A q \in L : q \notin seen[q]
    BY <1>10, <2>1, PrecedesLinear
  <2>4. ASSUME NEW q \in L, NEW x \in L, NEW y \in L, x \in seen[q], y \in seen[x] PROVE y \in seen[q]
    <3>1. CASE x[1] = q[1] /\ y[1] = x[1]
      <4>1. Precedes(x, q) /\ Precedes(y, x)
        BY <1>10, <2>1, <2>4, <3>1
      <4> QED
        BY <1>10, <2>1, <3>1, <4>1, PrecedesLinear
    <3>2. CASE ord[y[1]] < ord[q[1]]
      BY <1>10, <3>2
    <3> QED
      BY <1>10, <2>1, <2>4, <3>1, <3>2
  <2>5. ASSUME NEW q \in L, NEW x \in L PROVE q = x \/ x \in seen[q] \/ q \in seen[x]
    <3>1. CASE x[1] = q[1]
      BY <1>10, <2>1, <3>1, PrecedesLinear
    <3>2. CASE x[1] # q[1]
      <4>1. ord[x[1]] # ord[q[1]]
        BY <2>2, <3>2
      <4> QED
        BY <1>10, <2>1, <4>1
    <3> QED
      BY <3>1, <3>2
  <2> QED
    BY <2>3, <2>4, <2>5
<1>12. PICK x \in L : Cardinality(seen[x]) = 0
  <2> HIDE DEF L, seen
  <2>1. /\ \A k \in 0 .. Cardinality(L) - 1 : \E q \in L : Cardinality(seen[q]) = k
        /\ Cardinality(L) \in Nat
    BY <1>9, <1>10, <1>11, Ranks
  <2>2. Cardinality(L) # 0
    BY <1>8, <1>9, FS_EmptySet
  <2>3. 0 \in 0 .. Cardinality(L) - 1
    BY <2>1, <2>2
  <2> QED
    BY <2>1, <2>3
<1>13. x \in Staying(ord)
  <2> DEFINE K == L \cap TrimBySize(Fresh)
  <2>1. z \in K /\ K \subseteq L
    BY <1>7, <1>8
  <2>2. Cardinality(K) \in Nat /\ Cardinality(K) # 0
    <3> HIDE DEF K
    <3> QED
      BY <1>9, <2>1, FS_Subset, FS_EmptySet, FS_CardinalityType
  <2>3. Alike(Fresh, x) \cap TrimBySize(Fresh) = K
    BY <1>8
  <2>4. Cardinality(Visited(Fresh, ord, x)) = 0
    BY <1>12
  <2> HIDE DEF K
  <2>5. Cardinality(Visited(Fresh, ord, x)) < Cardinality(Alike(Fresh, x) \cap TrimBySize(Fresh))
    BY <2>2, <2>3, <2>4
  <2> QED
    BY <1>8, <2>5 DEF Staying
<1>14. RecordAt(x) \in Stored(Governed(ord))
  BY <1>13, GovernedFacts
<1>15. RecordAt(x).ts = RecordAt(z).ts
  <2>1. IDOf(RecordAt(x)) = IDOf(RecordAt(z))
    BY <1>8
  <2> QED
    BY <2>1 DEF IDOf
<1> QED
  BY <1>6, <1>14, <1>15 DEF Older

-----------------------------------------------------------------------------
(* Queries. *)

\* The records a file gives are those with fewer than n after them.
LEMMA NewestCounted ==
    ASSUME NEW s \in Seq(Record), NEW n \in Int, InOrder(s, DOMAIN s) \/ ~InOrder(s, LastOf(s, n)), NEW i \in DOMAIN s
    PROVE  i \in NewestOf(s, n) <=> Cardinality({j \in DOMAIN s : SortsBefore(s, i, j)}) < n
<1>1. Len(s) \in Nat /\ DOMAIN s = 1 .. Len(s) /\ i \in Nat /\ \A j \in DOMAIN s : s[j].ts \in Int
  BY RecordFacts
<1>2. CASE ~InOrder(s, LastOf(s, n))
  BY <1>2 DEF NewestOf
<1>3. CASE InOrder(s, DOMAIN s)
  <2>1. InOrder(s, LastOf(s, n))
    BY <1>3 DEF InOrder, LastOf
  <2>2. i \in NewestOf(s, n) <=> i > Len(s) - n
    BY <2>1 DEF NewestOf, LastOf
  <2>3. ASSUME NEW j \in DOMAIN s PROVE SortsBefore(s, i, j) <=> i < j
    BY <1>1, <1>3 DEF InOrder, SortsBefore, Older
  <2>4. {j \in DOMAIN s : SortsBefore(s, i, j)} = i + 1 .. Len(s)
    BY <1>1, <2>3
  <2>5. Cardinality(i + 1 .. Len(s)) = Len(s) - i
    BY <1>1, FS_Interval
  <2>6. i > Len(s) - n <=> Len(s) - i < n
    BY <1>1
  <2> QED
    BY <2>2, <2>4, <2>5, <2>6
<1> QED
  BY <1>2, <1>3

\* The last n positions in the order of time are n, or all.
LEMMA NewestSize ==
    ASSUME NEW s \in Seq(Record), NEW n \in Nat \ {0}
    PROVE  /\ NewestOf(s, n) \subseteq DOMAIN s /\ IsFiniteSet(NewestOf(s, n))
           /\ Cardinality(NewestOf(s, n)) = IF Len(s) < n THEN Len(s) ELSE n
           /\ Len(s) < n => NewestOf(s, n) = DOMAIN s
<1> DEFINE S == DOMAIN s
           A == [i \in S |-> {j \in S : SortsBefore(s, i, j)}]
           T == {i \in S : Cardinality(A[i]) < n}
           c == IF Len(s) < n THEN Len(s) ELSE n
<1>1. Len(s) \in Nat /\ S = 1 .. Len(s) /\ n \in Nat /\ n > 0
  OBVIOUS
<1>2. IsFiniteSet(S) /\ Cardinality(S) = Len(s)
  <2>1. Cardinality(1 .. Len(s)) = IF 1 > Len(s) THEN 0 ELSE Len(s) - 1 + 1
    BY <1>1, FS_Interval
  <2>2. Cardinality(1 .. Len(s)) = Len(s) /\ IsFiniteSet(1 .. Len(s))
    BY <1>1, <2>1, FS_Interval
  <2> HIDE DEF S
  <2> QED
    BY <1>1, <2>2
<1>3. NewestOf(s, n) \subseteq S /\ IsFiniteSet(NewestOf(s, n))
  <2>1. NewestOf(s, n) \subseteq S
    BY DEF NewestOf, LastOf
  <2> HIDE DEF S
  <2> QED
    BY <1>2, <2>1, FS_Subset
<1>4. c \in Nat /\ c <= n /\ c <= Len(s) /\ \A k \in Nat : k < c <=> k < n /\ k < Len(s)
  <2>1. CASE Len(s) < n
    BY <1>1, <2>1
  <2>2. CASE ~(Len(s) < n)
    BY <1>1, <2>2
  <2> QED
    BY <2>1, <2>2
<1>5. Cardinality(0 .. c - 1) = c /\ IsFiniteSet(0 .. c - 1)
  <2> HIDE DEF c
  <2>1. c - 1 \in Int
    BY <1>4
  <2>2. Cardinality(0 .. c - 1) = IF 0 > c - 1 THEN 0 ELSE c - 1 - 0 + 1
    BY <2>1, FS_Interval
  <2>3. IsFiniteSet(0 .. c - 1)
    BY <2>1, FS_Interval
  <2> QED
    BY <1>4, <2>2, <2>3
<1>6. CASE InOrder(s, LastOf(s, n))
  <2> DEFINE f == [k \in 0 .. c - 1 |-> Len(s) - k]
  <2>1. NewestOf(s, n) = {i \in 1 .. Len(s) : i > Len(s) - n}
    BY <1>1, <1>6 DEF NewestOf, LastOf
  <2>2. f \in [0 .. c - 1 -> NewestOf(s, n)]
    <3> SUFFICES ASSUME NEW k \in 0 .. c - 1 PROVE Len(s) - k \in NewestOf(s, n)
      OBVIOUS
    <3> HIDE DEF c
    <3> QED
      BY <1>1, <1>4, <2>1
  <2>3. \A k, l \in 0 .. c - 1 : f[k] = f[l] => k = l
    <3> SUFFICES ASSUME NEW k \in 0 .. c - 1, NEW l \in 0 .. c - 1, Len(s) - k = Len(s) - l PROVE k = l
      OBVIOUS
    <3> QED
      BY <1>1
  <2>4. ASSUME NEW i \in NewestOf(s, n) PROVE \E k \in 0 .. c - 1 : f[k] = i
    <3>1. i \in 1 .. Len(s) /\ i > Len(s) - n
      BY <2>1
    <3>2. Len(s) - i \in Nat /\ Len(s) - i < n /\ Len(s) - i < Len(s)
      BY <1>1, <3>1
    <3>3. Len(s) - i < c
      BY <1>4, <3>2
    <3>4. Len(s) - i \in 0 .. c - 1
      <4> HIDE DEF c
      <4> QED
        BY <1>4, <3>2, <3>3
    <3>5. f[Len(s) - i] = Len(s) - (Len(s) - i)
      BY <3>4
    <3>6. Len(s) - (Len(s) - i) = i
      BY <1>1, <3>1
    <3> QED
      BY <3>4, <3>5, <3>6
  <2>5. Cardinality(NewestOf(s, n)) = c
    <3>1. PICK N : N = NewestOf(s, n)
      OBVIOUS
    <3>2. PICK D : D = 0 .. c - 1
      OBVIOUS
    <3>3. /\ f \in [D -> N] /\ \A k, l \in D : f[k] = f[l] => k = l
          /\ \A i \in N : \E k \in D : f[k] = i
      <4> HIDE DEF f, c
      <4> QED
        BY <2>2, <2>3, <2>4, <3>1, <3>2
    <3>4. IsFiniteSet(D) /\ Cardinality(D) = c
      BY <1>5, <3>2
    <3>5. Cardinality(N) = Cardinality(D)
      <4> HIDE DEF f, c, S
      <4> QED
        BY <3>3, <3>4, OneToOne
    <3> QED
      BY <3>1, <3>4, <3>5
  <2>6. ASSUME Len(s) < n PROVE NewestOf(s, n) = S
    BY <1>1, <2>1, <2>6
  <2> QED
    BY <1>3, <2>5, <2>6
<1>7. CASE ~InOrder(s, LastOf(s, n))
  <2>1. NewestOf(s, n) = T
    BY <1>7 DEF NewestOf
  <2>2. A \in [S -> SUBSET S] /\ \A i, j \in S : j \in A[i] <=> SortsBefore(s, i, j)
    OBVIOUS
  <2>3. /\ \A i \in S : i \notin A[i]
        /\ \A i, j, k \in S : j \in A[i] /\ k \in A[j] => k \in A[i]
        /\ \A i, j \in S : i = j \/ j \in A[i] \/ i \in A[j]
    <3>1. /\ \A i \in S : ~SortsBefore(s, i, i)
          /\ \A i, j, k \in S : SortsBefore(s, i, j) /\ SortsBefore(s, j, k) => SortsBefore(s, i, k)
          /\ \A i, j \in S : i = j \/ SortsBefore(s, i, j) \/ SortsBefore(s, j, i)
      BY SortsLinear, RecordFacts
    <3> HIDE DEF A, S
    <3> QED
      BY <2>2, <3>1
  <2> HIDE DEF A, S
  <2>4. /\ \A i \in S : Cardinality(A[i]) \in 0 .. Len(s) - 1
        /\ \A i, j \in S : Cardinality(A[i]) = Cardinality(A[j]) => i = j
        /\ \A k \in 0 .. Len(s) - 1 : \E i \in S : Cardinality(A[i]) = k
    <3>1. /\ \A i \in S : Cardinality(A[i]) \in 0 .. Cardinality(S) - 1
          /\ \A i, j \in S : Cardinality(A[i]) = Cardinality(A[j]) => i = j
          /\ \A k \in 0 .. Cardinality(S) - 1 : \E i \in S : Cardinality(A[i]) = k
      BY <1>2, <2>2, <2>3, Ranks
    <3> QED
      BY <1>2, <3>1
  <2> DEFINE rank == [i \in T |-> Cardinality(A[i])]
  <2>5. rank \in [T -> 0 .. c - 1]
    <3> SUFFICES ASSUME NEW i \in T PROVE Cardinality(A[i]) \in 0 .. c - 1
      OBVIOUS
    <3>1. Cardinality(A[i]) < n /\ Cardinality(A[i]) \in 0 .. Len(s) - 1
      BY <2>4
    <3>2. Cardinality(A[i]) \in Nat /\ Cardinality(A[i]) < c
      BY <1>1, <1>4, <3>1
    <3> HIDE DEF c
    <3> QED
      BY <1>4, <3>2
  <2>6. \A i, j \in T : rank[i] = rank[j] => i = j
    BY <2>4
  <2>7. ASSUME NEW k \in 0 .. c - 1 PROVE \E i \in T : rank[i] = k
    <3>1. k \in Nat /\ k < Len(s) /\ k < n
      <4> HIDE DEF c
      <4> QED
        BY <1>4
    <3>2. PICK i \in S : Cardinality(A[i]) = k
      BY <1>1, <2>4, <3>1
    <3> QED
      BY <3>1, <3>2
  <2>8. Cardinality(0 .. c - 1) = Cardinality(T)
    <3>1. IsFiniteSet(T)
      BY <1>3, <2>1
    <3> HIDE DEF T, c, rank
    <3> QED
      BY <2>5, <2>6, <2>7, <3>1, OneToOne
  <2>9. ASSUME Len(s) < n PROVE T = S
    <3>1. \A i \in S : Cardinality(A[i]) < n
      BY <1>1, <2>4, <2>9
    <3> QED
      BY <3>1
  <2> QED
    BY <1>3, <1>5, <2>1, <2>8, <2>9 DEF S
<1> QED
  BY <1>6, <1>7

\* None of them is older than one that is not among them, if the file is in order
\* or its disorder is met.
LEMMA NewestOlder ==
    ASSUME NEW s \in Seq(Record), NEW n \in Int, InOrder(s, DOMAIN s) \/ ~InOrder(s, LastOf(s, n)),
           NEW i \in NewestOf(s, n), NEW j \in DOMAIN s \ NewestOf(s, n)
    PROVE  ~Older(s[i], s[j])
<1> DEFINE S == DOMAIN s
           A == [k \in S |-> {l \in S : SortsBefore(s, k, l)}]
<1>1. i \in S /\ j \in S /\ i # j /\ Len(s) \in Nat /\ S = 1 .. Len(s)
  <2>1. NewestOf(s, n) \subseteq S
    BY DEF NewestOf, LastOf
  <2> QED
    BY <2>1
<1>2. /\ \A k \in S : ~SortsBefore(s, k, k)
      /\ \A k, l, m \in S : SortsBefore(s, k, l) /\ SortsBefore(s, l, m) => SortsBefore(s, k, m)
      /\ \A k, l \in S : k = l \/ SortsBefore(s, k, l) \/ SortsBefore(s, l, k)
  BY SortsLinear, RecordFacts
<1>3. A \in [S -> SUBSET S] /\ \A k, l \in S : l \in A[k] <=> SortsBefore(s, k, l)
  OBVIOUS
<1>4. Cardinality(A[i]) < n /\ ~(Cardinality(A[j]) < n)
  BY <1>1, NewestCounted
<1>5. s[i].ts \in Int /\ s[j].ts \in Int
  BY <1>1, RecordFacts
<1>6. IsFiniteSet(S)
  <2> HIDE DEF S
  <2> QED
    BY <1>1, FS_Interval
<1> HIDE DEF A, S
<1>7. /\ \A k \in S : Cardinality(A[k]) \in 0 .. Cardinality(S) - 1
      /\ \A k, l \in S : l \in A[k] => Cardinality(A[l]) < Cardinality(A[k])
  <2>1. /\ \A k \in S : k \notin A[k]
        /\ \A k, l, m \in S : l \in A[k] /\ m \in A[l] => m \in A[k]
        /\ \A k, l \in S : k = l \/ l \in A[k] \/ k \in A[l]
    BY <1>2, <1>3
  <2> QED
    BY <1>3, <1>6, <2>1, Ranks
<1>8. j \notin A[i]
  <2>1. Cardinality(A[i]) \in Int /\ Cardinality(A[j]) \in Int
    BY <1>1, <1>7
  <2> QED
    BY <1>1, <1>4, <1>7, <2>1
<1>9. SortsBefore(s, j, i)
  BY <1>1, <1>2, <1>3, <1>8
<1> QED
  BY <1>5, <1>9 DEF SortsBefore, Older

\* The files as a query has seen them.
LEMMA ViewFacts ==
    ASSUME FilesOK(files), NEW n \in Nat, n <= Len(files[Active])
    PROVE  /\ FilesOK(View(n)) /\ \A f \in Files \ {Active} : View(n)[f] = files[f]
           /\ View(n)[Active] = SubSeq(files[Active], 1, n)
           /\ n = Len(files[Active]) => View(n) = files
           /\ \A p \in Places(View(n)) : p \in Places(files) /\ At(View(n), p) = RecordAt(p)
<1>1. PICK a : a = files[Active]
  OBVIOUS
<1>2. a \in Seq(Record) /\ Active \in Files /\ files \in [Files -> Seq(Record)] /\ Len(a) \in Nat /\ n <= Len(a)
  BY <1>1, FileFacts DEF FilesOK
<1>3. /\ SubSeq(a, 1, n) \in Seq(Record) /\ DOMAIN SubSeq(a, 1, n) = 1 .. n
      /\ DOMAIN a = 1 .. Len(a)
      /\ \A i \in 1 .. n : SubSeq(a, 1, n)[i] = a[i] /\ i \in DOMAIN a
  BY <1>2
<1>4. View(n) = [files EXCEPT ![Active] = SubSeq(a, 1, n)]
  BY <1>1 DEF View
<1>5. /\ View(n) \in [Files -> Seq(Record)] /\ \A f \in Files \ {Active} : View(n)[f] = files[f]
      /\ View(n)[Active] = SubSeq(a, 1, n)
  BY <1>2, <1>3, <1>4
<1>6. ASSUME n = Len(a) PROVE View(n) = files
  <2>1. SubSeq(a, 1, n) = a
    BY <1>2, <1>3, <1>6
  <2> QED
    BY <1>1, <1>2, <1>4, <2>1
<1>7. FilesOK(View(n))
  BY <1>5 DEF FilesOK
<1>8. ASSUME NEW p \in Places(View(n)) PROVE p \in Places(files) /\ At(View(n), p) = RecordAt(p)
  <2>1. p = <<p[1], p[2]>> /\ p[1] \in Files /\ p[2] \in DOMAIN View(n)[p[1]]
    BY <1>7, SlotFacts
  <2>2. p[2] \in DOMAIN files[p[1]] /\ View(n)[p[1]][p[2]] = files[p[1]][p[2]]
    <3>1. CASE p[1] = Active
      BY <1>1, <1>3, <1>5, <2>1, <3>1
    <3>2. CASE p[1] # Active
      BY <1>5, <2>1, <3>2
    <3> QED
      BY <3>1, <3>2
  <2>3. p \in Places(files)
    BY <2>1, <2>2, SlotFacts
  <2> QED
    BY <2>2, <2>3 DEF At, RecordAt
<1> QED
  BY <1>1, <1>5, <1>6, <1>7, <1>8

-----------------------------------------------------------------------------
(* The steps. *)

\* A rotation under way changes the active file only.
LEMMA BaseFacts ==
    ASSUME NEW fs, FilesOK(fs), NEW h \in BOOLEAN
    PROVE  /\ FilesOK(BaseOf(fs, h))
           /\ \A f \in 0 .. LastDay : BaseOf(fs, h)[f] = fs[f]
           /\ h => BaseOf(fs, h)[Active] = <<>>
           /\ fs[Active] = <<>> => BaseOf(fs, h) = fs
           /\ ~h => BaseOf(fs, h) = fs
           /\ \A f \in Files : Range(BaseOf(fs, h)[f]) \subseteq Range(fs[f])
<1>1. Active \in Files /\ Active \notin 0 .. LastDay /\ 0 .. LastDay \subseteq Files /\ fs \in [Files -> Seq(Record)]
  BY FileFacts DEF FilesOK
<1>2. CASE ~h
  BY <1>2 DEF BaseOf
<1>3. CASE h
  <2>1. BaseOf(fs, h) = [fs EXCEPT ![Active] = <<>>]
    BY <1>3 DEF BaseOf
  <2>2. BaseOf(fs, h)[Active] = <<>> /\ \A f \in Files \ {Active} : BaseOf(fs, h)[f] = fs[f]
    BY <1>1, <2>1
  <2>3. <<>> \in Seq(Record) /\ DOMAIN <<>> = {}
    OBVIOUS
  <2>4. BaseOf(fs, h) \in [Files -> Seq(Record)]
    BY <1>1, <2>1, <2>3
  <2>5. Range(BaseOf(fs, h)[Active]) = {}
    BY <2>2, <2>3 DEF Range
  <2>6. ASSUME fs[Active] = <<>> PROVE BaseOf(fs, h) = fs
    BY <1>1, <2>1, <2>6
  <2> QED
    BY <1>1, <1>3, <2>2, <2>4, <2>5, <2>6 DEF FilesOK
<1> QED
  BY <1>2, <1>3

\* No step but governance takes a record from the disk.
LEMMA GoneKeeps ==
    ASSUME OnlyOldGone, clock \in Nat, clock' \in Nat, clock <= clock', written \subseteq written', IsFiniteSet(written'),
           written' \subseteq Record, written' \ OnDisk' \subseteq written \ OnDisk,
           (~torn /\ ~doubled /\ ~late)' => (~torn /\ ~doubled /\ ~late)
    PROVE  OnlyOldGone'
<1> SUFFICES ASSUME (~torn /\ ~doubled /\ ~late)', NEW r \in written' \ OnDisk'
    PROVE  r.ts + Retention < clock' \/ Cardinality({s \in written' \ {r} : ~Older(s, r)}) >= MaxRecords
  BY DEF OnlyOldGone
<1> DEFINE V == {s \in written \ {r} : ~Older(s, r)}
           U == {s \in written' \ {r} : ~Older(s, r)}
<1>1. r \in written \ OnDisk /\ r.ts \in Nat /\ Retention \in Nat /\ MaxRecords \in Nat
  BY SignalsAssumption, RecordFacts
<1>2. r.ts + Retention < clock \/ Cardinality(V) >= MaxRecords
  BY <1>1 DEF OnlyOldGone
<1>3. V \subseteq U /\ U \subseteq written'
  OBVIOUS
<1> HIDE DEF V, U
<1>4. IsFiniteSet(U) /\ Cardinality(U) \in Nat /\ IsFiniteSet(V) /\ Cardinality(V) \in Nat /\ Cardinality(V) <= Cardinality(U)
  <2>1. IsFiniteSet(U)
    BY <1>3, FS_Subset
  <2> QED
    BY <1>3, <2>1, FS_Subset, FS_CardinalityType
<1>5. r.ts + Retention < clock' \/ Cardinality(U) >= MaxRecords
  BY <1>1, <1>2, <1>4
<1> QED
  BY <1>5 DEF U

\* The type of a query, and a query that is not disturbed or no longer followed.
Queries == [todo : SUBSET Files, got : SUBSET (Files \X Nat), seen : Nat]

LEMMA QueryStays ==
    ASSUME SigQuery, query \in Queries, query' = NoQuery \/ (query' = query /\ files' = files)
    PROVE  SigQuery' /\ query' \in Queries
<1>1. CASE query' = NoQuery
  <2>1. query'.todo = {} /\ query' \in Queries
    BY <1>1 DEF NoQuery, Queries
  <2> QED
    BY <2>1 DEF SigQuery
<1>2. CASE query' = query /\ files' = files
  BY <1>2 DEF SigQuery, View
<1> QED
  BY <1>1, <1>2

\* Time passes or a query is at work.
LEMMA WaitKeeps ==
    ASSUME SigInv, clock' \in clock .. MaxClock, query' \in Queries, SigQuery', missed' = missed,
           UNCHANGED <<files, activeDay, counted, lock, wr, nextID, ragged, mishaps, stamped,
                       written, late, doubled, torn, stale>>
    PROVE  SigInv'
<1>1. /\ clock \in Nat /\ clock' \in Nat /\ clock <= clock' /\ Retention \in Nat /\ MaxClock \in Nat
      /\ FilesOK(files) /\ written \subseteq Record /\ Halfway \in BOOLEAN
  BY SignalsAssumption DEF SigInv, SigTypes, SignalsTypeOK, FilesOK, Halfway
<1>2. ASSUME NEW r \in Record, r.ts + Retention >= clock' PROVE Young(r)
  BY <1>1, <1>2, RecordFacts DEF Young
<1>3. SigTypes'
  BY <1>1 DEF SigInv, SigTypes, SignalsTypeOK, OnDisk, Queries
<1>4. SigNumbers'
  BY DEF SigInv, SigNumbers, OnDisk
<1>5. SigDays'
  BY DEF SigInv, SigDays, MustRotate, PreviousDay
<1>6. Base' = Base /\ OnDisk' = OnDisk
  BY DEF Base, Halfway, OnDisk
<1>7. SigCounted'
  BY <1>6 DEF SigInv, SigCounted
<1>8. ASSUME InFiles(Base), Topped, DaysRise(Base) PROVE InFiles(Base)' /\ Topped' /\ DaysRise(Base)'
  <2>1. \A f \in Files : Range(Base[f]) \subseteq Record
    BY <1>1, BaseFacts, StoredFacts DEF Base
  <2>2. Active \in Files
    BY FileFacts
  <2>3. InFiles(Base)'
    BY <1>2, <1>6, <1>8, <2>1 DEF InFiles, Young
  <2>4. Topped'
    BY <1>1, <1>2, <1>6, <1>8 DEF Topped, Young
  <2>5. DaysRise(Base)'
    BY <1>2, <1>6, <1>8, <2>1, <2>2 DEF DaysRise, Young
  <2> QED
    BY <2>3, <2>4, <2>5
<1>9. SigOrdered'
  BY <1>8 DEF SigInv, SigOrdered
<1>10. OnlyOldGone'
  BY <1>1, <1>6, GoneKeeps DEF SigInv, SigTypes
<1> QED
  BY <1>3, <1>4, <1>5, <1>7, <1>9, <1>10 DEF SigInv

\* The facts about a state that the steps need.
LEMMA StateFacts ==
    ASSUME SigInv
    PROVE  /\ clock \in Nat /\ clock <= MaxClock /\ MaxClock \in Nat /\ FilesOK(files) /\ Halfway \in BOOLEAN
           /\ files \in [Files -> Seq(Record)]
           /\ written \subseteq Record /\ IsFiniteSet(written) /\ OnDisk \subseteq written
           /\ wr \in [Writers -> [pc : Pcs, rec : Record]]
           /\ \A w \in Writers : wr[w].pc \in Pcs /\ wr[w].rec \in Record
           /\ lock \in Writers \cup {Nobody} /\ Nobody \notin Writers
           /\ \A w \in Writers : wr[w].pc \in {"copy", "remove", "append", "govern"} <=> lock = w
           /\ activeDay \in 0 .. Unknown /\ Unknown \in Nat
           /\ ragged \subseteq Files /\ (ragged # {} => torn) /\ query \in Queries
           /\ SignalsTypeOK /\ SigTypes /\ SigNumbers /\ SigDays /\ SigCounted /\ SigOrdered /\ SigQuery
           /\ OnlyOldGone /\ ~missed
BY SignalsAssumption, FileFacts DEF SigInv, SigTypes, SignalsTypeOK, FilesOK, Halfway, Queries

\* With the lock free or its holder at another step no rotation is half done.
LEMMA NotHalfway ==
    ASSUME SigInv, lock = Nobody \/ \E w \in Writers : lock = w /\ wr[w].pc # "remove"
    PROVE  ~Halfway /\ Base = files
<1>1. ASSUME NEW v \in Writers, wr[v].pc = "remove" PROVE FALSE
  <2>1. lock = v
    BY <1>1, StateFacts
  <2> QED
    BY <1>1, <2>1, StateFacts
<1>2. ~Halfway
  BY <1>1 DEF Halfway
<1> QED
  BY <1>2, BaseFacts, StateFacts DEF Base

\* Stamp takes a tag that no record has.
LEMMA StampKeeps ==
    ASSUME SigInv, NEW w \in Writers, Stamp(w)
    PROVE  SigInv'
<1> USE StateFacts
<1>1. PICK n \in {nextID + 1} \cup {wr[v].rec.n : v \in {v \in Writers : wr[v].pc = "stamped"}} :
         /\ wr' = [wr EXCEPT ![w] = [pc |-> "stamped", rec |-> [ts |-> clock, n |-> n, tag |-> stamped + 1]]]
         /\ nextID' = IF n > nextID THEN n ELSE nextID
  BY DEF Stamp
<1> DEFINE e == [ts |-> clock, n |-> n, tag |-> stamped + 1]
<1>2. /\ wr[w].pc = "idle" /\ stamped < MaxWrites /\ stamped' = stamped + 1
      /\ UNCHANGED <<clock, files, activeDay, counted, lock, ragged, query, mishaps,
                     written, late, doubled, torn, stale, missed>>
  BY DEF Stamp
<1>3. /\ nextID \in Nat /\ stamped \in Nat /\ nextID <= stamped /\ MaxWrites \in Nat
      /\ \A v \in Writers : wr[v].rec.n \in Nat /\ wr[v].rec.n <= nextID /\ wr[v].rec.tag \in Nat
  BY SignalsAssumption DEF SigNumbers, SignalsTypeOK, Record
<1>4. n \in Nat /\ n <= nextID + 1 /\ nextID' \in Nat /\ nextID <= nextID' /\ n <= nextID' /\ nextID' <= stamped'
  BY <1>1, <1>2, <1>3
<1>5. e \in Record /\ e.n = n /\ e.tag = stamped + 1
  BY <1>2, <1>3, <1>4 DEF Record
<1>6. wr'[w].pc = "stamped" /\ wr'[w].rec = e /\ \A v \in Writers \ {w} : wr'[v] = wr[v]
  BY <1>1
<1>7. wr' \in [Writers -> [pc : Pcs, rec : Record]]
  <2>1. "stamped" \in Pcs
    BY DEF Pcs
  <2> HIDE DEF e
  <2> QED
    BY <1>1, <1>5, <2>1 DEF e
<1> HIDE DEF e
<1>8. \A v \in Writers : wr'[v].pc \in {"copy", "remove", "append", "govern"} <=> lock = v
  BY <1>2, <1>6
<1>9. SigTypes'
  BY <1>2, <1>3, <1>4, <1>7, <1>8 DEF SigTypes, SignalsTypeOK, OnDisk
<1>10. SigNumbers'
  <2>1. \A v \in Writers : wr'[v].rec.n <= nextID'
    BY <1>3, <1>4, <1>5, <1>6
  <2>2. OnDisk' = OnDisk /\ \A r \in OnDisk : r.tag \in Nat /\ r.tag <= stamped
    BY <1>2 DEF OnDisk, SigNumbers, Record
  <2>3. \A v \in Writers \ {w} : wr[v].pc \in Holding => wr[v].rec.tag <= stamped
    BY DEF SigNumbers
  <2>4. ASSUME NEW v \in Writers, wr'[v].pc \in Holding
        PROVE  /\ wr'[v].rec.tag <= stamped'
               /\ \A r \in OnDisk : r.tag # wr'[v].rec.tag
               /\ \A u \in Writers \ {v} : wr'[u].pc \in Holding => wr'[u].rec.tag # wr'[v].rec.tag
    <3>1. CASE v = w
      BY <1>2, <1>3, <1>5, <1>6, <2>2, <2>3, <3>1
    <3>2. CASE v # w
      <4>1. wr'[v] = wr[v] /\ wr[v].pc \in Holding /\ wr[v].rec.tag <= stamped
        BY <1>6, <2>3, <2>4, <3>2
      <4>2. ASSUME NEW u \in Writers \ {v}, wr'[u].pc \in Holding PROVE wr'[u].rec.tag # wr'[v].rec.tag
        <5>1. CASE u = w
          BY <1>3, <1>5, <1>6, <4>1, <5>1
        <5>2. CASE u # w
          BY <1>6, <4>1, <4>2, <5>2 DEF SigNumbers
        <5> QED
          BY <5>1, <5>2
      <4> QED
        BY <1>2, <1>3, <4>1, <4>2 DEF SigNumbers
    <3> QED
      BY <3>1, <3>2
  <2> QED
    BY <1>2, <1>4, <2>1, <2>2, <2>3, <2>4, <1>3 DEF SigNumbers
<1>11. SigDays'
  <2>1. PreviousDay' = PreviousDay
    BY <1>2 DEF PreviousDay
  <2>2. \A v \in Writers : wr'[v].pc \in {"append", "copy"} => v # w /\ wr'[v] = wr[v]
    BY <1>6
  <2> QED
    BY <1>2, <2>1, <2>2 DEF SigDays, MustRotate
<1>12. Base' = Base /\ OnDisk' = OnDisk
  <2>1. Halfway' <=> Halfway
    BY <1>2, <1>6 DEF Halfway
  <2> QED
    BY <1>2, <2>1 DEF Base, BaseOf, OnDisk
<1>13. SigCounted'
  BY <1>2, <1>12 DEF SigCounted
<1>14. SigOrdered'
  BY <1>2, <1>12 DEF SigOrdered, InFiles, Topped, DaysRise, Young
<1>15. OnlyOldGone'
  BY <1>2, <1>12 DEF OnlyOldGone
<1>16. SigQuery'
  BY <1>2, QueryStays
<1> QED
  BY <1>2, <1>9, <1>10, <1>11, <1>13, <1>14, <1>15, <1>16 DEF SigInv

\* A writer goes on.
LEMMA Proceeds ==
    ASSUME SigInv, NEW w \in Writers, NEW to \in Pcs, Proceed(w, to)
    PROVE  /\ wr' \in [Writers -> [pc : Pcs, rec : Record]]
           /\ wr'[w].pc = to /\ wr'[w].rec = wr[w].rec
           /\ \A v \in Writers \ {w} : wr'[v] = wr[v]
<1>1. wr \in [Writers -> [pc : Pcs, rec : Record]] /\ wr' = [wr EXCEPT ![w].pc = to]
  BY StateFacts DEF Proceed
<1> QED
  BY <1>1

\* A writer is done.
LEMMA Unlocks ==
    ASSUME SigInv, NEW w \in Writers, Unlock(w)
    PROVE  /\ wr' \in [Writers -> [pc : Pcs, rec : Record]]
           /\ wr'[w].pc = "idle" /\ wr'[w].rec.n = 0
           /\ \A v \in Writers \ {w} : wr'[v] = wr[v]
           /\ lock' = Nobody
<1>1. /\ wr \in [Writers -> [pc : Pcs, rec : Record]] /\ lock' = Nobody
      /\ wr' = [wr EXCEPT ![w] = [pc |-> "idle", rec |-> NoRecord]]
  BY StateFacts DEF Unlock
<1>2. NoRecord \in Record /\ NoRecord.n = 0 /\ "idle" \in Pcs
  BY SignalsAssumption DEF NoRecord, Record, Pcs
<1> QED
  BY <1>1, <1>2

\* Records and numbers that are no longer there.
LEMMA FewerNumbers ==
    ASSUME SigInv, stamped' = stamped, nextID' \in 0 .. stamped, OnDisk' \subseteq OnDisk,
           \A v \in Writers : wr'[v].rec.n <= nextID',
           \A v \in Writers : wr'[v].pc \in Holding => wr[v].pc \in Holding /\ wr'[v].rec = wr[v].rec
    PROVE  SigNumbers'
<1>1. stamped \in Nat /\ nextID' <= stamped'
  BY StateFacts DEF SignalsTypeOK
<1>2. \A r \in OnDisk' : r \in OnDisk /\ r.tag <= stamped'
  BY StateFacts DEF SigNumbers
<1>3. ASSUME NEW v \in Writers, wr'[v].pc \in Holding
      PROVE  /\ wr'[v].rec.tag <= stamped'
             /\ \A r \in OnDisk' : r.tag # wr'[v].rec.tag
             /\ \A u \in Writers \ {v} : wr'[u].pc \in Holding => wr'[u].rec.tag # wr'[v].rec.tag
  BY <1>2, <1>3, StateFacts DEF SigNumbers
<1> QED
  BY <1>1, <1>2, <1>3 DEF SigNumbers

\* After a start the active file is of the day of its youngest record.
LEMMA PreviousDayFacts ==
    ASSUME SigInv
    PROVE  /\ PreviousDay \in 0 .. Unknown
           /\ activeDay # Unknown => PreviousDay = activeDay
           /\ files[Active] = <<>> => PreviousDay = activeDay
           /\ activeDay = Unknown /\ files[Active] # <<>> =>
                /\ \A r \in Range(files[Active]) : Day(r.ts) <= PreviousDay
                /\ \E r \in Range(files[Active]) : Day(r.ts) = PreviousDay
<1> USE StateFacts
<1>1. CASE activeDay # Unknown \/ files[Active] = <<>>
  BY <1>1 DEF PreviousDay
<1>2. CASE activeDay = Unknown /\ files[Active] # <<>>
  <2> DEFINE s == files[Active]
             q == Sorted(s, DOMAIN s)
             z == q[Len(s)]
  <2>1. s \in Seq(Record) /\ Stamps(Record) /\ s # <<>>
    BY <1>2, FileFacts, RecordFacts
  <2>2. PreviousDay = Day(z.ts)
    BY <1>2 DEF PreviousDay
  <2> HIDE DEF s
  <2>3. Len(s) \in Nat \ {0} /\ DOMAIN s = 1 .. Len(s)
    BY <2>1
  <2>4. Cardinality(DOMAIN s) = Len(s)
    <3>1. Cardinality(1 .. Len(s)) = IF 1 > Len(s) THEN 0 ELSE Len(s) - 1 + 1
      BY <2>3, FS_Interval
    <3>2. Cardinality(1 .. Len(s)) = Len(s)
      BY <2>3, <3>1
    <3> QED
      BY <2>3, <3>2, Zenon
  <2>5. /\ q \in Seq(Record) /\ Len(q) = Cardinality(DOMAIN s)
        /\ Range(q) = {s[i] : i \in DOMAIN s}
        /\ \A k, l \in DOMAIN q : k <= l => ~Older(q[l], q[k])
    BY <2>1, SortedFacts
  <2>6. Range(s) = {s[i] : i \in DOMAIN s}
    BY DEF Range
  <2> HIDE DEF q
  <2>7. DOMAIN q = 1 .. Len(s) /\ Len(s) \in DOMAIN q
    BY <2>3, <2>4, <2>5
  <2>8. z \in Range(s) /\ z \in Record
    <3>1. z \in Range(q)
      BY <2>7 DEF Range
    <3>2. z \in Record
      BY <2>5, <2>7
    <3> QED
      BY <2>5, <2>6, <3>1, <3>2
  <2>9. ASSUME NEW r \in Range(s) PROVE Day(r.ts) <= Day(z.ts)
    <3>1. PICK k \in DOMAIN q : r = q[k]
      <4>1. r \in Range(q)
        BY <2>5, <2>6
      <4> QED
        BY <4>1 DEF Range
    <3>2. ~Older(z, r)
      BY <2>3, <2>5, <2>7, <3>1
    <3>3. r.ts \in Nat /\ z.ts \in Nat
      BY <2>5, <2>8, <3>1, RecordFacts
    <3> HIDE DEF z
    <3>4. r.ts <= z.ts
      BY <3>2, <3>3 DEF Older
    <3> QED
      BY <3>3, <3>4, DayFacts
  <2>10. Day(z.ts) \in 0 .. LastDay
    BY <2>8, RecordFacts, DayFacts
  <2> HIDE DEF z
  <2> QED
    BY <1>2, <2>2, <2>8, <2>9, <2>10, FileFacts DEF s
<1> QED
  BY <1>1, <1>2

\* BeginAppend decides on the rotation and changes no file.
LEMMA BeginAppendKeeps ==
    ASSUME SigInv, NEW w \in Writers, BeginAppend(w)
    PROVE  SigInv'
<1> USE StateFacts
<1> DEFINE e == wr[w].rec
           day == Day(e.ts)
           any == files[Active] # <<>> \/ Active \in ragged
           to == IF MustRotate(day) THEN (IF any THEN "copy" ELSE "remove") ELSE "append"
<1>1. /\ lock = Nobody /\ lock' = w /\ wr[w].pc = "stamped"
      /\ UNCHANGED <<clock, files, counted, nextID, ragged, query, mishaps, stamped,
                     written, late, doubled, torn, stale, missed>>
  BY DEF BeginAppend
<1>2. /\ MustRotate(day) => Proceed(w, IF any THEN "copy" ELSE "remove") /\ activeDay' = activeDay
      /\ ~MustRotate(day) => /\ Proceed(w, "append")
                             /\ activeDay' = IF PreviousDay \in {Unknown, day} THEN day ELSE activeDay
  BY DEF BeginAppend
<1>3. Proceed(w, to) /\ to \in Pcs /\ to \in {"remove", "copy", "append"}
  BY <1>2 DEF Pcs
<1>4. day \in 0 .. LastDay /\ PreviousDay \in 0 .. Unknown /\ LastDay \in Nat /\ Unknown = LastDay + 1
  BY RecordFacts, DayFacts, FileFacts, PreviousDayFacts
<1>5. /\ wr' \in [Writers -> [pc : Pcs, rec : Record]] /\ wr'[w].pc = to /\ wr'[w].rec = e
      /\ \A v \in Writers \ {w} : wr'[v] = wr[v]
  <2> HIDE DEF to
  <2> QED
    BY <1>3, Proceeds
<1>6. /\ to = "append" <=> ~MustRotate(day)
      /\ to = "copy" => MustRotate(day)
      /\ to = "remove" => files[Active] = <<>>
  OBVIOUS
<1> HIDE DEF to, day, e
<1>7. \A v \in Writers \ {w} : wr[v].pc \notin {"copy", "remove", "append", "govern"}
  BY <1>1
<1>8. activeDay' \in 0 .. Unknown
  BY <1>2, <1>4
<1>9. OnDisk' = OnDisk
  BY <1>1 DEF OnDisk
<1>10. SigTypes'
  <2>1. \A v \in Writers : wr'[v].pc \in {"copy", "remove", "append", "govern"} <=> lock' = v
    BY <1>1, <1>3, <1>5, <1>7
  <2> QED
    BY <1>1, <1>5, <1>8, <1>9, <2>1 DEF SigTypes, SignalsTypeOK
<1>11. SigNumbers'
  <2>1. \A v \in Writers : wr'[v].rec.n <= nextID'
    BY <1>1, <1>5 DEF SigNumbers, e
  <2>2. \A v \in Writers : wr'[v].pc \in Holding => wr[v].pc \in Holding /\ wr'[v].rec = wr[v].rec
    BY <1>1, <1>5 DEF Holding, e
  <2>3. nextID' \in 0 .. stamped
    BY <1>1 DEF SigNumbers, SignalsTypeOK
  <2> QED
    BY <1>1, <1>9, <2>1, <2>2, <2>3, FewerNumbers
<1>12. Base = files /\ Base' = files
  <2>1. Base = files /\ ~Halfway
    BY <1>1, NotHalfway
  <2>2. CASE to = "remove"
    <3>1. files[Active] = <<>> /\ Halfway' \in BOOLEAN
      BY <1>6, <2>2 DEF Halfway
    <3>2. \A h \in BOOLEAN : BaseOf(files, h) = files
      BY <3>1, BaseFacts
    <3> QED
      BY <1>1, <2>1, <3>1, <3>2 DEF Base
  <2>3. CASE to # "remove"
    <3>1. ~Halfway'
      BY <1>5, <1>7, <2>3 DEF Halfway
    <3> QED
      BY <1>1, <2>1, <3>1 DEF Base, BaseOf
  <2> QED
    BY <2>2, <2>3
<1>13. SigDays'
  <2>1. CASE to = "append"
    <3>1. ~MustRotate(day) /\ activeDay' = IF PreviousDay \in {Unknown, day} THEN day ELSE activeDay
      BY <1>2, <1>6, <2>1
    <3>2. activeDay' # Unknown => \A r \in Range(files[Active]) : Day(r.ts) <= activeDay'
      <4>1. CASE activeDay' = activeDay
        BY <4>1 DEF SigDays
      <4>2. CASE activeDay' # activeDay
        <5>1. CASE files[Active] = <<>>
          <6>1. Range(files[Active]) = {}
            BY <5>1 DEF Range
          <6> QED
            BY <6>1
        <5>2. CASE files[Active] # <<>> /\ activeDay = Unknown
          <6>1. PICK r \in Range(files[Active]) : Day(r.ts) = PreviousDay
            BY <5>2, PreviousDayFacts
          <6>2. PreviousDay \in 0 .. LastDay
            BY <6>1, FileFacts, StoredFacts, RecordFacts, DayFacts
          <6>3. PreviousDay = day /\ activeDay' = day
            BY <1>4, <3>1, <4>2, <6>2
          <6> QED
            BY <5>2, <6>3, PreviousDayFacts
        <5>3. CASE activeDay # Unknown
          BY <3>1, <4>2, <5>3, PreviousDayFacts
        <5> QED
          BY <5>1, <5>2, <5>3
      <4> QED
        BY <4>1, <4>2
    <3>3. activeDay' = Unknown \/ day <= activeDay'
      <4>1. CASE activeDay' = day
        BY <1>4, <4>1
      <4>2. CASE activeDay' = activeDay /\ activeDay # Unknown
        <5>1. PreviousDay = activeDay /\ ~(activeDay < day)
          BY <3>1, <4>2, PreviousDayFacts DEF MustRotate
        <5> QED
          BY <1>4, <4>2, <5>1
      <4> QED
        BY <3>1, <4>1, <4>2
    <3>4. ~late /\ activeDay' # Unknown /\ files[Active] # <<>> => \E m \in written : Day(m.ts) >= activeDay'
      <4>1. CASE activeDay' = activeDay
        BY <4>1 DEF SigDays
      <4>2. CASE activeDay' # activeDay /\ files[Active] # <<>>
        <5>1. activeDay = Unknown
          BY <1>4, <3>1, <4>2, PreviousDayFacts
        <5>2. PICK r \in Range(files[Active]) : Day(r.ts) = PreviousDay
          BY <4>2, <5>1, PreviousDayFacts
        <5>3. r \in written /\ PreviousDay \in 0 .. LastDay
          BY <5>2, FileFacts, StoredFacts, RecordFacts, DayFacts DEF OnDisk
        <5>4. activeDay' = PreviousDay
          BY <1>4, <3>1, <4>2, <5>3
        <5>5. Day(r.ts) >= activeDay'
          BY <5>2, <5>3, <5>4
        <5> QED
          BY <5>3, <5>5
      <4> QED
        BY <4>1, <4>2
    <3>5. \A v \in Writers : wr'[v].pc = "append" => v = w
      BY <1>5, <1>7
    <3>6. \A v \in Writers : wr'[v].pc # "copy"
      BY <1>5, <1>7, <2>1
    <3> QED
      BY <1>1, <1>5, <3>2, <3>3, <3>4, <3>5, <3>6 DEF SigDays, day
  <2>2. CASE to # "append"
    <3>1. MustRotate(day) /\ activeDay' = activeDay
      BY <1>2, <1>6, <2>2
    <3>2. MustRotate(day)'
      BY <1>1, <1>5, <3>1 DEF MustRotate, PreviousDay, day, e
    <3>3. \A v \in Writers : wr'[v].pc # "append" /\ wr[v].pc # "append"
      BY <1>1, <1>5, <1>7, <2>2
    <3>4. \A v \in Writers : wr'[v].pc = "copy" => v = w
      BY <1>5, <1>7
    <3> QED
      BY <1>1, <1>5, <3>1, <3>2, <3>3, <3>4 DEF SigDays, day, e
  <2> QED
    BY <2>1, <2>2
<1>14. SigCounted'
  BY <1>1, <1>9, <1>12 DEF SigCounted
<1>15. SigOrdered'
  BY <1>1, <1>9, <1>12 DEF SigOrdered, InFiles, Topped, DaysRise, Young
<1>16. OnlyOldGone'
  BY <1>1, <1>9 DEF OnlyOldGone
<1>17. SigQuery'
  BY <1>1, QueryStays
<1> QED
  BY <1>1, <1>10, <1>11, <1>13, <1>14, <1>15, <1>16, <1>17 DEF SigInv

\* A part of a sequence.
LEMMA Sliced ==
    ASSUME NEW s \in Seq(Record), NEW l \in Nat \ {0}, NEW m \in Nat, m <= Len(s)
    PROVE  /\ SubSeq(s, l, m) \in Seq(Record) /\ Range(SubSeq(s, l, m)) \subseteq Range(s)
           /\ DOMAIN SubSeq(s, l, m) = 1 .. (m - l + 1)
           /\ \A i \in DOMAIN SubSeq(s, l, m) : i + l - 1 \in DOMAIN s /\ SubSeq(s, l, m)[i] = s[i + l - 1]
           /\ IsInjective(s) => IsInjective(SubSeq(s, l, m))
<1> DEFINE t == SubSeq(s, l, m)
<1>1. Len(s) \in Nat /\ DOMAIN s = 1 .. Len(s)
  OBVIOUS
<1>2. /\ t \in Seq(Record) /\ DOMAIN t = 1 .. (m - l + 1)
      /\ \A i \in DOMAIN t : i + l - 1 \in DOMAIN s /\ t[i] = s[i + l - 1]
  BY <1>1
<1> HIDE DEF t
<1>3. ASSUME NEW x \in Range(t) PROVE x \in Range(s)
  <2>1. PICK i \in DOMAIN t : x = t[i]
    BY DEF Range
  <2> QED
    BY <1>2, <2>1 DEF Range
<1>4. ASSUME IsInjective(s) PROVE IsInjective(t)
  <2> SUFFICES ASSUME NEW i \in DOMAIN t, NEW j \in DOMAIN t, t[i] = t[j] PROVE i = j
    BY DEF IsInjective
  <2>1. i + l - 1 = j + l - 1 /\ i \in Int /\ j \in Int
    BY <1>2, <1>4 DEF IsInjective
  <2> QED
    BY <2>1
<1> QED
  BY <1>2, <1>3, <1>4 DEF t

\* A sequence and another one after it.
LEMMA Joined ==
    ASSUME NEW b \in Seq(Record), NEW c \in Seq(Record)
    PROVE  /\ b \o c \in Seq(Record) /\ Range(b \o c) = Range(b) \cup Range(c)
           /\ Len(b) \in Nat /\ Len(c) \in Nat /\ DOMAIN b = 1 .. Len(b) /\ DOMAIN c = 1 .. Len(c)
           /\ DOMAIN (b \o c) = 1 .. Len(b) + Len(c)
           /\ \A i \in DOMAIN b : (b \o c)[i] = b[i]
           /\ \A i \in DOMAIN c : (b \o c)[Len(b) + i] = c[i]
           /\ \A i \in DOMAIN (b \o c) : i \in DOMAIN b \/ (i - Len(b) \in DOMAIN c /\ i = Len(b) + (i - Len(b)))
<1> DEFINE d == b \o c
<1>1. /\ d \in Seq(Record)
      /\ Len(b) \in Nat /\ Len(c) \in Nat /\ DOMAIN b = 1 .. Len(b) /\ DOMAIN c = 1 .. Len(c)
      /\ DOMAIN d = 1 .. Len(b) + Len(c)
      /\ \A i \in DOMAIN b : d[i] = b[i] /\ i \in DOMAIN d
      /\ \A i \in DOMAIN c : d[Len(b) + i] = c[i] /\ Len(b) + i \in DOMAIN d
  OBVIOUS
<1> HIDE DEF d
<1>2. \A i \in DOMAIN d : i \in DOMAIN b \/ (i - Len(b) \in DOMAIN c /\ i = Len(b) + (i - Len(b)))
  BY <1>1
<1>3. ASSUME NEW x \in Range(d) PROVE x \in Range(b) \cup Range(c)
  <2>1. PICK i \in DOMAIN d : x = d[i]
    BY DEF Range
  <2>2. CASE i \in DOMAIN b
    BY <1>1, <2>1, <2>2 DEF Range
  <2>3. CASE i - Len(b) \in DOMAIN c /\ i = Len(b) + (i - Len(b))
    <3>1. x = c[i - Len(b)]
      BY <1>1, <2>1, <2>3
    <3> QED
      BY <2>3, <3>1 DEF Range
  <2> QED
    BY <1>2, <2>2, <2>3
<1>4. ASSUME NEW x \in Range(b) PROVE x \in Range(d)
  <2>1. PICK i \in DOMAIN b : x = b[i]
    BY DEF Range
  <2>2. d[i] = x /\ i \in DOMAIN d
    BY <1>1, <2>1
  <2> QED
    BY <2>2 DEF Range
<1>5. ASSUME NEW x \in Range(c) PROVE x \in Range(d)
  <2>1. PICK i \in DOMAIN c : x = c[i]
    BY DEF Range
  <2>2. d[Len(b) + i] = x /\ Len(b) + i \in DOMAIN d
    BY <1>1, <2>1
  <2> QED
    BY <2>2 DEF Range
<1>6. Range(d) = Range(b) \cup Range(c)
  BY <1>3, <1>4, <1>5
<1> QED
  BY <1>1, <1>2, <1>6 DEF d

\* A sequence is empty if nothing is in it.
LEMMA EmptyRange ==
    ASSUME NEW S, NEW s \in Seq(S)
    PROVE  s = <<>> <=> Range(s) = {}
BY DEF Range

\* What a rotation adds to the file of a day is of that day or an earlier one.
LEMMA Copied ==
    ASSUME SigInv, NEW w \in Writers, wr[w].pc = "copy", NEW c \in Seq(Record), Range(c) \subseteq Range(files[Active]),
           files' = [files EXCEPT ![PreviousDay] = @ \o c]
    PROVE  /\ PreviousDay \in 0 .. LastDay /\ PreviousDay \in Files /\ PreviousDay # Active
           /\ FilesOK(files') /\ files'[PreviousDay] = files[PreviousDay] \o c
           /\ \A f \in Files \ {PreviousDay} : files'[f] = files[f]
           /\ OnDisk' = OnDisk
           /\ \A r \in Range(files[Active]) : Day(r.ts) <= PreviousDay
           /\ \A f \in 0 .. LastDay : \A r \in Range(files'[f]) : Day(r.ts) <= f
           /\ ~late => \A f \in 0 .. LastDay : files'[f] # <<>> => \E m \in written : Day(m.ts) >= f
<1> USE StateFacts
<1> DEFINE d == PreviousDay
           a == files[Active]
           b == files[d]
<1>1. d \in 0 .. LastDay /\ d \in Files /\ d # Active /\ Active \in Files
  <2>1. d # Unknown /\ d \in 0 .. Unknown
    BY PreviousDayFacts DEF SigDays, MustRotate
  <2>2. d \in 0 .. LastDay
    <3> HIDE DEF d
    <3> QED
      BY <2>1, FileFacts
  <2> HIDE DEF d
  <2> QED
    BY <2>2, FileFacts
<1>2. a \in Seq(Record) /\ b \in Seq(Record)
  <2> HIDE DEF d
  <2> QED
    BY <1>1
<1>3. \A r \in Range(a) : Day(r.ts) <= d
  <2>1. CASE a = <<>>
    BY <2>1 DEF Range
  <2>2. CASE activeDay # Unknown
    <3>1. d = activeDay
      BY <2>2, PreviousDayFacts
    <3> QED
      BY <2>2, <3>1 DEF SigDays
  <2>3. CASE activeDay = Unknown /\ a # <<>>
    BY <2>3, PreviousDayFacts
  <2> QED
    BY <2>1, <2>2, <2>3
<1>4. ~late /\ (a # <<>> \/ b # <<>>) => \E m \in written : Day(m.ts) >= d
  <2>1. CASE b # <<>>
    BY <1>1, <2>1 DEF SigDays
  <2>2. CASE a # <<>> /\ activeDay = Unknown
    <3>1. PICK r \in Range(a) : Day(r.ts) = d
      BY <2>2, PreviousDayFacts
    <3>2. r \in written
      BY <1>1, StoredFacts DEF OnDisk
    <3>3. Day(r.ts) >= d
      BY <1>1, <3>1
    <3> QED
      BY <3>2, <3>3
  <2>3. CASE a # <<>> /\ activeDay # Unknown
    <3>1. d = activeDay
      BY <2>3, PreviousDayFacts
    <3> QED
      BY <2>3, <3>1 DEF SigDays
  <2> QED
    BY <2>1, <2>2, <2>3
<1>5. files' = [files EXCEPT ![d] = b \o c]
  OBVIOUS
<1> HIDE DEF d, a, b
<1>6. b \o c \in Seq(Record) /\ Range(b \o c) = Range(b) \cup Range(c)
  BY <1>2, Joined
<1>7. files' \in [Files -> Seq(Record)] /\ files'[d] = b \o c /\ \A f \in Files \ {d} : files'[f] = files[f]
  BY <1>1, <1>5, <1>6
<1>8. OnDisk' = OnDisk
  <2>1. \A x : x \in OnDisk <=> \E f \in Files : x \in Range(files[f])
    BY DEF OnDisk, Stored
  <2>2. \A x : x \in OnDisk' <=> \E f \in Files : x \in Range(files'[f])
    BY DEF OnDisk, Stored
  <2>3. files[d] = b /\ Range(files'[d]) = Range(b) \cup Range(c)
    BY <1>6, <1>7 DEF b
  <2>4. ASSUME NEW x PROVE x \in OnDisk <=> x \in OnDisk'
    BY <1>1, <1>7, <2>1, <2>2, <2>3
  <2> QED
    BY <2>4
<1>9. ASSUME NEW f \in 0 .. LastDay, NEW r \in Range(files'[f]) PROVE Day(r.ts) <= f
  <2>1. f \in Files
    BY FileFacts
  <2>2. CASE f = d
    <3>1. r \in Range(b) \/ r \in Range(a)
      BY <1>6, <1>7, <1>9, <2>2 DEF a
    <3> QED
      BY <1>3, <2>2, <3>1 DEF b, SigDays
  <2>3. CASE f # d
    BY <1>7, <1>9, <2>1, <2>3 DEF SigDays
  <2> QED
    BY <2>2, <2>3
<1>10. ASSUME ~late, NEW f \in 0 .. LastDay, files'[f] # <<>> PROVE \E m \in written : Day(m.ts) >= f
  <2>1. f \in Files
    BY FileFacts
  <2>2. CASE f = d
    <3>1. b # <<>> \/ c # <<>>
      BY <1>2, <1>7, <1>10, <2>2
    <3>2. c # <<>> => a # <<>>
      <4>1. Range(c) \subseteq Range(a)
        BY DEF a
      <4>2. a = <<>> => Range(a) = {}
        BY DEF Range
      <4>3. Range(c) = {} => c = <<>>
        BY EmptyRange
      <4> QED
        BY <4>1, <4>2, <4>3
    <3> QED
      BY <1>4, <1>10, <2>2, <3>1, <3>2
  <2>3. CASE f # d
    BY <1>7, <1>10, <2>1, <2>3 DEF SigDays
  <2> QED
    BY <2>2, <2>3
<1> QED
  BY <1>1, <1>3, <1>7, <1>8, <1>9, <1>10 DEF d, a, b, FilesOK

\* What arrives is from the active file.
LEMMA Arrived ==
    ASSUME SigInv, NEW f \in Files
    PROVE  /\ files[Active] \in Seq(Record) /\ Arriving(f) \in Seq(Record)
           /\ Range(Arriving(f)) \subseteq Range(files[Active])
           /\ f \notin ragged => Arriving(f) = files[Active]
           /\ f \in ragged => torn /\ Arriving(f) = SubSeq(files[Active], 2, Len(files[Active]))
<1> USE StateFacts
<1>1. files[Active] \in Seq(Record)
  BY FileFacts
<1>2. PICK a \in Seq(Record) : a = files[Active]
  BY <1>1
<1>3. Len(a) \in Nat /\ 2 \in Nat \ {0} /\ Len(a) <= Len(a)
  OBVIOUS
<1>4. SubSeq(a, 2, Len(a)) \in Seq(Record) /\ Range(SubSeq(a, 2, Len(a))) \subseteq Range(a)
  BY <1>3, Sliced
<1> QED
  BY <1>2, <1>4 DEF Arriving

\* CopyActive moves the active file's records to the day they are of or a later one;
\* the first is lost if the file of that day ends in a part of a line.
LEMMA CopyActiveKeeps ==
    ASSUME SigInv, NEW w \in Writers, CopyActive(w)
    PROVE  SigInv'
<1> USE StateFacts
<1> DEFINE d == PreviousDay
           a == files[Active]
           b == files[d]
           c == Arriving(d)
<1>1. /\ wr[w].pc = "copy" /\ files' = [files EXCEPT ![PreviousDay] = @ \o c] /\ Proceed(w, "remove")
      /\ ragged' = IF Active \in ragged THEN ragged \cup {d} ELSE ragged \ {d}
      /\ stale' = (stale \/ d \in ragged) /\ StopFollowing
      /\ UNCHANGED <<clock, activeDay, counted, lock, nextID, mishaps, stamped, written, late, doubled, torn, missed>>
  BY DEF CopyActive
<1>2. lock = w /\ \A v \in Writers \ {w} : wr[v].pc \notin {"copy", "remove", "append", "govern"}
  BY <1>1
<1>3. d \in 0 .. LastDay /\ d \in Files /\ d # Active /\ Active \in Files
  <2>1. d # Unknown /\ d \in 0 .. Unknown
    BY <1>1, PreviousDayFacts DEF SigDays, MustRotate
  <2>2. d \in 0 .. LastDay
    <3> HIDE DEF d
    <3> QED
      BY <2>1, FileFacts
  <2> HIDE DEF d
  <2> QED
    BY <2>2, FileFacts
<1>4. /\ a \in Seq(Record) /\ c \in Seq(Record) /\ Range(c) \subseteq Range(a) /\ b \in Seq(Record)
      /\ d \notin ragged => c = a
      /\ d \in ragged => torn /\ c = SubSeq(a, 2, Len(a))
  <2>1. b \in Seq(Record)
    <3> HIDE DEF d
    <3> QED
      BY <1>3
  <2> QED
    BY <1>3, <2>1, Arrived
<1>5. /\ wr' \in [Writers -> [pc : Pcs, rec : Record]] /\ wr'[w].pc = "remove" /\ wr'[w].rec = wr[w].rec
      /\ \A v \in Writers \ {w} : wr'[v] = wr[v]
  <2>1. "remove" \in Pcs
    BY DEF Pcs
  <2> QED
    BY <1>1, <2>1, Proceeds
<1> HIDE DEF c
<1>6. /\ FilesOK(files') /\ files'[d] = b \o c /\ \A f \in Files \ {d} : files'[f] = files[f]
      /\ OnDisk' = OnDisk
      /\ \A r \in Range(a) : Day(r.ts) <= d
      /\ \A f \in 0 .. LastDay : \A r \in Range(files'[f]) : Day(r.ts) <= f
      /\ ~late => \A f \in 0 .. LastDay : files'[f] # <<>> => \E m \in written : Day(m.ts) >= f
  BY <1>1, <1>4, Copied
<1>7. Base = files /\ ~Halfway /\ Halfway'
  BY <1>1, <1>2, <1>5, NotHalfway DEF Halfway
<1> HIDE DEF d, a, b
<1>8. FilesOK(Base') /\ Base' = BaseOf(files', TRUE)
  <2>1. Base' = BaseOf(files', TRUE)
    BY <1>7 DEF Base, BaseOf
  <2> QED
    BY <1>6, <2>1, BaseFacts
<1>9. Base'[d] = b \o c /\ Base'[Active] = <<>> /\ \A f \in Files \ {d, Active} : Base'[f] = files[f]
  <2>1. \A f \in 0 .. LastDay : BaseOf(files', TRUE)[f] = files'[f]
    BY <1>6, BaseFacts
  <2>2. BaseOf(files', TRUE)[Active] = <<>>
    BY <1>6, BaseFacts
  <2> QED
    BY <1>3, <1>6, <1>8, <2>1, <2>2, FileFacts
<1>10. PICK fs : fs = [f \in Files |-> IF f = d THEN b \o a ELSE IF f = Active THEN <<>> ELSE files[f]]
  OBVIOUS
<1>11. FilesOK(fs) /\ fs[d] = b \o a /\ fs[Active] = <<>> /\ \A f \in Files \ {d, Active} : fs[f] = files[f]
  <2>1. b \o a \in Seq(Record) /\ <<>> \in Seq(Record)
    BY <1>4
  <2> QED
    BY <1>3, <1>10, <2>1 DEF FilesOK
<1>12. /\ Total(fs) = Total(files) /\ Stored(fs) = OnDisk
       /\ Apart(files) => Apart(fs)
       /\ Range(fs[d]) = Range(b) \cup Range(a)
  <2>1. files[Active] = a /\ files[d] = b
    BY DEF a, b
  <2>2. RotatedTo(files, d, fs)
    BY <1>11, <2>1 DEF RotatedTo
  <2>3. /\ Total(fs) = Total(files) /\ Stored(fs) = Stored(files)
        /\ Apart(files) => Apart(fs)
        /\ Range(fs[d]) = Range(files[d]) \cup Range(files[Active])
    BY <1>3, <1>11, <2>2, Rotated
  <2> QED
    BY <2>1, <2>3 DEF OnDisk
<1>13. d \notin ragged => Base' = fs
  <2> SUFFICES ASSUME d \notin ragged PROVE Base' = fs
    OBVIOUS
  <2>1. PICK gs : gs = Base'
    OBVIOUS
  <2>2. \A f \in Files : gs[f] = fs[f]
    BY <1>4, <1>9, <1>11, <2>1
  <2>3. gs \in [Files -> Seq(Record)] /\ fs \in [Files -> Seq(Record)]
    BY <1>8, <1>11, <2>1 DEF FilesOK
  <2> QED
    BY <2>1, <2>2, <2>3
<1>14. Range(Base'[d]) = Range(b) \cup Range(c)
  BY <1>4, <1>9, Joined
<1>15. ASSUME Apart(files) PROVE Apart(Base')
  <2>1. CASE d \notin ragged
    BY <1>12, <1>13, <1>15, <2>1
  <2>2. CASE d \in ragged
    <3>1. \A f \in Files : IsInjective(fs[f])
      BY <1>11, <1>12, <1>15, ApartFiles
    <3>2. IsInjective(b \o a)
      BY <1>3, <1>11, <3>1
    <3>3. Len(a) \in Nat /\ c = SubSeq(a, 2, Len(a)) /\ 2 \in Nat \ {0}
      BY <1>4, <2>2
    <3>4. /\ DOMAIN c = 1 .. Len(a) - 1
          /\ \A i \in DOMAIN c : i + 1 \in DOMAIN a /\ c[i] = a[i + 1]
      <4>1. /\ DOMAIN SubSeq(a, 2, Len(a)) = 1 .. (Len(a) - 2 + 1)
            /\ \A i \in DOMAIN SubSeq(a, 2, Len(a)) : i + 2 - 1 \in DOMAIN a /\ SubSeq(a, 2, Len(a))[i] = a[i + 2 - 1]
        BY <1>4, <3>3, Sliced
      <4>2. Len(a) - 2 + 1 = Len(a) - 1 /\ \A i \in Int : i + 2 - 1 = i + 1
        BY <3>3
      <4>3. DOMAIN c \subseteq Int
        BY <1>4
      <4> QED
        BY <3>3, <4>1, <4>2, <4>3
    <3>5. IsInjective(b \o c)
      <4> SUFFICES ASSUME NEW i \in DOMAIN (b \o c), NEW j \in DOMAIN (b \o c), (b \o c)[i] = (b \o c)[j] PROVE i = j
        BY DEF IsInjective
      <4> DEFINE skip(n) == IF n \in DOMAIN b THEN n ELSE n + 1
      <4>1. ASSUME NEW n \in DOMAIN (b \o c)
            PROVE  skip(n) \in DOMAIN (b \o a) /\ (b \o c)[n] = (b \o a)[skip(n)] /\ n \in Int
        <5>1. /\ Len(b) \in Nat /\ DOMAIN b = 1 .. Len(b) /\ DOMAIN (b \o a) = 1 .. Len(b) + Len(a)
              /\ \A k \in DOMAIN b : (b \o a)[k] = b[k]
              /\ \A k \in DOMAIN a : (b \o a)[Len(b) + k] = a[k]
          BY <1>4, Joined
        <5>2. /\ \A k \in DOMAIN b : (b \o c)[k] = b[k]
              /\ \A k \in DOMAIN c : (b \o c)[Len(b) + k] = c[k]
              /\ n \in DOMAIN b \/ (n - Len(b) \in DOMAIN c /\ n = Len(b) + (n - Len(b)))
              /\ n \in Int
          BY <1>4, Joined
        <5>3. CASE n \in DOMAIN b
          BY <3>3, <5>1, <5>2, <5>3
        <5>4. CASE n \notin DOMAIN b
          <6>1. n - Len(b) \in DOMAIN c /\ n = Len(b) + (n - Len(b))
            BY <5>2, <5>4
          <6>2. (b \o c)[n] = c[n - Len(b)] /\ c[n - Len(b)] = a[n - Len(b) + 1] /\ n - Len(b) + 1 \in DOMAIN a
            BY <3>4, <5>2, <6>1
          <6>3. Len(b) + (n - Len(b) + 1) = n + 1
            BY <5>1, <5>2
          <6>4. (b \o a)[n + 1] = a[n - Len(b) + 1]
            BY <5>1, <6>2, <6>3
          <6>5. n + 1 \in DOMAIN (b \o a)
            <7>1. DOMAIN a = 1 .. Len(a)
              BY <1>4
            <7> QED
              BY <3>3, <5>1, <5>2, <6>2, <7>1
          <6> QED
            BY <5>2, <5>4, <6>2, <6>4, <6>5
        <5> QED
          BY <5>3, <5>4
      <4>2. skip(i) = skip(j)
        <5> HIDE DEF skip
        <5> QED
          BY <3>2, <4>1 DEF IsInjective
      <4>3. Len(b) \in Nat /\ DOMAIN b = 1 .. Len(b) /\ i \in Int /\ j \in Int /\ i > 0 /\ j > 0
        BY <1>4, Joined
      <4> QED
        BY <4>2, <4>3
    <3>6. ASSUME NEW f \in Files PROVE IsInjective(Base'[f]) /\ Range(Base'[f]) \subseteq Range(fs[f])
      <4>1. CASE f = d
        BY <1>4, <1>9, <1>12, <1>14, <3>5, <4>1
      <4>2. CASE f = Active
        BY <1>9, <1>11, <3>1, <4>2
      <4>3. CASE f \notin {d, Active}
        BY <1>9, <1>11, <3>1, <4>3
      <4> QED
        BY <4>1, <4>2, <4>3
    <3>7. PICK gs : gs = Base'
      OBVIOUS
    <3>8. Apart(gs)
      BY <1>8, <1>11, <1>12, <1>15, <3>6, <3>7, Thinned
    <3> QED
      BY <3>7, <3>8
  <2> QED
    BY <2>1, <2>2
<1>16. SigTypes'
  <2>1. \A v \in Writers : wr'[v].pc \in {"copy", "remove", "append", "govern"} <=> lock' = v
    BY <1>1, <1>2, <1>5
  <2>2. ragged' \subseteq Files /\ (ragged' # {} => torn')
    BY <1>1, <1>3
  <2>3. query' \in Queries
    BY <1>1, QueryStays DEF StopFollowing
  <2>4. stale' \in BOOLEAN
    BY <1>1 DEF SignalsTypeOK
  <2> QED
    BY <1>1, <1>5, <1>6, <2>1, <2>2, <2>3, <2>4 DEF SigTypes, SignalsTypeOK, FilesOK, Queries
<1>17. SigNumbers'
  <2>1. \A v \in Writers : wr'[v].rec.n <= nextID'
    BY <1>1, <1>5 DEF SigNumbers
  <2>2. \A v \in Writers : wr'[v].pc \in Holding => wr[v].pc \in Holding /\ wr'[v].rec = wr[v].rec
    BY <1>1, <1>5 DEF Holding
  <2>3. nextID' \in 0 .. stamped
    BY <1>1 DEF SigNumbers, SignalsTypeOK
  <2> QED
    BY <1>1, <1>6, <2>1, <2>2, <2>3, FewerNumbers
<1>18. SigDays'
  <2>1. files'[Active] = files[Active]
    BY <1>3, <1>6
  <2>2. \A v \in Writers : wr'[v].pc \notin {"append", "copy"}
    BY <1>1, <1>2, <1>5
  <2> QED
    BY <1>1, <1>6, <2>1, <2>2 DEF SigDays
<1>19. SigCounted'
  <2>1. ASSUME ~stale' PROVE counted' = Total(Base')
    <3>1. ~stale /\ d \notin ragged
      BY <1>1, <2>1
    <3> QED
      BY <1>1, <1>7, <1>12, <1>13, <3>1 DEF SigCounted
  <2>2. ASSUME ~doubled' PROVE Apart(Base')
    BY <1>1, <1>7, <1>15, <2>2 DEF SigCounted
  <2>3. ASSUME ~torn' PROVE OnDisk' = Stored(Base')
    BY <1>1, <1>4, <1>6, <1>12, <1>13, <2>3
  <2> QED
    BY <2>1, <2>2, <2>3 DEF SigCounted
<1>20. SigOrdered'
  <2>1. ASSUME ~torn, InFiles(files), Topped, DaysRise(files) PROVE InFiles(Base)' /\ Topped' /\ DaysRise(Base)'
    <3>1. Range(Base'[Active]) = {} /\ files[Active] = a /\ files[d] = b /\ c = a
      BY <1>4, <1>9, <2>1 DEF a, b, Range
    <3>2. DaysRise(Base)'
      BY <3>1 DEF DaysRise
    <3>3. Topped'
      BY <1>1, <1>6, <2>1 DEF Topped, Young
    <3>4. ASSUME NEW f \in Files, NEW g \in Files, f < g, NEW r \in Range(Base'[f]), NEW s \in Range(Base'[g]),
                 Young(r), Young(s)
          PROVE  ~Older(s, r)
      <4>1. f # Active /\ g # Active /\ f \in 0 .. LastDay /\ g \in 0 .. LastDay
        BY <3>1, <3>4, FileFacts
      <4>2. CASE f = d /\ r \in Range(a)
        <5>1. g # d /\ g > d
          BY <1>3, <3>4, <4>1, <4>2
        <5>2. files[g] # <<>>
          BY <1>9, <4>1, <5>1, <3>4 DEF Range
        <5>3. Day(r.ts) >= g
          BY <2>1, <3>1, <3>4, <4>1, <4>2, <5>2 DEF DaysRise
        <5>4. Day(r.ts) <= d /\ Day(r.ts) \in Nat
          BY <1>3, <1>6, <3>1, <4>2, StoredFacts, RecordFacts, DayFacts
        <5> QED
          BY <1>3, <4>1, <5>1, <5>3, <5>4
      <4>3. CASE g = d /\ s \in Range(a)
        <5>1. f # d /\ r \in Range(files[f]) /\ f < Active
          BY <1>3, <1>9, <3>4, <4>1, <4>3, FileFacts
        <5> QED
          BY <1>3, <2>1, <3>1, <3>4, <4>3, <5>1 DEF InFiles
      <4>4. CASE r \in Range(files[f]) /\ s \in Range(files[g])
        BY <2>1, <3>4, <4>4 DEF InFiles
      <4>5. r \in Range(files[f]) \/ (f = d /\ r \in Range(a))
        BY <1>9, <1>14, <3>1, <3>4, <4>1
      <4>6. s \in Range(files[g]) \/ (g = d /\ s \in Range(a))
        BY <1>9, <1>14, <3>1, <3>4, <4>1
      <4> QED
        BY <4>2, <4>3, <4>4, <4>5, <4>6
    <3>5. InFiles(Base)'
      BY <1>1, <3>4 DEF InFiles, Young
    <3> QED
      BY <3>2, <3>3, <3>5
  <2> QED
    BY <1>1, <1>7, <2>1 DEF SigOrdered
<1>21. OnlyOldGone'
  BY <1>1, <1>6 DEF OnlyOldGone
<1>22. SigQuery'
  BY <1>1, QueryStays DEF StopFollowing
<1> QED
  BY <1>1, <1>16, <1>17, <1>18, <1>19, <1>20, <1>21, <1>22 DEF SigInv

\* RemoveActive ends the rotation.
LEMMA RemoveActiveKeeps ==
    ASSUME SigInv, NEW w \in Writers, RemoveActive(w)
    PROVE  SigInv'
<1> USE StateFacts
<1> DEFINE e == wr[w].rec
<1>1. /\ wr[w].pc = "remove" /\ files' = [files EXCEPT ![Active] = <<>>] /\ ragged' = ragged \ {Active}
      /\ activeDay' = Day(e.ts) /\ StopFollowing /\ Proceed(w, "append")
      /\ UNCHANGED <<clock, counted, lock, nextID, mishaps, stamped, written, late, doubled, torn, stale, missed>>
  BY DEF RemoveActive
<1>2. /\ lock = w /\ \A v \in Writers \ {w} : wr[v].pc \notin {"copy", "remove", "append", "govern"}
      /\ Halfway
  BY <1>1 DEF Halfway
<1>3. nextID' \in 0 .. stamped
  BY <1>1 DEF SigNumbers, SignalsTypeOK
<1>4. /\ wr' \in [Writers -> [pc : Pcs, rec : Record]] /\ wr'[w].pc = "append" /\ wr'[w].rec = e
      /\ \A v \in Writers \ {w} : wr'[v] = wr[v]
  <2>1. "append" \in Pcs
    BY DEF Pcs
  <2> QED
    BY <1>1, <2>1, Proceeds
<1>5. Base = files' /\ Base' = files' /\ OnDisk' = Stored(Base)
  <2>1. ~Halfway'
    BY <1>2, <1>4 DEF Halfway
  <2> QED
    BY <1>1, <1>2, <2>1 DEF Base, BaseOf, OnDisk
<1>6. /\ files' \in [Files -> Seq(Record)] /\ files'[Active] = <<>> /\ Range(files'[Active]) = {}
      /\ \A f \in 0 .. LastDay : files'[f] = files[f]
      /\ \A f \in Files : Range(files'[f]) \subseteq Range(files[f])
  <2>1. FilesOK(Base) /\ Base[Active] = <<>> /\ \A f \in 0 .. LastDay : Base[f] = files[f]
    BY <1>2, BaseFacts DEF Base
  <2>2. \A f \in Files : Range(Base[f]) \subseteq Range(files[f])
    BY BaseFacts DEF Base
  <2>3. Range(<<>>) = {}
    BY DEF Range
  <2> QED
    BY <1>5, <2>1, <2>2, <2>3 DEF FilesOK
<1>7. OnDisk' \subseteq OnDisk
  BY <1>6 DEF OnDisk, Stored
<1>8. Day(e.ts) \in 0 .. LastDay /\ LastDay \in Nat /\ Unknown = LastDay + 1
  BY RecordFacts, DayFacts, FileFacts
<1> HIDE DEF e
<1>9. SigQuery' /\ query' \in Queries
  BY <1>1, QueryStays DEF StopFollowing
<1>10. SigTypes'
  <2>1. \A v \in Writers : wr'[v].pc \in {"copy", "remove", "append", "govern"} <=> lock' = v
    BY <1>1, <1>2, <1>4
  <2>2. activeDay' \in 0 .. Unknown
    BY <1>1, <1>8
  <2>3. ragged' \subseteq Files /\ (ragged' # {} => torn')
    BY <1>1
  <2> QED
    BY <1>1, <1>4, <1>6, <1>7, <1>9, <2>1, <2>2, <2>3 DEF SigTypes, SignalsTypeOK, Queries
<1>11. SigNumbers'
  <2>1. \A v \in Writers : wr'[v].rec.n <= nextID'
    BY <1>1, <1>4 DEF SigNumbers, e
  <2>2. \A v \in Writers : wr'[v].pc \in Holding => wr[v].pc \in Holding /\ wr'[v].rec = wr[v].rec
    BY <1>1, <1>4 DEF Holding, e
  <2> QED
    BY <1>1, <1>3, <1>7, <2>1, <2>2, FewerNumbers
<1>12. SigDays'
  <2>1. \A v \in Writers : wr'[v].pc = "append" => v = w
    BY <1>2, <1>4
  <2>2. \A v \in Writers : wr'[v].pc # "copy"
    BY <1>2, <1>4
  <2>3. \A f \in 0 .. LastDay : \A r \in Range(files'[f]) : Day(r.ts) <= f
    BY <1>6 DEF SigDays
  <2>4. ~late' => \A f \in 0 .. LastDay : files'[f] # <<>> => \E m \in written' : Day(m.ts) >= f
    BY <1>1, <1>6 DEF SigDays
  <2>5. Day(e.ts) <= activeDay'
    BY <1>1, <1>8
  <2> QED
    BY <1>1, <1>4, <1>6, <2>1, <2>2, <2>3, <2>4, <2>5 DEF SigDays
<1>13. SigCounted'
  BY <1>1, <1>5 DEF SigCounted
<1>14. ~doubled /\ ~torn => OnDisk' = OnDisk
  BY <1>5 DEF SigCounted
<1>15. SigOrdered'
  BY <1>1, <1>5, <1>14 DEF SigOrdered, InFiles, Topped, DaysRise, Young
<1>16. OnlyOldGone'
  BY <1>1, <1>14 DEF OnlyOldGone
<1> QED
  BY <1>1, <1>9, <1>10, <1>11, <1>12, <1>13, <1>15, <1>16 DEF SigInv

\* A query does not see a record that is appended.
LEMMA ViewStays ==
    ASSUME FilesOK(files), NEW r \in Record, FilesOK(files'), AppendedTo(files, r, files'), NEW n \in Nat, n <= Len(files[Active])
    PROVE  View(n)' = View(n) /\ n <= Len(files'[Active])
<1>1. PICK a : a = files[Active]
  OBVIOUS
<1>2. a \in Seq(Record) /\ Active \in Files /\ files \in [Files -> Seq(Record)] /\ files' \in [Files -> Seq(Record)]
  BY <1>1, FileFacts DEF FilesOK
<1>3. files'[Active] = Append(a, r) /\ \A f \in Files \ {Active} : files'[f] = files[f]
  BY <1>1 DEF AppendedTo
<1>4. Len(a) \in Nat /\ n <= Len(a) /\ Append(a, r) \in Seq(Record) /\ Len(Append(a, r)) = Len(a) + 1
  BY <1>1, <1>2
<1>5. \A i \in 1 .. n : Append(a, r)[i] = a[i]
  BY <1>2, <1>4
<1>6. SubSeq(Append(a, r), 1, n) = SubSeq(a, 1, n)
  <2>1. /\ SubSeq(a, 1, n) = [i \in 1 .. n |-> a[i]]
        /\ SubSeq(Append(a, r), 1, n) = [i \in 1 .. n |-> Append(a, r)[i]]
    BY <1>2, <1>4
  <2> QED
    BY <1>5, <2>1
<1>7. View(n) = [files EXCEPT ![Active] = SubSeq(a, 1, n)] /\ View(n)' = [files' EXCEPT ![Active] = SubSeq(a, 1, n)]
  BY <1>1, <1>3, <1>6 DEF View
<1>8. PICK c, fs, gs : c = SubSeq(a, 1, n) /\ fs = View(n) /\ gs = View(n)'
  OBVIOUS
<1>9. fs = [files EXCEPT ![Active] = c] /\ gs = [files' EXCEPT ![Active] = c]
  BY <1>7, <1>8
<1>10. fs = gs
  <2>1. \A f \in Files : fs[f] = gs[f]
    BY <1>2, <1>3, <1>9
  <2>2. fs = [f \in Files |-> fs[f]] /\ gs = [f \in Files |-> gs[f]]
    BY <1>2, <1>9
  <2> QED
    BY <2>1, <2>2
<1> QED
  BY <1>3, <1>4, <1>8, <1>10

\* AppendRecord adds a record that was not on disk, unless its line continues a
\* part of one.
LEMMA AppendRecordKeeps ==
    ASSUME SigInv, NEW w \in Writers, AppendRecord(w)
    PROVE  SigInv'
<1> USE StateFacts
<1> DEFINE e == wr[w].rec
<1>1. /\ wr[w].pc = "append"
      /\ files' = IF Active \in ragged THEN files ELSE [files EXCEPT ![Active] = Append(@, e)]
      /\ ragged' = ragged \ {Active} /\ stale' = (stale \/ Active \in ragged)
      /\ counted' = counted + 1
      /\ written' = written \cup {e}
      /\ late' = (late \/ (\E r \in OnDisk : Older(e, r)) \/ (activeDay # Unknown /\ Day(e.ts) < activeDay))
      /\ Unlock(w) \/ (Proceed(w, "govern") /\ lock' = lock)
      /\ UNCHANGED <<clock, activeDay, nextID, query, mishaps, stamped, doubled, torn, missed>>
  BY DEF AppendRecord
<1>2. lock = w /\ \A v \in Writers \ {w} : wr[v].pc \notin {"copy", "remove", "append", "govern"}
  BY <1>1
<1>3. /\ wr' \in [Writers -> [pc : Pcs, rec : Record]] /\ \A v \in Writers \ {w} : wr'[v] = wr[v]
      /\ \/ wr'[w].pc = "idle" /\ wr'[w].rec.n = 0 /\ lock' = Nobody
         \/ wr'[w].pc = "govern" /\ wr'[w].rec = e /\ lock' = w
  <2>1. CASE Unlock(w)
    BY <2>1, Unlocks
  <2>2. CASE Proceed(w, "govern") /\ lock' = lock
    <3>1. "govern" \in Pcs
      BY DEF Pcs
    <3> QED
      BY <1>2, <2>2, <3>1, Proceeds
  <2> QED
    BY <1>1, <2>1, <2>2
<1>4. e \in Record /\ e.ts \in Nat /\ e.tag \in Nat /\ Active \in Files /\ Day(e.ts) \in 0 .. LastDay
  <2>1. e \in Record
    OBVIOUS
  <2>2. e.tag \in Nat
    BY <2>1, SignalsAssumption DEF Record
  <2> QED
    BY <2>1, <2>2, RecordFacts, FileFacts, DayFacts
<1>5. e \notin OnDisk /\ e.tag <= stamped /\ (activeDay # Unknown => Day(e.ts) <= activeDay)
  BY <1>1 DEF SigNumbers, SigDays, Holding
<1> HIDE DEF e
<1>6. /\ FilesOK(files') /\ files' \in [Files -> Seq(Record)]
      /\ IF Active \in ragged THEN files' = files ELSE AppendedTo(files, e, files')
  <2>1. PICK a : a = files[Active]
    OBVIOUS
  <2>2. a \in Seq(Record) /\ Append(a, e) \in Seq(Record)
    BY <1>4, <2>1
  <2>3. CASE Active \in ragged
    BY <1>1, <2>3
  <2>4. CASE Active \notin ragged
    <3>1. files' = [files EXCEPT ![Active] = Append(a, e)]
      BY <1>1, <2>1, <2>4
    <3>2. files' \in [Files -> Seq(Record)] /\ files'[Active] = Append(a, e) /\ \A f \in Files \ {Active} : files'[f] = files[f]
      BY <1>4, <2>2, <3>1
    <3> QED
      BY <2>1, <2>4, <3>2 DEF FilesOK, AppendedTo
  <2> QED
    BY <2>3, <2>4
<1>7. /\ Apart(files) => Apart(files')
      /\ OnDisk \subseteq OnDisk' /\ OnDisk' \subseteq OnDisk \cup {e}
      /\ Range(files'[Active]) \subseteq Range(files[Active]) \cup {e}
      /\ Active \notin ragged => /\ Total(files') = Total(files) + 1 /\ OnDisk' = OnDisk \cup {e}
                                 /\ Range(files'[Active]) = Range(files[Active]) \cup {e}
  <2>1. CASE Active \in ragged
    BY <1>6, <2>1 DEF OnDisk
  <2>2. CASE Active \notin ragged
    <3>1. AppendedTo(files, e, files') /\ FilesOK(files')
      BY <1>6, <2>2
    <3>2. PICK gs : gs = files'
      OBVIOUS
    <3>3. /\ Total(gs) = Total(files) + 1 /\ Stored(gs) = Stored(files) \cup {e}
          /\ Range(gs[Active]) = Range(files[Active]) \cup {e}
          /\ Apart(files) /\ e \notin Stored(files) => Apart(gs)
      BY <1>4, <3>1, <3>2, Appended
    <3> QED
      BY <1>5, <3>2, <3>3 DEF OnDisk
  <2> QED
    BY <2>1, <2>2
<1>8. \A f \in 0 .. LastDay : files'[f] = files[f]
  BY <1>6, FileFacts DEF AppendedTo
<1>9. Base = files /\ Base' = files'
  <2>1. ~Halfway'
    BY <1>2, <1>3 DEF Halfway
  <2> QED
    BY <1>1, <1>2, <2>1, NotHalfway DEF Base, BaseOf
<1>10. SigTypes'
  <2>1. \A v \in Writers : wr'[v].pc \in {"copy", "remove", "append", "govern"} <=> lock' = v
    BY <1>2, <1>3
  <2>2. IsFiniteSet(written') /\ written' \subseteq Record
    BY <1>1, <1>4, FS_AddElement
  <2>3. lock' \in Writers \cup {Nobody} /\ counted' \in Nat /\ late' \in BOOLEAN /\ stale' \in BOOLEAN
    BY <1>1, <1>3 DEF SignalsTypeOK
  <2>4. OnDisk' \subseteq written' /\ ragged' \subseteq Files /\ (ragged' # {} => torn')
    BY <1>1, <1>7
  <2> QED
    BY <1>1, <1>3, <1>6, <2>1, <2>2, <2>3, <2>4 DEF SigTypes, SignalsTypeOK
<1>11. SigNumbers'
  <2>1. \A v \in Writers : wr'[v].rec.n <= nextID'
    BY <1>1, <1>3 DEF SigNumbers, SignalsTypeOK, e
  <2>2. \A v \in Writers : wr'[v].pc \in Holding => v # w /\ wr'[v] = wr[v]
    BY <1>3 DEF Holding
  <2>3. ASSUME NEW v \in Writers, wr'[v].pc \in Holding
        PROVE  /\ wr'[v].rec.tag <= stamped'
               /\ \A r \in OnDisk' : r.tag # wr'[v].rec.tag
               /\ \A u \in Writers \ {v} : wr'[u].pc \in Holding => wr'[u].rec.tag # wr'[v].rec.tag
    <3>1. v # w /\ wr'[v] = wr[v] /\ wr[v].pc \in Holding /\ wr[w].pc \in Holding
      BY <1>1, <2>2, <2>3 DEF Holding
    <3>2. e.tag # wr[v].rec.tag
      BY <3>1 DEF SigNumbers, e
    <3> QED
      BY <1>1, <1>7, <2>2, <3>1, <3>2 DEF SigNumbers
  <2> QED
    BY <1>1, <1>5, <1>7, <2>1, <2>3 DEF SigNumbers
<1>12. SigDays'
  <2>1. \A v \in Writers : wr'[v].pc \notin {"append", "copy"}
    BY <1>2, <1>3
  <2>2. activeDay' # Unknown => \A r \in Range(files'[Active]) : Day(r.ts) <= activeDay'
    BY <1>1, <1>5, <1>7 DEF SigDays
  <2>3. ~late' /\ activeDay' # Unknown => \E m \in written' : Day(m.ts) >= activeDay'
    <3>1. ~late' /\ activeDay # Unknown => Day(e.ts) >= activeDay
      <4>1. ~late' /\ activeDay # Unknown => ~(Day(e.ts) < activeDay)
        BY <1>1
      <4>2. Day(e.ts) \in Int /\ activeDay \in Int
        BY <1>4
      <4> QED
        BY <4>1, <4>2
    <3> QED
      BY <1>1, <3>1
  <2>4. ~late' => ~late
    BY <1>1
  <2> QED
    BY <1>1, <1>8, <2>1, <2>2, <2>3, <2>4 DEF SigDays
<1>13. SigCounted'
  <2>1. ~stale' => ~stale /\ Active \notin ragged
    BY <1>1
  <2>2. ~torn => Active \notin ragged
    OBVIOUS
  <2> QED
    BY <1>1, <1>7, <1>9, <2>1, <2>2 DEF SigCounted, OnDisk
<1>16. SigQuery'
  <2>1. CASE Active \in ragged
    BY <1>1, <1>6, <2>1, QueryStays
  <2>2. CASE Active \notin ragged
    <3> SUFFICES ASSUME query.todo # {} PROVE SigQuery'
      BY <1>1 DEF SigQuery
    <3>1. PICK n : n = query.seen
      OBVIOUS
    <3>2. n \in Nat /\ n <= Len(files[Active]) /\ query'.seen = n
      BY <1>1, <3>1 DEF Queries, SigQuery
    <3>3. View(n)' = View(n) /\ n <= Len(files'[Active])
      BY <1>4, <1>6, <2>2, <3>2, ViewStays
    <3>4. View(query.seen)' = View(query.seen) /\ query.seen <= Len(files'[Active])
      <4>1. View(n)' = [files' EXCEPT ![Active] = SubSeq(@, 1, n)]
        BY DEF View
      <4>2. View(query.seen)' = [files' EXCEPT ![Active] = SubSeq(@, 1, query'.seen)]
        BY DEF View
      <4> QED
        BY <3>1, <3>2, <3>3, <4>1, <4>2
    <3>5. Places(View(query.seen))' = Places(View(query.seen))
      BY <3>4 DEF Places
    <3> QED
      BY <1>1, <3>4, <3>5 DEF SigQuery
  <2> QED
    BY <2>1, <2>2
<1>14. SigOrdered'
  <2>1. ASSUME InFiles(files), Topped, DaysRise(files), \A r \in OnDisk : ~Older(e, r), ~late, ~torn
        PROVE  InFiles(files') /\ Topped' /\ DaysRise(files')
    <3>a. Active \notin ragged
      BY <2>1
    <3>1. \A f \in Files : Range(files[f]) \subseteq OnDisk
      BY StoredFacts DEF OnDisk
    <3>2. \A f \in Files, g \in Files : f < g => f \in 0 .. LastDay /\ (g = Active \/ g \in 0 .. LastDay)
      BY FileFacts
    <3>3. InFiles(files')
      <4> SUFFICES ASSUME NEW f \in Files, NEW g \in Files, f < g, NEW r \in Range(files'[f]), NEW s \in Range(files'[g]),
                          Young(r), Young(s)
                   PROVE  ~Older(s, r)
        BY DEF InFiles
      <4>1. r \in Range(files[f])
        BY <1>8, <3>2
      <4>2. CASE s \in Range(files[g])
        BY <2>1, <4>1, <4>2 DEF InFiles
      <4>3. CASE s = e
        BY <2>1, <3>1, <4>1, <4>3
      <4> QED
        BY <1>7, <1>8, <3>2, <4>2, <4>3
    <3>4. Topped'
      <4>1. ~Older(e, e)
        BY <1>4 DEF Older
      <4> QED
        BY <1>1, <1>7, <2>1, <3>a, <4>1 DEF Topped, Young
    <3>5. DaysRise(files')
      <4> SUFFICES ASSUME NEW s \in Range(files'[Active]), NEW f \in 0 .. LastDay, Young(s), files'[f] # <<>>
                   PROVE  Day(s.ts) >= f
        BY DEF DaysRise
      <4>1. files[f] # <<>>
        BY <1>8
      <4>2. CASE s \in Range(files[Active])
        BY <2>1, <4>1, <4>2 DEF DaysRise
      <4>3. CASE s = e
        <5>1. PICK m \in written : Day(m.ts) >= f
          BY <2>1, <4>1 DEF SigDays
        <5>2. m.ts \in Nat /\ m \in Record
          BY RecordFacts
        <5>3. m.ts <= e.ts
          <6>1. CASE Young(m)
            <7>1. PICK r \in OnDisk : ~Older(r, m)
              BY <2>1, <6>1 DEF Topped
            <7>2. r.ts \in Nat /\ ~Older(e, r)
              BY <2>1, RecordFacts
            <7> QED
              BY <1>4, <5>2, <7>1, <7>2 DEF Older
          <6>2. CASE ~Young(m)
            BY <1>4, <4>3, <5>2, <6>2, SignalsAssumption DEF Young
          <6> QED
            BY <6>1, <6>2
        <5>4. Day(m.ts) <= Day(e.ts) /\ Day(m.ts) \in Nat
          BY <1>4, <5>2, <5>3, DayFacts
        <5> QED
          BY <1>4, <4>3, <5>1, <5>4
      <4> QED
        BY <1>7, <4>2, <4>3
    <3> QED
      BY <3>3, <3>4, <3>5
  <2>2. InFiles(Base)' <=> InFiles(files')
    BY <1>1, <1>9 DEF InFiles, Young
  <2>3. DaysRise(Base)' <=> DaysRise(files')
    BY <1>1, <1>9 DEF DaysRise, Young
  <2> QED
    BY <1>1, <1>9, <2>1, <2>2, <2>3 DEF SigOrdered
<1>15. OnlyOldGone'
  <2> SUFFICES ASSUME ~torn PROVE OnlyOldGone'
    BY <1>1 DEF OnlyOldGone
  <2>1. written \subseteq written' /\ written' \ OnDisk' \subseteq written \ OnDisk
    <3>1. Active \notin ragged
      OBVIOUS
    <3> QED
      BY <1>1, <1>7, <3>1
  <2>2. written' \subseteq Record /\ IsFiniteSet(written')
    BY <1>1, <1>4, FS_AddElement
  <2>3. (~torn /\ ~doubled /\ ~late)' => (~torn /\ ~doubled /\ ~late)
    BY <1>1
  <2>4. clock' = clock /\ clock \in Nat /\ clock <= clock'
    BY <1>1
  <2> QED
    BY <2>1, <2>2, <2>3, <2>4, GoneKeeps
<1> QED
  BY <1>1, <1>10, <1>11, <1>12, <1>13, <1>14, <1>15, <1>16 DEF SigInv

\* What the end of a step under the lock may do to the files, whether it is
\* complete or cut off: records are gone, and unless a write was cut off in the
\* middle only those that OnlyOldGone allows.
Loses ==
    /\ FilesOK(files') /\ OnDisk' \subseteq OnDisk /\ Range(files'[Active]) \subseteq Range(files[Active])
    /\ \A f \in 0 .. LastDay : \A r \in Range(files'[f]) : Day(r.ts) <= f
    /\ ~late => \A f \in 0 .. LastDay : files'[f] # <<>> => \E m \in written : Day(m.ts) >= f
    /\ ragged' \subseteq Files /\ (ragged' # {} => torn')
    /\ torn' \in BOOLEAN /\ doubled' \in BOOLEAN
    /\ ~doubled' => Apart(files')
    /\ ~torn' /\ ~doubled' /\ ~late =>
         /\ InFiles(files') /\ DaysRise(files')
         /\ \A m \in written : Young(m) => \E r \in OnDisk' : ~Older(r, m)
         /\ \A r \in written \ OnDisk' :
              r.ts + Retention < clock \/ Cardinality({s \in written \ {r} : ~Older(s, r)}) >= MaxRecords

\* Nobody has the lock after such a step.
LEMMA LosesKeeps ==
    ASSUME SigInv, Loses, UNCHANGED <<clock, stamped, written, late, missed>>, lock' = Nobody,
           wr' \in [Writers -> [pc : Pcs, rec : Record]],
           \A v \in Writers : /\ wr'[v].pc \notin {"copy", "remove", "append", "govern"} /\ wr'[v].rec.n <= nextID'
                              /\ wr'[v].pc \in Holding => wr[v].pc \in Holding /\ wr'[v].rec = wr[v].rec,
           nextID' \in 0 .. stamped, activeDay' \in {activeDay, Unknown}, counted' \in Nat, stale' \in BOOLEAN,
           ~stale' => counted' = Total(files'), query' \in Queries, SigQuery', mishaps' \in 0 .. MaxMishaps
    PROVE  SigInv'
<1> USE StateFacts
<1>1. Base' = files'
  BY DEF Base, BaseOf, Halfway
<1>2. SigTypes'
  <2>1. nextID' \in 0 .. MaxWrites
    BY SignalsAssumption DEF SignalsTypeOK
  <2>2. activeDay' \in 0 .. Unknown
    OBVIOUS
  <2>3. \A v \in Writers : wr'[v].pc \in {"copy", "remove", "append", "govern"} <=> lock' = v
    OBVIOUS
  <2>4. OnDisk' \subseteq written'
    BY DEF Loses
  <2> QED
    BY <2>1, <2>2, <2>3, <2>4 DEF SigTypes, SignalsTypeOK, Queries, Loses, FilesOK
<1>3. SigNumbers'
  BY FewerNumbers DEF Loses
<1>4. SigDays'
  <2>1. files'[Active] # <<>> => files[Active] # <<>>
    <3>1. PICK a \in Seq(Record), b \in Seq(Record) : a = files[Active] /\ b = files'[Active]
      BY FileFacts DEF Loses, FilesOK
    <3>2. Range(b) \subseteq Range(a)
      BY <3>1 DEF Loses
    <3>3. (a = <<>> <=> Range(a) = {}) /\ (b = <<>> <=> Range(b) = {})
      BY EmptyRange
    <3> QED
      BY <3>1, <3>2, <3>3
  <2>2. activeDay' # Unknown => activeDay' = activeDay
    OBVIOUS
  <2>3. \A r \in Range(files'[Active]) : r \in Range(files[Active])
    BY DEF Loses
  <2>4. activeDay' # Unknown => \A r \in Range(files'[Active]) : Day(r.ts) <= activeDay'
    BY <2>2, <2>3 DEF SigDays
  <2>5. ~late' /\ activeDay' # Unknown /\ files'[Active] # <<>> => \E m \in written' : Day(m.ts) >= activeDay'
    BY <2>1, <2>2 DEF SigDays
  <2> QED
    BY <2>4, <2>5 DEF SigDays, Loses
<1>5. SigCounted'
  BY <1>1 DEF SigCounted, Loses, OnDisk
<1>6. SigOrdered'
  <2>1. InFiles(Base)' <=> InFiles(files')
    BY <1>1 DEF InFiles, Young
  <2>2. DaysRise(Base)' <=> DaysRise(files')
    BY <1>1 DEF DaysRise, Young
  <2>3. Topped' <=> \A m \in written : Young(m) => \E r \in OnDisk' : ~Older(r, m)
    BY DEF Topped, Young
  <2> QED
    BY <2>1, <2>2, <2>3 DEF SigOrdered, Loses
<1>7. OnlyOldGone'
  BY DEF OnlyOldGone, Loses
<1> QED
  BY <1>2, <1>3, <1>4, <1>5, <1>6, <1>7 DEF SigInv

\* Nothing is lost.
LEMMA SameFilesLose ==
    ASSUME SigInv, files' = files, ragged' \subseteq Files, ragged' # {} => torn', torn' \in BOOLEAN, doubled' \in BOOLEAN,
           doubled => doubled', torn => torn', doubled' \/ Base = files
    PROVE  Loses
<1> USE StateFacts
<1>1. OnDisk' = OnDisk
  BY DEF OnDisk
<1>2. ~doubled' => ~doubled /\ Base = files
  OBVIOUS
<1>3. ~torn' => ~torn
  OBVIOUS
<1>4. ~doubled' => Apart(files)
  BY <1>2 DEF SigCounted
<1>5. ~torn' /\ ~doubled' /\ ~late =>
         /\ InFiles(files) /\ DaysRise(files) /\ Topped
         /\ \A r \in written \ OnDisk :
              r.ts + Retention < clock \/ Cardinality({s \in written \ {r} : ~Older(s, r)}) >= MaxRecords
  BY <1>2, <1>3 DEF SigOrdered, OnlyOldGone
<1> QED
  BY <1>1, <1>4, <1>5 DEF Loses, SigDays, Topped

\* What governance does to the files.
Thinner(gs) == /\ FilesOK(gs) /\ \A f \in Files : Range(gs[f]) \subseteq Range(files[f])

\* Governance, if it is not cut off in the middle of a file, takes a young record
\* only for records that are not older.
LEMMA TrimmedLoses ==
    ASSUME SigInv, Base = files, Thinner(files'), \A f \in Files : IsInjective(files[f]) => IsInjective(files'[f]),
           NEW ord \in Orders, ~torn' => ~torn /\ \A f \in Files : Range(Governed(ord)[f]) \subseteq Range(files'[f]),
           ragged' \subseteq Files, ragged' # {} => torn', torn' \in BOOLEAN, doubled' = doubled
    PROVE  Loses
<1> USE StateFacts
<1>1. Active \in Files /\ 0 .. LastDay \subseteq Files /\ FilesOK(files') /\ files' \in [Files -> Seq(Record)]
  BY FileFacts DEF Thinner, FilesOK
<1>2. \A f \in Files : Range(files'[f]) \subseteq Range(files[f])
  BY DEF Thinner
<1>3. OnDisk' \subseteq OnDisk
  BY <1>2 DEF OnDisk, Stored
<1>4. ASSUME NEW f \in 0 .. LastDay, files'[f] # <<>> PROVE files[f] # <<>>
  <2>1. Range(files'[f]) # {}
    BY <1>1, <1>4, EmptyRange
  <2> QED
    BY <1>1, <1>2, <2>1, EmptyRange
<1>5. ASSUME ~doubled PROVE Apart(files')
  <2>1. Apart(files)
    BY <1>5 DEF SigCounted
  <2>2. \A f \in Files : IsInjective(files'[f])
    BY <2>1, ApartFiles
  <2>3. PICK gs : gs = files'
    OBVIOUS
  <2>4. Apart(gs)
    BY <1>1, <1>2, <2>1, <2>2, <2>3, Thinned
  <2> QED
    BY <2>3, <2>4
<1>6. ASSUME ~torn', ~doubled, ~late
      PROVE  /\ InFiles(files') /\ DaysRise(files')
             /\ \A m \in written : Young(m) => \E r \in OnDisk' : ~Older(r, m)
             /\ \A r \in written \ OnDisk' :
                  r.ts + Retention < clock \/ Cardinality({s \in written \ {r} : ~Older(s, r)}) >= MaxRecords
  <2>1. InFiles(files) /\ Topped /\ DaysRise(files) /\ Apart(files)
    BY <1>6 DEF SigOrdered, SigCounted
  <2>2. Stored(Governed(ord)) \subseteq OnDisk'
    <3>1. \A f \in Files : Range(Governed(ord)[f]) \subseteq Range(files'[f])
      BY <1>6
    <3>2. PICK gs : gs = Governed(ord)
      OBVIOUS
    <3>3. \A x : x \in OnDisk' <=> \E f \in Files : x \in Range(files'[f])
      BY DEF OnDisk, Stored
    <3>4. \A x : x \in Stored(gs) <=> \E f \in Files : x \in Range(gs[f])
      BY DEF Stored
    <3> QED
      BY <3>1, <3>2, <3>3, <3>4
  <2>3. InFiles(files')
    BY <1>2, <2>1 DEF InFiles
  <2>4. DaysRise(files')
    BY <1>1, <1>2, <1>4, <2>1 DEF DaysRise
  <2>5. ASSUME NEW m \in written, Young(m) PROVE \E s \in OnDisk' : ~Older(s, m)
    <3>1. PICK r \in OnDisk : ~Older(r, m)
      BY <2>1, <2>5 DEF Topped
    <3>2. m.ts \in Nat /\ r.ts \in Nat
      BY RecordFacts
    <3>3. Young(r)
      BY <2>5, <3>1, <3>2, SignalsAssumption DEF Young, Older
    <3>4. PICK s \in Stored(Governed(ord)) : ~Older(s, r)
      BY <2>1, <3>3, YoungestStays
    <3>5. s \in OnDisk' /\ s.ts \in Nat
      BY <1>3, <2>2, RecordFacts
    <3> QED
      BY <3>1, <3>2, <3>4, <3>5 DEF Older
  <2>6. ASSUME NEW r \in written, r \notin OnDisk'
        PROVE  r.ts + Retention < clock \/ Cardinality({s \in written \ {r} : ~Older(s, r)}) >= MaxRecords
    <3>1. CASE r \notin OnDisk
      BY <1>6, <3>1 DEF OnlyOldGone
    <3>2. CASE r \in OnDisk /\ Young(r)
      <4>1. r \notin Stored(Governed(ord))
        BY <2>2, <2>6
      <4> QED
        BY <2>1, <3>2, <4>1, DroppedForRoom
    <3>3. CASE ~Young(r)
      BY <3>3, RecordFacts, SignalsAssumption DEF Young
    <3> QED
      BY <3>1, <3>2, <3>3
  <2> QED
    BY <2>3, <2>4, <2>5, <2>6
<1>7. \A f \in 0 .. LastDay : \A r \in Range(files'[f]) : Day(r.ts) <= f
  BY <1>1, <1>2 DEF SigDays
<1>8. ~late => \A f \in 0 .. LastDay : files'[f] # <<>> => \E m \in written : Day(m.ts) >= f
  BY <1>4 DEF SigDays
<1> QED
  BY <1>1, <1>2, <1>3, <1>5, <1>6, <1>7, <1>8 DEF Loses, SignalsTypeOK

\* Governance that nothing interrupts.
LEMMA GovernKeeps ==
    ASSUME SigInv, NEW w \in Writers, Govern(w)
    PROVE  SigInv'
<1> USE StateFacts
<1>1. /\ wr[w].pc = "govern" /\ StopFollowing /\ Unlock(w) /\ counted' = Total(files') /\ stale' = FALSE
      /\ ragged' = IF files' = files THEN {f \in ragged : files[f] # <<>>} ELSE {}
      /\ UNCHANGED <<clock, activeDay, nextID, mishaps, stamped, written, late, doubled, torn, missed>>
  BY DEF Govern
<1>2. PICK ord \in Orders : files' = Governed(ord)
  BY DEF Govern
<1>3. /\ wr' \in [Writers -> [pc : Pcs, rec : Record]] /\ wr'[w].pc = "idle" /\ wr'[w].rec.n = 0
      /\ \A v \in Writers \ {w} : wr'[v] = wr[v]
      /\ lock' = Nobody
  BY <1>1, Unlocks
<1>4. Base = files /\ lock = w
  BY <1>1, NotHalfway
<1>5. /\ FilesOK(files') /\ Thinner(files') /\ \A f \in Files : IsInjective(files[f]) => IsInjective(files'[f])
      /\ \A f \in Files : Range(Governed(ord)[f]) \subseteq Range(files'[f])
  BY <1>2, GovernedFacts DEF Thinner
<1>6. ragged' \subseteq Files /\ (ragged' # {} => torn') /\ torn' \in BOOLEAN
  BY <1>1 DEF SignalsTypeOK
<1>7. Loses
  BY <1>1, <1>4, <1>5, <1>6, TrimmedLoses
<1>8. SigQuery' /\ query' \in Queries
  BY <1>1, QueryStays DEF StopFollowing
<1>9. counted' \in Nat /\ stale' \in BOOLEAN /\ (~stale' => counted' = Total(files'))
  BY <1>1, <1>5, SlotFacts
<1>10. nextID' \in 0 .. stamped /\ mishaps' \in 0 .. MaxMishaps /\ activeDay' \in {activeDay, Unknown}
  BY <1>1 DEF SigNumbers, SignalsTypeOK
<1>11. \A v \in Writers : /\ wr'[v].pc \notin {"copy", "remove", "append", "govern"} /\ wr'[v].rec.n <= nextID'
                          /\ wr'[v].pc \in Holding => wr[v].pc \in Holding /\ wr'[v].rec = wr[v].rec
  BY <1>1, <1>3, <1>4, <1>10 DEF SigNumbers, Holding
<1> QED
  BY <1>1, <1>3, <1>7, <1>8, <1>9, <1>10, <1>11, LosesKeeps

\* RunRetention takes the lock.
LEMMA RunRetentionKeeps ==
    ASSUME SigInv, NEW w \in Writers, RunRetention(w)
    PROVE  SigInv'
<1> USE StateFacts
<1>1. /\ lock = Nobody /\ lock' = w /\ wr[w].pc = "idle" /\ Proceed(w, "govern")
      /\ UNCHANGED <<clock, files, activeDay, counted, nextID, ragged, query, mishaps, stamped,
                     written, late, doubled, torn, stale, missed>>
  BY DEF RunRetention
<1>2. /\ wr' \in [Writers -> [pc : Pcs, rec : Record]] /\ wr'[w].pc = "govern" /\ wr'[w].rec = wr[w].rec
      /\ \A v \in Writers \ {w} : wr'[v] = wr[v]
  <2>1. "govern" \in Pcs
    BY DEF Pcs
  <2> QED
    BY <1>1, <2>1, Proceeds
<1>3. \A v \in Writers : wr[v].pc \notin {"copy", "remove", "append", "govern"}
  BY <1>1
<1>4. Base' = Base /\ OnDisk' = OnDisk
  <2>1. ~Halfway /\ ~Halfway'
    BY <1>2, <1>3 DEF Halfway
  <2> QED
    BY <1>1, <2>1 DEF Base, BaseOf, OnDisk
<1>5. SigTypes'
  <2>1. \A v \in Writers : wr'[v].pc \in {"copy", "remove", "append", "govern"} <=> lock' = v
    BY <1>1, <1>2, <1>3
  <2> QED
    BY <1>1, <1>2, <1>4, <2>1 DEF SigTypes, SignalsTypeOK
<1>6. SigNumbers'
  <2>1. nextID' \in 0 .. stamped /\ stamped' = stamped
    BY <1>1 DEF SigNumbers, SignalsTypeOK
  <2>2. \A v \in Writers : wr'[v].rec.n <= nextID'
    BY <1>1, <1>2 DEF SigNumbers
  <2>3. \A v \in Writers : wr'[v].pc \in Holding => wr[v].pc \in Holding /\ wr'[v].rec = wr[v].rec
    BY <1>2 DEF Holding
  <2> QED
    BY <1>4, <2>1, <2>2, <2>3, FewerNumbers
<1>7. SigDays'
  <2>1. \A v \in Writers : wr'[v].pc \notin {"append", "copy"}
    BY <1>2, <1>3
  <2> QED
    BY <1>1, <2>1 DEF SigDays
<1>8. SigCounted' /\ SigOrdered' /\ OnlyOldGone'
  BY <1>1, <1>4 DEF SigCounted, SigOrdered, OnlyOldGone, InFiles, DaysRise, Topped, Young
<1>9. SigQuery'
  BY <1>1, QueryStays
<1> QED
  BY <1>1, <1>5, <1>6, <1>7, <1>8, <1>9 DEF SigInv

\* A rewrite that is cut off, in the middle of a file or between two.
LEMMA CutRewriteLoses ==
    ASSUME SigInv, NEW w \in Writers, CutRewrite(w)
    PROVE  Loses
<1> USE StateFacts
<1>1. wr[w].pc = "govern" /\ doubled' = doubled
  BY DEF CutRewrite
<1>2. PICK ord \in Orders, f \in Files :
        LET new == Governed(ord)
        IN \E k \in 0 .. Len(new[f]), tail \in BOOLEAN :
             /\ tail => k < Len(new[f])
             /\ files' = [g \in Files |-> CASE g < f -> new[g]
                                         [] g = f -> SubSeq(new[f], 1, k)
                                         [] g > f -> files[g]]
             /\ ragged' = {g \in ragged : g > f} \cup (IF tail THEN {f} ELSE {})
             /\ torn' = (torn \/ k < Len(new[f]))
  BY DEF CutRewrite
<1> DEFINE new == Governed(ord)
<1>3. PICK k \in 0 .. Len(new[f]), tail \in BOOLEAN :
             /\ tail => k < Len(new[f])
             /\ files' = [g \in Files |-> CASE g < f -> new[g]
                                         [] g = f -> SubSeq(new[f], 1, k)
                                         [] g > f -> files[g]]
             /\ ragged' = {g \in ragged : g > f} \cup (IF tail THEN {f} ELSE {})
             /\ torn' = (torn \/ k < Len(new[f]))
  BY <1>2
<1>4. Base = files
  BY <1>1, NotHalfway
<1>5. /\ FilesOK(new) /\ \A g \in Files : Range(new[g]) \subseteq Range(files[g])
      /\ \A g \in Files : IsInjective(files[g]) => IsInjective(new[g])
  BY GovernedFacts
<1> HIDE DEF new
<1>6. PICK s \in Seq(Record) : s = new[f]
  BY <1>5 DEF FilesOK
<1>7. /\ SubSeq(s, 1, k) \in Seq(Record) /\ Range(SubSeq(s, 1, k)) \subseteq Range(s)
      /\ IsInjective(s) => IsInjective(SubSeq(s, 1, k))
      /\ ~(k < Len(s)) => SubSeq(s, 1, k) = s
  <2>1. k \in Nat /\ k <= Len(s) /\ Len(s) \in Nat /\ DOMAIN s = 1 .. Len(s)
    BY <1>6
  <2>2. /\ SubSeq(s, 1, k) \in Seq(Record) /\ DOMAIN SubSeq(s, 1, k) = 1 .. k
        /\ \A i \in 1 .. k : SubSeq(s, 1, k)[i] = s[i] /\ i \in DOMAIN s
    BY <2>1
  <2>3. ASSUME NEW x \in Range(SubSeq(s, 1, k)) PROVE x \in Range(s)
    <3>1. PICK i \in 1 .. k : x = SubSeq(s, 1, k)[i]
      BY <2>2 DEF Range
    <3> QED
      BY <2>2, <3>1 DEF Range
  <2>4. IsInjective(s) => IsInjective(SubSeq(s, 1, k))
    BY <2>2 DEF IsInjective
  <2>5. ASSUME ~(k < Len(s)) PROVE SubSeq(s, 1, k) = s
    <3>1. k = Len(s)
      <4>1. PICK l : l = Len(s)
        OBVIOUS
      <4>2. k \in Nat /\ l \in Nat /\ k <= l /\ ~(k < l)
        BY <2>1, <2>5, <4>1
      <4>3. k = l
        BY <4>2
      <4> QED
        BY <4>1, <4>3
    <3>2. SubSeq(s, 1, Len(s)) = [i \in 1 .. Len(s) |-> s[i]] /\ s = [i \in 1 .. Len(s) |-> s[i]]
      BY <2>1
    <3> QED
      BY <3>1, <3>2
  <2> QED
    BY <2>2, <2>3, <2>4, <2>5
<1>8. ASSUME NEW g \in Files
      PROVE  /\ files'[g] \in Seq(Record) /\ Range(files'[g]) \subseteq Range(files[g])
             /\ IsInjective(files[g]) => IsInjective(files'[g])
             /\ ~torn' => Range(new[g]) \subseteq Range(files'[g])
  <2>1. f \in Int /\ g \in Int
    BY FileFacts
  <2>2. CASE g < f
    <3>1. files'[g] = new[g]
      BY <1>3, <2>1, <2>2
    <3> QED
      BY <1>5, <3>1 DEF FilesOK
  <2>3. CASE g = f
    <3>1. files'[g] = SubSeq(s, 1, k)
      BY <1>3, <1>6, <2>1, <2>3
    <3>2. ~torn' => SubSeq(s, 1, k) = s
      BY <1>3, <1>6, <1>7
    <3> QED
      BY <1>5, <1>6, <1>7, <2>3, <3>1, <3>2
  <2>4. CASE g > f
    <3>1. files'[g] = files[g]
      BY <1>3, <2>1, <2>4
    <3> QED
      BY <1>5, <3>1
  <2> QED
    BY <2>1, <2>2, <2>3, <2>4
<1>9. Thinner(files')
  <2> DEFINE content(g) == CASE g < f -> new[g]
                             [] g = f -> SubSeq(new[f], 1, k)
                             [] g > f -> files[g]
  <2>1. files' = [g \in Files |-> content(g)]
    BY <1>3
  <2> HIDE DEF content
  <2>2. files' = [g \in Files |-> files'[g]]
    BY <2>1
  <2> QED
    BY <1>8, <2>2 DEF Thinner, FilesOK
<1>10. ragged' \subseteq Files /\ (ragged' # {} => torn') /\ torn' \in BOOLEAN
  BY <1>3 DEF SignalsTypeOK
<1>11. ~torn' => ~torn /\ \A g \in Files : Range(Governed(ord)[g]) \subseteq Range(files'[g])
  BY <1>3, <1>8 DEF new
<1> QED
  BY <1>1, <1>4, <1>8, <1>9, <1>10, <1>11, TrimmedLoses

\* A copy that is cut off.
LEMMA CutCopyLoses ==
    ASSUME SigInv, NEW w \in Writers, CutCopy(w)
    PROVE  Loses
<1> USE StateFacts
<1>1. wr[w].pc = "copy" /\ ragged' = ragged \cup {PreviousDay} /\ torn' = TRUE /\ doubled' = TRUE
  BY DEF CutCopy
<1>2. PICK k \in 0 .. Len(Arriving(PreviousDay)) :
        files' = [files EXCEPT ![PreviousDay] = @ \o SubSeq(Arriving(PreviousDay), 1, k)]
  BY DEF CutCopy
<1>3. PreviousDay \in 0 .. LastDay /\ PreviousDay \in Files /\ PreviousDay # Active
  <2>1. PreviousDay # Unknown /\ PreviousDay \in 0 .. Unknown
    BY <1>1, PreviousDayFacts DEF SigDays, MustRotate
  <2> QED
    BY <2>1, FileFacts
<1>4. PICK a \in Seq(Record) : a = Arriving(PreviousDay) /\ Range(a) \subseteq Range(files[Active])
  BY <1>3, Arrived
<1>5. SubSeq(a, 1, k) \in Seq(Record) /\ Range(SubSeq(a, 1, k)) \subseteq Range(a)
  <2>1. 1 \in Nat \ {0} /\ k \in Nat /\ k <= Len(a)
    BY <1>4
  <2> QED
    BY <2>1, Sliced
<1>6. PICK c \in Seq(Record) : c = SubSeq(a, 1, k) /\ Range(c) \subseteq Range(files[Active])
  BY <1>4, <1>5
<1>7. files' = [files EXCEPT ![PreviousDay] = @ \o c]
  BY <1>2, <1>4, <1>6
<1>8. /\ FilesOK(files') /\ \A f \in Files \ {PreviousDay} : files'[f] = files[f]
      /\ OnDisk' = OnDisk
      /\ \A f \in 0 .. LastDay : \A r \in Range(files'[f]) : Day(r.ts) <= f
      /\ ~late => \A f \in 0 .. LastDay : files'[f] # <<>> => \E m \in written : Day(m.ts) >= f
  BY <1>1, <1>6, <1>7, Copied
<1>9. files'[Active] = files[Active]
  BY <1>3, <1>8, FileFacts
<1> QED
  BY <1>1, <1>3, <1>8, <1>9 DEF Loses

\* A step that is cut off loses only a part of what it had to write.
LEMMA CutLoses ==
    ASSUME SigInv, NEW w \in Writers, lock = w, Cut(w)
    PROVE  Loses
<1> USE StateFacts
<1>1. CASE NothingDone(w)
  <2>1. /\ doubled' = (doubled \/ (wr[w].pc = "remove" /\ files[Active] # <<>>))
        /\ files' = files /\ ragged' = ragged /\ torn' = torn
    BY <1>1 DEF NothingDone
  <2>2. doubled' \/ Base = files
    <3>1. CASE wr[w].pc # "remove"
      BY <3>1, NotHalfway
    <3>2. CASE files[Active] = <<>>
      BY <3>2, BaseFacts DEF Base
    <3> QED
      BY <2>1, <3>1, <3>2
  <2>3. doubled' \in BOOLEAN /\ (doubled => doubled') /\ torn' \in BOOLEAN
    BY <2>1 DEF SignalsTypeOK
  <2> QED
    BY <2>1, <2>2, <2>3, SameFilesLose
<1>2. CASE CutAppend(w)
  <2>1. wr[w].pc = "append" /\ ragged' = ragged \cup {Active} /\ torn' = TRUE /\ files' = files /\ doubled' = doubled
    BY <1>2 DEF CutAppend
  <2>2. Base = files
    BY <2>1, NotHalfway
  <2>3. doubled' \in BOOLEAN /\ ragged' \subseteq Files
    BY <2>1, FileFacts DEF SignalsTypeOK
  <2> QED
    BY <2>1, <2>2, <2>3, SameFilesLose
<1> QED
  BY <1>1, <1>2, CutCopyLoses, CutRewriteLoses DEF Cut

\* An error ends the work of the writer.
LEMMA FileFailsKeeps ==
    ASSUME SigInv, NEW w \in Writers, FileFails(w)
    PROVE  SigInv'
<1> USE StateFacts
<1>1. /\ lock = w /\ Mishap /\ Cut(w) /\ stale' = (stale \/ wr[w].pc # "append")
      /\ query' = (IF wr[w].pc = "append" THEN query ELSE NoQuery) /\ Unlock(w)
      /\ UNCHANGED <<clock, activeDay, counted, nextID, stamped, written, late, missed>>
  BY DEF FileFails
<1>2. /\ wr' \in [Writers -> [pc : Pcs, rec : Record]] /\ wr'[w].pc = "idle" /\ wr'[w].rec.n = 0
      /\ \A v \in Writers \ {w} : wr'[v] = wr[v]
      /\ lock' = Nobody
  BY <1>1, Unlocks
<1>3. Loses
  BY <1>1, CutLoses
<1>4. wr[w].pc = "append" => files' = files
  BY <1>1 DEF Cut, NothingDone, CutAppend, CutCopy, CutRewrite
<1>5. SigQuery' /\ query' \in Queries
  BY <1>1, <1>4, QueryStays
<1>6. ASSUME ~stale' PROVE counted' = Total(files')
  <2>1. ~stale /\ wr[w].pc = "append"
    BY <1>1, <1>6
  <2>2. Base = files
    BY <1>1, <2>1, NotHalfway
  <2> QED
    BY <1>1, <1>4, <2>1, <2>2 DEF SigCounted
<1>7. counted' \in Nat /\ stale' \in BOOLEAN /\ mishaps' \in 0 .. MaxMishaps
  BY <1>1, SignalsAssumption DEF Mishap, SignalsTypeOK
<1>8. nextID' \in 0 .. stamped /\ activeDay' \in {activeDay, Unknown}
  BY <1>1 DEF SigNumbers, SignalsTypeOK
<1>9. \A v \in Writers : /\ wr'[v].pc \notin {"copy", "remove", "append", "govern"} /\ wr'[v].rec.n <= nextID'
                         /\ wr'[v].pc \in Holding => wr[v].pc \in Holding /\ wr'[v].rec = wr[v].rec
  BY <1>1, <1>2, <1>8 DEF SigNumbers, Holding
<1> QED
  BY <1>1, <1>2, <1>3, <1>5, <1>6, <1>7, <1>8, <1>9, LosesKeeps

\* A crash, and the start after it.
LEMMA SignalsCrashKeeps ==
    ASSUME SigInv, SignalsCrash
    PROVE  SigInv'
<1> USE StateFacts
<1>1. Mishap /\ Restart(files') /\ UNCHANGED <<clock, stamped, written, late, missed>>
  BY DEF SignalsCrash
<1>2. /\ activeDay' = Unknown /\ counted' = Total(files') /\ stale' = FALSE /\ lock' = Nobody /\ query' = NoQuery
      /\ wr' = [v \in Writers |-> [pc |-> "idle", rec |-> NoRecord]] /\ nextID' = 0
  BY <1>1 DEF Restart
<1>3. Loses
  <2>1. CASE lock = Nobody /\ UNCHANGED <<files, ragged, torn, doubled>>
    <3>1. Base = files
      BY <2>1, NotHalfway
    <3>2. torn' \in BOOLEAN /\ doubled' \in BOOLEAN
      BY <2>1 DEF SignalsTypeOK
    <3> QED
      BY <2>1, <3>1, <3>2, SameFilesLose
  <2>2. CASE lock # Nobody /\ Cut(lock)
    BY <2>2, CutLoses
  <2> QED
    BY <2>1, <2>2 DEF SignalsCrash
<1>4. NoRecord \in Record /\ NoRecord.n = 0 /\ "idle" \in Pcs
  BY SignalsAssumption DEF NoRecord, Record, Pcs
<1>5. /\ wr' \in [Writers -> [pc : Pcs, rec : Record]]
      /\ \A v \in Writers : wr'[v].pc = "idle" /\ wr'[v].rec.n = 0
  BY <1>2, <1>4
<1>6. SigQuery' /\ query' \in Queries
  BY <1>2, QueryStays
<1>7. counted' \in Nat /\ stale' \in BOOLEAN /\ (~stale' => counted' = Total(files'))
  BY <1>2, <1>3, SlotFacts DEF Loses
<1>8. nextID' \in 0 .. stamped /\ activeDay' \in {activeDay, Unknown} /\ mishaps' \in 0 .. MaxMishaps
  BY <1>1, <1>2, SignalsAssumption DEF Mishap, SignalsTypeOK
<1>9. \A v \in Writers : /\ wr'[v].pc \notin {"copy", "remove", "append", "govern"} /\ wr'[v].rec.n <= nextID'
                         /\ wr'[v].pc \in Holding => wr[v].pc \in Holding /\ wr'[v].rec = wr[v].rec
  BY <1>2, <1>5 DEF Holding
<1> QED
  BY <1>1, <1>2, <1>3, <1>5, <1>6, <1>7, <1>8, <1>9, LosesKeeps

\* ListFiles begins a query.
LEMMA ListFilesKeeps ==
    ASSUME SigInv, ListFiles
    PROVE  SigInv'
<1> USE StateFacts
<1>1. /\ query' = [NoQuery EXCEPT !.todo = {f \in Files : files[f] # <<>>}]
      /\ UNCHANGED <<clock, files, activeDay, counted, lock, wr, nextID, ragged, mishaps, stamped,
                     written, late, doubled, torn, stale, missed>>
  BY DEF ListFiles
<1>2. query'.todo = {f \in Files : files[f] # <<>>} /\ query'.got = {} /\ query'.seen = 0 /\ query' \in Queries
  BY <1>1 DEF NoQuery, Queries
<1>3. FilesOK(View(0)) /\ \A p \in Places(View(0)) : p \in Places(files)
  <2>1. 0 \in Nat /\ 0 <= Len(files[Active])
    BY FileFacts
  <2> QED
    BY <2>1, ViewFacts
<1>4. ASSUME NEW p \in Places(View(0)) PROVE p[1] \in query'.todo
  <2>1. p[1] \in Files /\ p[2] \in DOMAIN files[p[1]]
    BY <1>3, SlotFacts
  <2>2. files[p[1]] # <<>>
    BY <2>1
  <2> QED
    BY <1>2, <2>1, <2>2
<1>5. View(query.seen)' = View(0)
  BY <1>1, <1>2 DEF View
<1>6. Places(View(query.seen))' = Places(View(0))
  BY <1>5 DEF Places
<1>7. SigQuery'
  <2>1. IsFiniteSet({}) /\ Cardinality({}) = 0 /\ 0 < Limit
    BY FS_EmptySet, SignalsAssumption
  <2>2. 0 <= Len(files'[Active])
    BY <1>1, FileFacts
  <2> QED
    BY <1>2, <1>4, <1>6, <2>1, <2>2 DEF SigQuery
<1>8. clock' \in clock .. MaxClock
  BY <1>1
<1> QED
  BY <1>1, <1>2, <1>7, <1>8, WaitKeeps

\* What a query has found when it has read one file more.
LEMMA FoundMore ==
    ASSUME SigInv, NEW f \in Files, f \in query.todo, \A g \in query.todo : g <= f,
           NEW seen, seen = IF f = Active THEN Len(files[f]) ELSE query.seen,
           NEW n, n = Limit - Cardinality(query.got), NEW N, N = NewestOf(files[f], n)
    PROVE  /\ seen \in Nat /\ seen <= Len(files[Active]) /\ View(seen)[f] = files[f]
           /\ n \in Nat \ {0} /\ IsFiniteSet(query.got \cup ({f} \X N))
           /\ query.got \cup ({f} \X N) \subseteq Places(View(seen))
           /\ Cardinality(query.got \cup ({f} \X N)) = Cardinality(query.got) + Cardinality(N)
           /\ Cardinality(N) = (IF Len(files[f]) < n THEN Len(files[f]) ELSE n) /\ Len(files[f]) \in Nat
           /\ N \subseteq DOMAIN files[f] /\ (Len(files[f]) < n => N = DOMAIN files[f])
           /\ \A p \in Places(View(seen)) : p[1] < f \/ p[1] = f \/ p \in query.got
           /\ \A p \in Places(View(seen)) : p[1] < f => p[1] \in query.todo
           /\ \A p \in query.got : p[1] > f
           /\ f = Active => query.got = {}
<1> USE StateFacts
<1> DEFINE G == query.got
<1>1. /\ query.todo # {} /\ query.todo \subseteq Files /\ query.seen \in Nat /\ query.seen <= Len(files[Active])
      /\ \A p \in Places(View(query.seen)) : p[1] \in query.todo \/ p \in G
      /\ \A p \in G : p \in Places(View(query.seen)) /\ \A g \in query.todo : g < p[1]
      /\ IsFiniteSet(G) /\ Cardinality(G) < Limit /\ Cardinality(G) \in Nat /\ Limit \in Nat
  <2>1. query.todo # {}
    OBVIOUS
  <2>2. IsFiniteSet(G) /\ Cardinality(G) \in Nat
    BY <2>1, FS_CardinalityType DEF SigQuery
  <2> QED
    BY <2>1, <2>2, SignalsAssumption DEF SigQuery, Queries
<1>2. n \in Nat \ {0}
  BY <1>1
<1>3. PICK s \in Seq(Record) : s = files[f]
  OBVIOUS
<1>4. /\ N \subseteq DOMAIN s /\ IsFiniteSet(N) /\ Cardinality(N) = IF Len(s) < n THEN Len(s) ELSE n
      /\ Len(s) < n => N = DOMAIN s
  BY <1>2, <1>3, NewestSize
<1>5. /\ FilesOK(View(query.seen)) /\ \A g \in Files \ {Active} : View(query.seen)[g] = files[g]
      /\ \A p \in Places(View(query.seen)) : p \in Places(files)
  BY <1>1, ViewFacts
<1>6. \A p \in G : p[1] \in Files /\ p[1] \in Int /\ p[1] > f /\ p[1] <= Active
  <2>1. \A p \in G : p[1] \in Files /\ p[1] \in Int /\ f < p[1]
    BY <1>1, <1>5, SlotFacts
  <2> QED
    BY <2>1, FileFacts
<1>7. f \in Int /\ Active \in Int
  BY FileFacts
<1>8. f = Active => G = {}
  BY <1>6, <1>7
<1>9. /\ seen \in Nat /\ seen <= Len(files[Active]) /\ View(seen)[f] = files[f] /\ FilesOK(View(seen))
      /\ \A p \in Places(View(seen)) : p \in Places(files) /\ (p[1] # Active \/ f = Active \/ p \in Places(View(query.seen)))
      /\ \A p \in Places(View(seen)) : p[1] # f => p \in Places(View(query.seen)) \/ f = Active
      /\ G \subseteq Places(View(seen))
  <2>1. CASE f = Active
    <3>1. seen = Len(files[Active]) /\ seen \in Nat /\ seen <= Len(files[Active])
      BY <1>3, <2>1
    <3>2. View(seen) = files
      BY <3>1, ViewFacts
    <3> QED
      BY <1>8, <2>1, <3>1, <3>2
  <2>2. CASE f # Active
    <3>1. seen = query.seen
      BY <2>2
    <3> QED
      BY <1>1, <1>5, <2>2, <3>1
  <2> QED
    BY <2>1, <2>2
<1>10. ASSUME NEW p \in Places(View(seen)), p[1] # f PROVE p \in G \/ (p[1] < f /\ p[1] \in query.todo)
  <2>1. p[1] \in Files /\ p[2] \in DOMAIN files[p[1]] /\ p[1] \in Int /\ p = <<p[1], p[2]>>
    BY <1>9, SlotFacts
  <2>2. p \in Places(View(query.seen))
    <3>1. CASE f = Active
      <4>1. p[1] # Active
        BY <1>10, <3>1
      <4>2. View(query.seen)[p[1]] = files[p[1]]
        BY <1>5, <2>1, <4>1
      <4> QED
        BY <1>5, <2>1, <4>2, SlotFacts
    <3>2. CASE f # Active
      BY <1>9, <1>10, <3>2
    <3> QED
      BY <3>1, <3>2
  <2>3. CASE p[1] \in query.todo
    BY <1>7, <1>10, <2>1, <2>3
  <2> QED
    BY <1>1, <2>2, <2>3
<1>11. IsFiniteSet({f} \X N) /\ Cardinality({f} \X N) = Cardinality(N)
  <2>1. IsFiniteSet({f}) /\ Cardinality({f}) = 1
    BY FS_Singleton
  <2>2. IsFiniteSet({f} \X N) /\ Cardinality({f} \X N) = Cardinality({f}) * Cardinality(N)
    BY <1>4, <2>1, FS_Product
  <2>3. Cardinality(N) \in Nat
    BY <1>4, FS_CardinalityType
  <2> QED
    BY <2>1, <2>2, <2>3
<1>12. G \cap ({f} \X N) = {}
  BY <1>6, <1>7
<1>13. /\ IsFiniteSet(G \cup ({f} \X N))
       /\ Cardinality(G \cup ({f} \X N)) = Cardinality(G) + Cardinality(N)
  <2>1. PICK A, B : A = G /\ B = {f} \X N
    OBVIOUS
  <2>2. IsFiniteSet(A) /\ IsFiniteSet(B) /\ A \cap B = {}
    BY <1>1, <1>11, <1>12, <2>1
  <2>3. /\ IsFiniteSet(A \cup B)
        /\ Cardinality(A \cup B) = Cardinality(A) + Cardinality(B) - Cardinality(A \cap B)
    BY <2>2, FS_Union
  <2>4. Cardinality(A \cap B) = 0
    BY <2>2, FS_EmptySet
  <2>5. Cardinality(A) \in Nat /\ Cardinality(B) \in Nat
    BY <2>2, FS_CardinalityType
  <2> QED
    BY <1>11, <2>1, <2>3, <2>4, <2>5
<1>14. {f} \X N \subseteq Places(View(seen))
  <2> SUFFICES ASSUME NEW i \in N PROVE <<f, i>> \in Places(View(seen))
    OBVIOUS
  <2>1. i \in DOMAIN View(seen)[f]
    BY <1>3, <1>4, <1>9
  <2> QED
    BY <1>9, <2>1, SlotFacts
<1> HIDE DEF G
<1>15. Len(files[f]) \in Nat
  BY <1>3
<1>16. ASSUME NEW p \in Places(View(seen)) PROVE p[1] < f \/ p[1] = f \/ p \in G
  BY <1>10
<1>17. ASSUME NEW p \in Places(View(seen)), p[1] < f PROVE p[1] \in query.todo
  <2>1. p[1] \in Int
    BY <1>9, SlotFacts
  <2>2. p[1] # f /\ ~(p[1] > f)
    BY <1>7, <1>17, <2>1
  <2> QED
    BY <1>6, <1>10, <2>2
<1>18. \A p \in G : p[1] > f
  BY <1>6
<1>19. G \cup ({f} \X N) \subseteq Places(View(seen))
  BY <1>9, <1>14
<1>20. /\ Cardinality(N) = (IF Len(files[f]) < n THEN Len(files[f]) ELSE n)
       /\ N \subseteq DOMAIN files[f] /\ (Len(files[f]) < n => N = DOMAIN files[f])
  BY <1>3, <1>4
<1> QED
  BY <1>2, <1>8, <1>9, <1>13, <1>15, <1>16, <1>17, <1>18, <1>19, <1>20 DEF G

\* ReadFile goes on with a query, or ends it with the newest records.
LEMMA ReadFileKeeps ==
    ASSUME SigInv, NEW f \in Files, ReadFile(f)
    PROVE  SigInv'
<1> USE StateFacts
<1>1. PICK seen, n, N, got, todo :
        /\ seen = (IF f = Active THEN Len(files[f]) ELSE query.seen) /\ n = Limit - Cardinality(query.got)
        /\ N = NewestOf(files[f], n) /\ got = query.got \cup ({f} \X N) /\ todo = query.todo \ {f}
  OBVIOUS
<1> DEFINE done == todo = {} \/ Cardinality(got) >= Limit
<1>2. /\ f \in query.todo /\ \A g \in query.todo : g <= f
      /\ query' = IF done THEN NoQuery ELSE [todo |-> todo, got |-> got, seen |-> seen]
      /\ missed' = (missed \/ (done /\ ~doubled /\ Legible(View(seen)) /\ ~AreNewest(got, View(seen))))
      /\ UNCHANGED <<clock, files, activeDay, counted, lock, wr, nextID, ragged, mishaps, stamped,
                     written, late, doubled, torn, stale>>
  BY <1>1 DEF ReadFile
<1>3. /\ seen \in Nat /\ seen <= Len(files[Active]) /\ View(seen)[f] = files[f]
      /\ n \in Nat \ {0} /\ IsFiniteSet(got)
      /\ got \subseteq Places(View(seen))
      /\ Cardinality(got) = Cardinality(query.got) + Cardinality(N)
      /\ Cardinality(N) = (IF Len(files[f]) < n THEN Len(files[f]) ELSE n) /\ Len(files[f]) \in Nat
      /\ N \subseteq DOMAIN files[f] /\ (Len(files[f]) < n => N = DOMAIN files[f])
      /\ \A p \in Places(View(seen)) : p[1] < f \/ p[1] = f \/ p \in query.got
      /\ \A p \in Places(View(seen)) : p[1] < f => p[1] \in query.todo
      /\ \A p \in query.got : p[1] > f
      /\ f = Active => query.got = {}
  BY <1>1, <1>2, FoundMore
<1>4. /\ IsFiniteSet(query.got) /\ Cardinality(query.got) \in Nat /\ Cardinality(query.got) < Limit /\ Limit \in Nat
      /\ query.todo \subseteq Files /\ f \in Int /\ \A g \in Files : g \in Int
  BY <1>2, FS_CardinalityType, SignalsAssumption, FileFacts DEF SigQuery, Queries
<1>5. /\ FilesOK(View(seen)) /\ \A p \in Places(View(seen)) : p \in Places(files) /\ At(View(seen), p) = RecordAt(p)
  BY <1>3, ViewFacts
<1>6. \A p \in Places(View(seen)) : /\ p = <<p[1], p[2]>> /\ p[1] \in Files /\ p[2] \in DOMAIN View(seen)[p[1]]
                                    /\ p[1] \in Int /\ p[2] \in Int
  BY <1>5, SlotFacts
<1>7. \A p \in Places(View(seen)) : p[1] = f => (p \in got <=> p[2] \in N)
  <2>1. ASSUME NEW p \in Places(View(seen)), p[1] = f PROVE p \in got <=> p[2] \in N
    <3>1. p \notin query.got
      BY <1>3, <1>4, <2>1
    <3>2. p = <<f, p[2]>>
      BY <1>6, <2>1
    <3> QED
      BY <1>1, <3>1, <3>2
  <2> QED
    BY <2>1
<1>8. ASSUME Len(files[f]) < n, NEW p \in Places(View(seen)), p \notin got PROVE p[1] < f /\ p[1] \in todo
  <2>1. p[1] # f
    BY <1>3, <1>6, <1>7, <1>8
  <2>2. p \notin query.got
    BY <1>1, <1>8
  <2> QED
    BY <1>1, <1>3, <2>1, <2>2
<1>9. Cardinality(got) < Limit => Len(files[f]) < n
  BY <1>1, <1>3, <1>4
<1>10. ASSUME ~done PROVE SigQuery' /\ query' \in Queries
  <2>1. query'.todo = todo /\ query'.got = got /\ query'.seen = seen
    BY <1>2, <1>10
  <2>2. Cardinality(got) < Limit /\ Len(files[f]) < n
    <3>1. Cardinality(N) \in Nat
      BY <1>3
    <3> QED
      BY <1>3, <1>4, <1>9, <1>10, <3>1
  <2>3. \A p \in got : p[1] >= f /\ p[1] \in Int
    BY <1>1, <1>3, <1>4, <1>6
  <2>4. ASSUME NEW g \in todo PROVE g < f /\ g \in Int
    <3>1. g \in query.todo /\ g # f
      BY <1>1
    <3>2. g \in Int /\ f \in Int /\ g <= f
      BY <1>2, <1>4, <3>1
    <3> QED
      BY <3>1, <3>2
  <2>5. \A p \in got : \A g \in todo : g < p[1]
    BY <1>4, <2>3, <2>4
  <2>6. View(query.seen)' = View(seen)
    BY <1>2, <2>1 DEF View
  <2>7. Places(View(query.seen))' = Places(View(seen))
    BY <2>6 DEF Places
  <2>8. SigQuery'
    BY <1>2, <1>3, <1>8, <2>1, <2>2, <2>5, <2>7 DEF SigQuery
  <2>9. query' \in Queries
    <3>1. todo \subseteq Files
      BY <1>1, <1>4
    <3>2. ASSUME NEW p \in got PROVE p \in Files \X Nat
      <4>1. p = <<p[1], p[2]>> /\ p[1] \in Files /\ p[2] \in DOMAIN files[p[1]]
        BY <1>3, <1>5, <1>6, <3>2, SlotFacts
      <4>2. p[2] \in Nat
        BY <4>1
      <4> QED
        BY <4>1, <4>2
    <3> QED
      BY <1>2, <1>3, <1>10, <3>1, <3>2 DEF Queries
  <2> QED
    BY <2>8, <2>9
<1>11. ASSUME done PROVE SigQuery' /\ query' \in Queries
  BY <1>2, <1>11, QueryStays
<1>12. ASSUME done, Legible(View(seen)) PROVE AreNewest(got, View(seen))
  <2> DEFINE P == Places(View(seen))
  <2>1. IsFiniteSet(P) /\ Total(View(seen)) = Cardinality(P) /\ Cardinality(P) \in Nat /\ Cardinality(got) <= Cardinality(P)
    BY <1>3, <1>5, SlotFacts, FS_Subset DEF Total
  <2>2. Cardinality(N) \in Nat /\ Cardinality(got) <= Limit /\ Cardinality(got) \in Nat
    BY <1>1, <1>3, <1>4
  <2>3. Cardinality(got) = IF Total(View(seen)) < Limit THEN Total(View(seen)) ELSE Limit
    <3>1. CASE Cardinality(got) < Limit
      <4>1. todo = {} /\ Len(files[f]) < n
        BY <1>3, <1>4, <1>9, <1>12, <2>2, <3>1
      <4>2. P \subseteq got
        BY <1>8, <4>1
      <4>3. P = got
        BY <1>3, <4>2
      <4> QED
        BY <2>1, <3>1, <4>3
    <3>2. CASE ~(Cardinality(got) < Limit)
      <4>1. Cardinality(got) = Limit
        BY <1>3, <1>4, <2>2, <3>2
      <4> QED
        BY <1>4, <2>1, <4>1
    <3> QED
      BY <3>1, <3>2
  <2>4. ASSUME NEW p \in got, NEW q \in P \ got PROVE ~Older(RecordAt(p), RecordAt(q))
    <3>1. p \in P /\ q \in P
      BY <1>3
    <3>2. /\ p = <<p[1], p[2]>> /\ p[1] \in Files /\ p[2] \in DOMAIN View(seen)[p[1]] /\ p[1] \in Int
          /\ q = <<q[1], q[2]>> /\ q[1] \in Files /\ q[2] \in DOMAIN View(seen)[q[1]] /\ q[1] \in Int
          /\ At(View(seen), p) = RecordAt(p) /\ At(View(seen), q) = RecordAt(q)
      BY <1>5, <1>6, <3>1
    <3>3. RecordAt(p) = View(seen)[p[1]][p[2]] /\ RecordAt(q) = View(seen)[q[1]][q[2]]
      BY <3>2 DEF At
    <3>4. q[1] <= f /\ p[1] >= f
      <4>1. q \notin query.got
        BY <1>1, <2>4
      <4>2. p \in query.got \/ p[1] = f
        BY <1>1, <2>4
      <4>3. q[1] < f \/ q[1] = f
        BY <1>3, <3>1, <4>1
      <4>4. p[1] > f \/ p[1] = f
        BY <1>3, <4>2
      <4> QED
        BY <1>4, <3>2, <4>3, <4>4
    <3>5. CASE q[1] < p[1]
      <4>1. RecordAt(p) \in Range(View(seen)[p[1]]) /\ RecordAt(q) \in Range(View(seen)[q[1]])
        BY <3>2, <3>3 DEF Range
      <4> QED
        BY <1>12, <3>2, <3>5, <4>1 DEF Legible
    <3>6. CASE q[1] = f /\ p[1] = f
      <4>1. PICK s \in Seq(Record) : s = files[f]
        OBVIOUS
      <4>2. View(seen)[f] = s /\ p[2] \in N /\ q[2] \in DOMAIN s \ N
        BY <1>3, <1>7, <2>4, <3>1, <3>2, <3>6, <4>1
      <4>3. InOrder(s, DOMAIN s) \/ ~InOrder(s, LastOf(s, n))
        <5>1. InOrder(s, DOMAIN s) \/ (f = Active /\ ~InOrder(s, LastOf(s, Limit)))
          BY <1>12, <4>2 DEF Legible
        <5>2. f = Active => n = Limit
          <6>1. f = Active => Cardinality(query.got) = 0
            BY <1>3, FS_EmptySet
          <6> QED
            BY <1>1, <1>4, <6>1
        <5> QED
          BY <5>1, <5>2
      <4>4. N = NewestOf(s, n) /\ n \in Int
        BY <1>1, <1>3, <4>1
      <4>5. ~Older(s[p[2]], s[q[2]])
        <5>1. PICK i, j : i = p[2] /\ j = q[2]
          OBVIOUS
        <5>2. i \in NewestOf(s, n) /\ j \in DOMAIN s \ NewestOf(s, n)
          BY <4>2, <4>4, <5>1
        <5>3. ~Older(s[i], s[j])
          BY <4>3, <4>4, <5>2, NewestOlder
        <5> QED
          BY <5>1, <5>3
      <4> QED
        BY <3>3, <3>6, <4>2, <4>5
    <3> QED
      BY <1>4, <3>2, <3>4, <3>5, <3>6
  <2> QED
    BY <2>3, <2>4 DEF AreNewest
<1>13. missed' = missed
  <2>1. missed \in BOOLEAN
    BY DEF SignalsTypeOK
  <2> HIDE DEF done
  <2> QED
    BY <1>2, <1>12, <2>1
<1>14. SigQuery' /\ query' \in Queries /\ clock' \in clock .. MaxClock
  BY <1>2, <1>10, <1>11
<1> QED
  BY <1>2, <1>13, <1>14, WaitKeeps

-----------------------------------------------------------------------------
\* The inductive invariant holds at the start.
LEMMA SignalsStart == SignalsInit => SigInv
<1> SUFFICES ASSUME SignalsInit PROVE SigInv
  OBVIOUS
<1>1. FilesOK(files) /\ files = [f \in Files |-> <<>>] /\ \A f \in Files : files[f] = <<>> /\ Range(files[f]) = {}
  BY DEF SignalsInit, FilesOK, Range
<1>2. OnDisk = {} /\ Places(files) = {} /\ Total(files) = 0
  <2>1. OnDisk = {}
    BY <1>1 DEF OnDisk, Stored
  <2>2. Places(files) = {}
    BY <1>1, SlotFacts
  <2> QED
    BY <2>1, <2>2, FS_EmptySet DEF Total
<1>3. /\ wr \in [Writers -> [pc : Pcs, rec : Record]]
      /\ \A w \in Writers : wr[w].pc = "idle" /\ wr[w].rec.n = 0
  <2>1. NoRecord \in Record /\ NoRecord.n = 0 /\ "idle" \in Pcs
    BY SignalsAssumption DEF NoRecord, Record, Pcs
  <2> QED
    BY <2>1 DEF SignalsInit
<1>4. Base = files
  BY <1>3 DEF Base, BaseOf, Halfway
<1>5. IsFiniteSet({})
  BY FS_EmptySet
<1>6. SigTypes
  <2>1. query \in Queries
    BY DEF SignalsInit, NoQuery, Queries
  <2>2. activeDay \in 0 .. Unknown /\ ragged \subseteq Files /\ lock = Nobody /\ Nobody \notin Writers
    BY SignalsAssumption, FileFacts DEF SignalsInit
  <2>3. \A w \in Writers : wr[w].pc \in {"copy", "remove", "append", "govern"} <=> lock = w
    BY <1>3, <2>2
  <2>4. files \in [Files -> Seq(Record)]
    BY <1>1 DEF FilesOK
  <2>5. SignalsTypeOK
    <3>1. /\ clock \in 0 .. MaxClock /\ counted \in Nat /\ nextID \in 0 .. MaxWrites /\ mishaps \in 0 .. MaxMishaps
          /\ stamped \in 0 .. MaxWrites /\ written \subseteq Record
      BY SignalsAssumption DEF SignalsInit
    <3>2. /\ late \in BOOLEAN /\ doubled \in BOOLEAN /\ torn \in BOOLEAN /\ stale \in BOOLEAN /\ missed \in BOOLEAN
      BY DEF SignalsInit
    <3>3. query \in [todo : SUBSET Files, got : SUBSET (Files \X Nat), seen : Nat]
      BY <2>1 DEF Queries
    <3>4. lock \in Writers \cup {Nobody}
      BY <2>2
    <3> QED
      BY <2>2, <2>3, <2>4, <3>1, <3>2, <3>3, <3>4, Zenon DEF SignalsTypeOK
  <2> QED
    BY <1>1, <1>2, <1>3, <1>5, <2>5 DEF SignalsInit, SigTypes
<1>7. SigNumbers
  BY <1>2, <1>3 DEF SignalsInit, SigNumbers, Holding
<1>8. SigDays
  BY <1>1, <1>3, FileFacts DEF SignalsInit, SigDays
<1>9. SigCounted
  BY <1>2, <1>4 DEF SignalsInit, SigCounted, Apart, OnDisk
<1>10. SigOrdered
  BY <1>1, <1>4, FileFacts DEF SignalsInit, SigOrdered, InFiles, Topped, DaysRise
<1>11. SigQuery
  BY DEF SignalsInit, SigQuery, NoQuery
<1> QED
  BY <1>6, <1>7, <1>8, <1>9, <1>10, <1>11 DEF SignalsInit, SigInv, OnlyOldGone

\* Every step keeps the inductive invariant.
LEMMA SignalsStep == SigInv /\ [SignalsNext]_signalVars => SigInv'
<1> SUFFICES ASSUME SigInv, [SignalsNext]_signalVars PROVE SigInv'
  OBVIOUS
<1>1. ASSUME NEW w \in Writers, WriterStep(w) PROVE SigInv'
  BY <1>1, StampKeeps, BeginAppendKeeps, CopyActiveKeeps, RemoveActiveKeeps, AppendRecordKeeps,
     RunRetentionKeeps, GovernKeeps, FileFailsKeeps DEF WriterStep
<1>2. CASE Tick \/ UNCHANGED signalVars
  <2>1. clock' \in clock .. MaxClock /\ query' = query /\ files' = files
    BY <1>2, StateFacts DEF Tick, signalVars, SignalsTypeOK
  <2>2. SigQuery' /\ query' \in Queries
    BY <2>1, QueryStays, StateFacts
  <2> QED
    BY <1>2, <2>1, <2>2, WaitKeeps DEF Tick, signalVars
<1> QED
  BY <1>1, <1>2, SignalsCrashKeeps, ListFilesKeeps, ReadFileKeeps DEF SignalsNext

\* The inductive invariant says what SignalsSound says.
LEMMA SignalsEnough == SigInv => SignalsSound
<1> SUFFICES ASSUME SigInv PROVE SignalsSound
  OBVIOUS
<1> USE StateFacts
<1>1. FiledOnce
  <2>1. ASSUME ~doubled, \A w \in Writers : wr[w].pc # "remove" PROVE Cardinality(OnDisk) = Total(files)
    <3>1. Base = files
      BY <2>1 DEF Base, BaseOf, Halfway
    <3>2. Apart(files)
      BY <2>1, <3>1 DEF SigCounted
    <3> QED
      BY <3>2, ApartTotal DEF OnDisk
  <2> QED
    BY <2>1 DEF FiledOnce, SigDays
<1>2. CountsMatch
  <2>1. ASSUME ~stale, lock = Nobody PROVE counted = Total(files)
    <3>1. Base = files
      BY <2>1, NotHalfway
    <3> QED
      BY <2>1, <3>1 DEF SigCounted
  <2> QED
    BY <2>1 DEF CountsMatch
<1> QED
  BY <1>1, <1>2 DEF SignalsSound, NewestReturned

\* The signal files of the observability store, for any number of writers, days,
\* records, crashes and failed writes, wherever these cut a rotation, an append or
\* a trimming off, and any retention, size limit and query limit: a record leaves
\* the disk only when it is too old or the size limit is full of records that are
\* not older, is in one place, is counted once, and a limited query, which reads
\* one file after the other while records are appended, returns the newest ones;
\* the exceptions are those that the parts of SignalsSound name.
THEOREM SignalsCorrect == SignalsSpec => []SignalsSound
<1>1. SignalsSpec => []SigInv
  BY SignalsStart, SignalsStep, PTL DEF SignalsSpec
<1> QED
  BY <1>1, SignalsEnough, PTL
=============================================================================
