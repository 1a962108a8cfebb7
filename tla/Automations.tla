---------------------------- MODULE Automations -----------------------------
(***************************************************************************)
(* The automation manager: jobs that a scheduler or an operator runs.  It  *)
(* keeps a configuration and a run state in memory and in two files.       *)
(* Editors copy both under the lock, change the copy, write the files and  *)
(* only then take the lock again to install the copy; a run works on the   *)
(* copy of its job that was taken when it was asked for.  The process may  *)
(* die anywhere and reloads the files when it starts.                      *)
(***************************************************************************)
EXTENDS Naturals, FiniteSets

CONSTANTS
    Jobs,        \* job ids
    JobInputs,   \* the jobs an operator may submit, normalised
    Absent,      \* no job, no state
    Editors,     \* requests that may change the configuration at a time
    Sched,       \* bound: goroutines of the scheduler per job
    Manual,      \* bound: concurrent "run now" requests per job
    MaxEdits,    \* bound: accepted edits
    MaxFaults    \* bound: crashes and failed writes

\* schedule "never": a cron expression that is valid and matches no date
Job == [enabled : BOOLEAN, auto : BOOLEAN, schedule : {"recurring", "never"}, attempts : 1..5]

ASSUME AutomationsAssumption ==
    /\ JobInputs \subseteq Job
    /\ Absent \notin Job
    /\ Sched \cap Manual = {}
    /\ MaxEdits \in Nat /\ MaxFaults \in Nat

Slots    == Sched \cup Manual
Outcome  == {"completed", "failed", "blocked"}
JobState == [status : {"enabled", "disabled", "running"} \cup Outcome,
             next : {"none", "later", "due"},
             last : {"none", "running"} \cup Outcome]

ASSUME AbsentNoState == Absent \notin JobState

Config == [Jobs -> Job \cup {Absent}]
State  == [Jobs -> JobState \cup {Absent}]

VARIABLES
    up,         \* the process runs
    config,     \* memory: Manager.config
    state,      \* memory: Manager.state
    running,    \* memory: Manager.runningJobs
    cfgFile,    \* the configuration file
    stateFile,  \* its .state.yaml
    edit,       \* Editors -> progress of Upsert or SetEnabled: [pc, job, cfg, st]
    pc,         \* Jobs -> Slots -> progress of runJob
    run,        \* Jobs -> Slots -> [job: the copy it works on, n: attempt, status]
    acked,      \* history: Jobs -> value of the last edit that succeeded
    loose,      \* history: Jobs -> values of later edits that failed half-way
    cleared,    \* history: jobs whose last recorded run left no next run
    edits, faults

vars == <<up, config, state, running, cfgFile, stateFile, edit, pc, run, acked, loose, cleared,
          edits, faults>>

EditStep == {"idle", "write_config", "write_state", "swap"}
Body     == {"mark_started", "execute", "backoff", "mark_finished", "finish"}

Run == [job : Job \cup {Absent}, n : 0..5, status : {"running"} \cup Outcome]

StoreType ==
    /\ up \in BOOLEAN
    /\ config \in Config /\ cfgFile \in Config
    /\ state \in State /\ stateFile \in State
    /\ acked \in Config
    /\ loose \in [Jobs -> SUBSET Job]
    /\ cleared \subseteq Jobs
    /\ edits \in Nat /\ faults \in Nat

EditType ==
    /\ edit \in [Editors -> [pc : EditStep, job : Jobs \cup {Absent}, cfg : Config, st : State]]
    /\ \A e \in Editors : edit[e].pc # "idle" => edit[e].job \in Jobs /\ edit[e].cfg[edit[e].job] \in Job

\* a run that has attempts left, one that is over
RunType ==
    /\ running \subseteq Jobs
    /\ pc \in [Jobs -> [Slots -> Body \cup {"free", "spawned"}]]
    /\ run \in [Jobs -> [Slots -> Run]]
    /\ \A j \in Jobs, k \in Slots :
        /\ pc[j][k] # "free" => run[j][k].job \in Job
        /\ pc[j][k] \in {"spawned", "mark_started", "execute", "backoff"} => run[j][k].n < run[j][k].job.attempts
        /\ pc[j][k] \in {"mark_finished", "finish"} => run[j][k].status # "running"

TypeOK == StoreType /\ EditType /\ RunType

Nothing   == [j \in Jobs |-> Absent]
NoEdit    == [pc |-> "idle", job |-> Absent, cfg |-> Nothing, st |-> Nothing]
NoRun     == [job |-> Absent, n |-> 0, status |-> "running"]
Unstarted == [j \in Jobs |-> [k \in Slots |-> "free"]]

Init ==
    /\ up = TRUE
    /\ config = Nothing /\ cfgFile = Nothing /\ acked = Nothing
    /\ state = Nothing /\ stateFile = Nothing
    /\ running = {}
    /\ edit = [e \in Editors |-> NoEdit]
    /\ pc = Unstarted
    /\ run = [j \in Jobs |-> [k \in Slots |-> NoRun]]
    /\ loose = [j \in Jobs |-> {}]
    /\ cleared = {}
    /\ edits = 0 /\ faults = 0

-----------------------------------------------------------------------------
(* The state of the jobs.                                                  *)

nextScheduleAfter(job) == IF job.schedule = "recurring" THEN "later" ELSE "none"

\* Mutant of syncState: a job that has a state already keeps its next run
syncState_KeepNext(prev, cfg) ==
    [j \in Jobs |->
        IF cfg[j] = Absent THEN Absent
        ELSE [status |-> IF cfg[j].enabled THEN "enabled" ELSE "disabled",
              next   |-> IF prev[j] # Absent THEN prev[j].next
                         ELSE IF cfg[j].enabled THEN nextScheduleAfter(cfg[j]) ELSE "none",
              last   |-> IF prev[j] = Absent THEN "none" ELSE prev[j].last]]

\* every job is scheduled anew, whichever of them was edited; the record of its
\* runs is kept
syncState(prev, cfg) ==
    [j \in Jobs |->
        IF cfg[j] = Absent THEN Absent
        ELSE [status |-> IF cfg[j].enabled THEN "enabled" ELSE "disabled",
              next   |-> IF cfg[j].enabled THEN nextScheduleAfter(cfg[j]) ELSE "none",
              last   |-> IF prev[j] = Absent THEN "none" ELSE prev[j].last]]

\* a write of a file may fail; faults bounds how often
Fault == faults < MaxFaults /\ faults' = faults + 1

\* the state of one job changes in memory and the file is rewritten under the
\* lock; an error of the write is dropped
updateState(j, s) ==
    /\ state' = [state EXCEPT ![j] = s]
    /\ cleared' = IF s.next = "none" THEN cleared \cup {j} ELSE cleared \ {j}
    /\ \/ stateFile' = state' /\ UNCHANGED faults
       \/ Fault /\ UNCHANGED stateFile

-----------------------------------------------------------------------------
(* Editing: Upsert and SetEnabled.                                         *)

Prepare(e, j, v) ==
    LET cfg == [config EXCEPT ![j] = v] IN
    /\ up /\ edit[e].pc = "idle" /\ edits < MaxEdits
    /\ edits' = edits + 1
    /\ edit' = [edit EXCEPT ![e] = [pc |-> "write_config", job |-> j, cfg |-> cfg, st |-> syncState(state, cfg)]]
    /\ UNCHANGED <<up, config, state, running, cfgFile, stateFile, pc, run, acked, loose, faults, cleared>>

Upsert(e, j) == \E v \in JobInputs : Prepare(e, j, v)

SetEnabled(e, j) ==
    /\ config[j] # Absent
    /\ \E b \in BOOLEAN : Prepare(e, j, [config[j] EXCEPT !.enabled = b])

EditTo(e, p) == edit' = [edit EXCEPT ![e] = [@ EXCEPT !.pc = p]]

\* Mutant of WriteConfig: the configuration is only kept in memory
WriteConfig_Skipped(e) ==
    /\ edit[e].pc = "write_config"
    /\ EditTo(e, "write_state")
    /\ UNCHANGED <<up, config, state, running, cfgFile, stateFile, pc, run, acked, loose, edits, faults, cleared>>

WriteConfig(e) ==
    /\ edit[e].pc = "write_config"
    /\ cfgFile' = edit[e].cfg
    /\ EditTo(e, "write_state")
    /\ UNCHANGED <<up, config, state, running, stateFile, pc, run, acked, loose, edits, faults, cleared>>

WriteState(e) ==
    /\ edit[e].pc = "write_state"
    /\ stateFile' = edit[e].st
    /\ EditTo(e, "swap")
    /\ UNCHANGED <<up, config, state, running, cfgFile, pc, run, acked, loose, edits, faults, cleared>>

\* the copy becomes the configuration and the state; the request is answered
Swap(e) ==
    /\ edit[e].pc = "swap"
    /\ config' = edit[e].cfg
    /\ state' = edit[e].st
    /\ acked' = [acked EXCEPT ![edit[e].job] = edit[e].cfg[edit[e].job]]
    /\ loose' = [loose EXCEPT ![edit[e].job] = {}]
    /\ cleared' = {}
    /\ edit' = [edit EXCEPT ![e] = NoEdit]
    /\ UNCHANGED <<up, running, cfgFile, stateFile, pc, run, edits, faults>>

\* the edits of E end without an answer of success; some are in the file already
Abandon(E) ==
    LET written == {e \in E : edit[e].pc \in {"write_state", "swap"}} IN
    /\ edit' = [e \in Editors |-> IF e \in E THEN NoEdit ELSE edit[e]]
    /\ loose' = [j \in Jobs |-> loose[j] \cup {edit[e].cfg[j] : e \in {d \in written : edit[d].job = j}}]

WriteFails(e) ==
    /\ edit[e].pc \in {"write_config", "write_state"}
    /\ Fault
    /\ Abandon({e})
    /\ UNCHANGED <<up, config, state, running, cfgFile, stateFile, pc, run, acked, edits, cleared>>

Edit(e) == WriteConfig(e) \/ WriteState(e) \/ Swap(e) \/ WriteFails(e)

-----------------------------------------------------------------------------
(* Running a job.                                                          *)

\* its time has come
BecomeDue(j) ==
    /\ up /\ state[j] # Absent /\ state[j].next = "later"
    /\ state' = [state EXCEPT ![j] = [@ EXCEPT !.next = "due"]]
    /\ UNCHANGED <<up, config, running, cfgFile, stateFile, edit, pc, run, acked, loose, edits, faults, cleared>>

Due == {j \in Jobs : /\ config[j] # Absent /\ config[j].enabled
                     /\ state[j] # Absent /\ state[j].next = "due"}

FreeSched(j) == {k \in Sched : pc[j][k] = "free"}

Spawned(job) == [job |-> job, n |-> 0, status |-> "running"]

\* one goroutine for each job that is due in one snapshot
RunDue ==
    LET D == {j \in Due : FreeSched(j) # {}}
        slot(j) == CHOOSE k \in FreeSched(j) : TRUE
    IN
    /\ up /\ D # {}
    /\ pc' = [j \in Jobs |-> IF j \in D THEN [pc[j] EXCEPT ![slot(j)] = "spawned"] ELSE pc[j]]
    /\ run' = [j \in Jobs |-> IF j \in D THEN [run[j] EXCEPT ![slot(j)] = Spawned(config[j])] ELSE run[j]]
    /\ UNCHANGED <<up, config, state, running, cfgFile, stateFile, edit, acked, loose, edits, faults, cleared>>

RunNow(j, k) ==
    /\ up /\ k \in Manual /\ pc[j][k] = "free" /\ config[j] # Absent
    /\ pc' = [pc EXCEPT ![j][k] = "spawned"]
    /\ run' = [run EXCEPT ![j][k] = Spawned(config[j])]
    /\ UNCHANGED <<up, config, state, running, cfgFile, stateFile, edit, acked, loose, edits, faults, cleared>>

\* Mutant of tryStartRun: a refused run releases the job when it returns
tryStartRun_Release(j, k) ==
    /\ pc[j][k] = "spawned"
    /\ IF j \in running
       THEN pc' = [pc EXCEPT ![j][k] = "free"] /\ running' = running \ {j}
       ELSE pc' = [pc EXCEPT ![j][k] = "mark_started"] /\ running' = running \cup {j}
    /\ UNCHANGED <<up, config, state, cfgFile, stateFile, edit, run, acked, loose, edits, faults, cleared>>

\* a job that is running already is not run: the caller gets an error
tryStartRun(j, k) ==
    /\ pc[j][k] = "spawned"
    /\ IF j \in running
       THEN pc' = [pc EXCEPT ![j][k] = "free"] /\ UNCHANGED running
       ELSE pc' = [pc EXCEPT ![j][k] = "mark_started"] /\ running' = running \cup {j}
    /\ UNCHANGED <<up, config, state, cfgFile, stateFile, edit, run, acked, loose, edits, faults, cleared>>

\* the next run follows from the schedule of the copy
markRunStarted(j, k) ==
    /\ pc[j][k] = "mark_started"
    /\ updateState(j, [status |-> "running", last |-> "running", next |-> nextScheduleAfter(run[j][k].job)])
    /\ pc' = [pc EXCEPT ![j][k] = "execute"]
    /\ UNCHANGED <<up, config, running, cfgFile, edit, run, acked, loose, edits>>

\* what one attempt may come to: only jobs whose governance policy is "auto"
\* execute anything, and a guarded step blocks them too
executeOnce(job) == IF job.auto THEN Outcome ELSE {"blocked"}

\* Mutant of shouldRetry: the last attempt is not recognised
shouldRetry_Always(r) == r.status = "failed"

\* only a failure is tried again, and only job.attempts times
shouldRetry(r) == r.status = "failed" /\ r.n < r.job.attempts

Attempt(j, k) ==
    /\ pc[j][k] = "execute"
    /\ \E s \in executeOnce(run[j][k].job) :
        LET r == [run[j][k] EXCEPT !.n = @ + 1, !.status = s] IN
        /\ run' = [run EXCEPT ![j][k] = r]
        /\ pc' = [pc EXCEPT ![j][k] = IF shouldRetry(r) THEN "backoff" ELSE "mark_finished"]
    /\ UNCHANGED <<up, config, state, running, cfgFile, stateFile, edit, acked, loose, edits, faults, cleared>>

\* the pause is over or the run's time is up; either way the loop goes on
Backoff(j, k) ==
    /\ pc[j][k] = "backoff"
    /\ pc' = [pc EXCEPT ![j][k] = "execute"]
    /\ UNCHANGED <<up, config, state, running, cfgFile, stateFile, edit, run, acked, loose, edits, faults, cleared>>

markRunFinished(j, k) ==
    /\ pc[j][k] = "mark_finished"
    /\ updateState(j, [status |-> run[j][k].status, last |-> run[j][k].status,
                       next |-> nextScheduleAfter(run[j][k].job)])
    /\ pc' = [pc EXCEPT ![j][k] = "finish"]
    /\ UNCHANGED <<up, config, running, cfgFile, edit, run, acked, loose, edits>>

\* Mutant of finishRun: the mark of the job is left behind
finishRun_Kept(j, k) ==
    /\ pc[j][k] = "finish"
    /\ pc' = [pc EXCEPT ![j][k] = "free"]
    /\ run' = [run EXCEPT ![j][k] = NoRun]
    /\ UNCHANGED <<up, config, state, running, cfgFile, stateFile, edit, acked, loose, edits, faults, cleared>>

finishRun(j, k) ==
    /\ pc[j][k] = "finish"
    /\ running' = running \ {j}
    /\ pc' = [pc EXCEPT ![j][k] = "free"]
    /\ run' = [run EXCEPT ![j][k] = NoRun]
    /\ UNCHANGED <<up, config, state, cfgFile, stateFile, edit, acked, loose, edits, faults, cleared>>

runJob(j, k) ==
    \/ tryStartRun(j, k) \/ markRunStarted(j, k) \/ Attempt(j, k)
    \/ Backoff(j, k) \/ markRunFinished(j, k) \/ finishRun(j, k)

-----------------------------------------------------------------------------
(* The life of the process.                                                *)

Crash ==
    /\ up /\ Fault
    /\ up' = FALSE
    /\ config' = Nothing /\ state' = Nothing /\ running' = {}
    /\ pc' = Unstarted
    /\ run' = [j \in Jobs |-> [k \in Slots |-> NoRun]]
    /\ Abandon(Editors)
    /\ UNCHANGED <<cfgFile, stateFile, acked, edits, cleared>>

Reload ==
    /\ ~up
    /\ up' = TRUE
    /\ config' = cfgFile
    /\ state' = syncState(stateFile, cfgFile)
    /\ cleared' = {}
    /\ UNCHANGED <<running, cfgFile, stateFile, edit, pc, run, acked, loose, edits, faults>>

-----------------------------------------------------------------------------
Next ==
    \/ \E e \in Editors : (\E j \in Jobs : Upsert(e, j) \/ SetEnabled(e, j)) \/ Edit(e)
    \/ \E j \in Jobs : BecomeDue(j)
    \/ RunDue
    \/ \E j \in Jobs, k \in Slots : RunNow(j, k) \/ runJob(j, k)
    \/ Crash
    \/ Reload

Spec == Init /\ [][Next]_vars

\* time passes, the scheduler ticks, goroutines and requests run on, a supervisor
\* restarts the process; nobody is obliged to edit or to run a job by hand
Fairness ==
    /\ \A j \in Jobs : WF_vars(BecomeDue(j))
    /\ WF_vars(RunDue)
    /\ \A j \in Jobs, k \in Slots : WF_vars(runJob(j, k))
    /\ \A e \in Editors : WF_vars(Edit(e))
    /\ WF_vars(Reload)

FairSpec == Spec /\ Fairness

-----------------------------------------------------------------------------
(* Properties.                                                             *)

\* The scheduler, a second tick, operators and stale snapshots never have two
\* runs of the same job inside runJob at a time.
OneRunPerJob ==
    \A j \in Jobs, k, l \in Slots : pc[j][k] \in Body /\ pc[j][l] \in Body => k = l

\* Runs stay within their attempts and never overlap another run of their job.
RunsExclusive == TypeOK /\ OneRunPerJob

\* manager_test.go, TestSyncState_NewJobAdded: an enabled job has a next run,
\* whatever edits, runs and restarts came in between; the one way to lose it is a
\* run that still worked on an older copy whose schedule matches no date and was
\* recorded after the edit.
EnabledScheduled ==
    \A j \in Jobs : config[j] # Absent /\ config[j].enabled /\ config[j].schedule = "recurring" =>
        state[j] # Absent /\ (state[j].next # "none" \/ j \in cleared)

\* An edit that was answered with success is in force, after a crash too, until
\* the job is edited again; an edit that failed may or may not have taken effect.
EditsKept ==
    up => \A j \in Jobs : config[j] = acked[j] \/ config[j] \in loose[j]

\* While it is enabled, a job is run again and again: no run, refused run, error,
\* crash or edit leaves it marked as running or unscheduled, but for the run of an
\* older copy that cleared its next run.
KeepsRunning ==
    \A j \in Jobs : []<>(~up \/ (\E k \in Slots : pc[j][k] = "execute") \/ config[j] = Absent
                            \/ ~config[j].enabled \/ config[j].schedule = "never" \/ j \in cleared)
=============================================================================
