----------------------------- MODULE BatchRuns -----------------------------
(***************************************************************************)
(* The batch controller of hybrid_planner/batch_console.py: one runner     *)
(* process whose main thread hands jobs to a thread pool, each worker      *)
(* running one planner child; the markers and the result table it leaves   *)
(* on disk; and the runs that follow it on the same output directory, with *)
(* or without --resume, also after the runner was killed.                  *)
(*                                                                         *)
(* A marker or a row is the status it holds, "timeout" standing for every  *)
(* expected status but "plan_found".                                       *)
(***************************************************************************)
EXTENDS Integers, FiniteSets

CONSTANTS
    Jobs,          \* 1..n: JobSpec.index, the order of the manifest
    Live,          \* the jobs of mode "live"
    Parallelism,
    MaxRuns,       \* bound: starts of the runner
    MaxFaults      \* bound: failures of the runner's own system calls

ASSUME BatchAssumption ==
    /\ IsFiniteSet(Jobs) /\ Jobs = 1..Cardinality(Jobs)
    /\ Live \subseteq Jobs
    /\ {Parallelism, MaxRuns} \subseteq Nat \ {0}
    /\ MaxFaults \in Nat

VARIABLES
    main,      \* where main() is; "down": there is no runner process
    code,      \* exit code main() is going to return
    exit,      \* exit code of the last run
    step,      \* of each job in this run: of its future and its worker
    status,    \* the JobResult of each job known to its worker
    results,   \* main's list: the status of the jobs it holds
    active,    \* BatchJobRunner._active
    alive,     \* of each job, the runs whose child is still running
    doomed,    \* jobs whose child of this run has been sent SIGTERM
    marker,    \* job_result.json of each job
    row,       \* the job's row in batch_results.csv
    service,   \* vLLM: "off", "own" (self.process), "orphan"
    run,       \* starts of the runner so far
    resumed,   \* --resume of this run
    interrupted, \* history: this run met a KeyboardInterrupt
    faults

vars == <<main, code, exit, step, status, results, active, alive, doomed,
          marker, row, service, run, resumed, interrupted, faults>>

disk     == <<marker, row>>
children == <<alive, doomed>>
workers  == <<step, status, active>>
history  == <<run, resumed, interrupted>>

(* RESUMABLE_STATUSES, the values of EXPECTED_PLANNER_STATUSES.            *)
Resumable == {"plan_found", "timeout"}
Statuses  == Resumable \cup {"failed"}

Pending == {j \in Jobs : step[j] # "absent"}
Running == {j \in Jobs :
              step[j] \in {"prepare", "launched", "reading", "leave", "write"}}

(* Variant: as_completed's loop passes over a future that raised.          *)
SettledOnlyIfDone == {j \in Jobs : step[j] = "done"}

Settled == {j \in Jobs : step[j] \in {"done", "raised"}}

(* Variant: only a plan counts as a result worth keeping.                  *)
ReusableIfSolved == {j \in Jobs : marker[j] = "plan_found"}

(* partition_resumable_jobs: the jobs whose marker a run may reuse.        *)
Reusable == {j \in Jobs : marker[j] \in Resumable}

----------------------------------------------------------------------------
(* main() up to the pool.                                                  *)

Init ==
    /\ main = "down" /\ code = "none"
    /\ step = [j \in Jobs |-> "absent"]
    /\ status = [j \in Jobs |-> "none"]
    /\ results = [j \in Jobs |-> "none"]
    /\ active = {} /\ doomed = {}
    /\ exit = "none"
    /\ alive = [j \in Jobs |-> {}]
    /\ marker = [j \in Jobs |-> "none"]
    /\ row = [j \in Jobs |-> "none"]
    /\ service = "off"
    /\ run = 0 /\ resumed = FALSE /\ interrupted = FALSE /\ faults = 0

(* Variant: the table is left alone until the end.                         *)
FirstRowsKept(completed) == row' = row

(* The table is written before the first job starts, with what is reused.  *)
FirstRows(completed) ==
    row' = [j \in Jobs |-> IF j \in completed THEN marker[j] ELSE "none"]

Start(resume) ==
    LET completed == IF resume THEN Reusable ELSE {}
    IN  /\ main = "down" /\ run < MaxRuns
        /\ run' = run + 1 /\ resumed' = resume /\ interrupted' = FALSE
        /\ main' = IF Live \ completed # {} THEN "service" ELSE "submit"
        /\ step' = [j \in Jobs |->
                      IF j \in completed THEN "absent" ELSE "pending"]
        /\ status' = [j \in Jobs |-> "none"]
        /\ results' = [j \in Jobs |->
                         IF j \in completed THEN marker[j] ELSE "none"]
        /\ FirstRows(completed)
        /\ active' = {} /\ doomed' = {}
        /\ code' = "none" /\ exit' = "none"
        /\ UNCHANGED <<alive, marker, service, faults>>

(* service.start() and wait_until_ready().  A service that outlived the    *)
(* run before answers for the new one, which cannot bind its port.         *)
StartService ==
    /\ main = "service"
    /\ main' = "submit"
    /\ service' = IF service = "off" THEN "own" ELSE service
    /\ UNCHANGED <<code, exit, workers, results, children, disk, history,
                   faults>>

(* It raises instead: main's finally clause runs, then the traceback.      *)
ServiceFails ==
    /\ main = "service"
    /\ faults < MaxFaults /\ faults' = faults + 1
    /\ main' = "stop_service" /\ code' = "1"
    /\ service' \in (IF service = "off" THEN {"off", "own"} ELSE {service})
    /\ UNCHANGED <<exit, workers, results, children, disk, history>>

SubmitJobs ==
    /\ main = "submit"
    /\ main' = "pool"
    /\ step' = [j \in Jobs |->
                  IF step[j] = "pending" THEN "queued" ELSE step[j]]
    /\ UNCHANGED <<code, exit, status, results, active, children, disk,
                   service, history, faults>>

----------------------------------------------------------------------------
(* A worker: BatchJobRunner.__call__ on one job.                           *)

Advance(j, to) == step' = [step EXCEPT ![j] = to]
Fault == faults < MaxFaults /\ faults' = faults + 1

TakeJob(j) ==
    /\ step[j] = "queued"
    /\ \A k \in Jobs : step[k] = "queued" => j <= k
    /\ Cardinality(Running) < Parallelism
    /\ Advance(j, "prepare")
    /\ UNCHANGED <<main, code, exit, status, results, active, children, disk,
                   service, history, faults>>

(* mkdir or the write of job.json raises, before the try.                  *)
PrepareRaises(j) ==
    /\ step[j] = "prepare" /\ Fault
    /\ Advance(j, "raised")
    /\ UNCHANGED <<main, code, exit, status, results, active, children, disk,
                   service, history>>

(* Popen.  The child runs before the worker has put it into _active.       *)
Launch(j) ==
    /\ step[j] = "prepare"
    /\ Advance(j, "launched")
    /\ alive' = [alive EXCEPT ![j] = @ \cup {run}]
    /\ UNCHANGED <<main, code, exit, status, results, active, doomed, disk,
                   service, history, faults>>

(* console.log cannot be opened or Popen raises: no child, no _active.     *)
LaunchFails(j) ==
    /\ step[j] = "prepare" /\ Fault
    /\ Advance(j, "write")
    /\ status' = [status EXCEPT ![j] = "failed"]
    /\ UNCHANGED <<main, code, exit, results, active, children, disk, service,
                   history>>

Register(j) ==
    /\ step[j] = "launched"
    /\ Advance(j, "reading")
    /\ active' = active \cup {j}
    /\ UNCHANGED <<main, code, exit, status, results, children, disk, service,
                   history, faults>>

(* The child ends by itself, or of the signal.  Its code is kept for       *)
(* process.wait(); classify_return_code maps it to a status.               *)
ChildEnds(j) ==
    /\ main # "down" /\ run \in alive[j]
    /\ alive' = [alive EXCEPT ![j] = @ \ {run}]
    /\ status' \in {[status EXCEPT ![j] = s] :
                      s \in IF step[j] \notin {"launched", "reading"}
                            THEN {status[j]}
                            ELSE IF j \in doomed THEN {"failed"} ELSE Statuses}
    /\ UNCHANGED <<main, code, exit, step, results, active, doomed, disk,
                   service, history, faults>>

(* End of the child's output, then wait().                                 *)
ReadToEnd(j) ==
    /\ step[j] = "reading" /\ run \notin alive[j]
    /\ Advance(j, "leave")
    /\ UNCHANGED <<main, code, exit, status, results, active, children, disk,
                   service, history, faults>>

(* A line cannot be decoded, logged or printed: the worker leaves the try  *)
(* block with an error, and the child to itself.                           *)
ReadRaises(j) ==
    /\ step[j] = "reading" /\ Fault
    /\ Advance(j, "leave")
    /\ status' = [status EXCEPT ![j] = "failed"]
    /\ UNCHANGED <<main, code, exit, results, active, children, disk, service,
                   history>>

Leave(j) ==
    /\ step[j] = "leave"
    /\ Advance(j, "write")
    /\ active' = active \ {j}
    /\ UNCHANGED <<main, code, exit, status, results, children, disk, service,
                   history, faults>>

(* write_job_result replaces the marker atomically.                        *)
WriteMarker(j) ==
    /\ step[j] = "write"
    /\ Advance(j, "done")
    /\ marker' = [marker EXCEPT ![j] = status[j]]
    /\ UNCHANGED <<main, code, exit, status, results, active, children, row,
                   service, history, faults>>

WriteRaises(j) ==
    /\ step[j] = "write" /\ Fault
    /\ Advance(j, "raised")
    /\ UNCHANGED <<main, code, exit, status, results, active, children, disk,
                   service, history>>

Work(j) ==
    \/ TakeJob(j) \/ PrepareRaises(j) \/ Launch(j) \/ LaunchFails(j)
    \/ Register(j) \/ ReadToEnd(j) \/ ReadRaises(j) \/ Leave(j)
    \/ WriteMarker(j) \/ WriteRaises(j)

----------------------------------------------------------------------------
(* run_parallel_jobs and the end of main().                                *)

(* executor.shutdown(wait=False, cancel_futures=True).                     *)
CancelQueued ==
    step' = [j \in Jobs |->
               IF step[j] \in {"queued", "pending"} THEN "cancelled"
               ELSE step[j]]

(* as_completed yields the futures as they end.  Only when all of them     *)
(* gave a result does main's list take them up.                            *)
AllSettled ==
    /\ main = "pool" /\ \A j \in Pending : step[j] = "done"
    /\ results' = [j \in Jobs |->
                     IF j \in Pending THEN status[j] ELSE results[j]]
    /\ main' = "stop_service"
    /\ UNCHANGED <<code, exit, workers, children, disk, service, history,
                   faults>>

(* future.result() raises in main: the jobs that run are not waited for.   *)
JobRaised(j) ==
    /\ main = "pool" /\ j \in Settled /\ step[j] = "raised"
    /\ CancelQueued
    /\ main' = "stop_service" /\ code' = "1"
    /\ UNCHANGED <<exit, status, results, active, children, disk, service,
                   history, faults>>

(* KeyboardInterrupt in the try of main(), once in a run.                  *)
Interrupt ==
    /\ main \in {"service", "submit", "pool"}
    /\ CancelQueued
    /\ service' \in (IF main = "service" /\ service = "off"
                     THEN {"off", "own"} ELSE {service})
    /\ main' = "stop_all" /\ interrupted' = TRUE
    /\ UNCHANGED <<code, exit, status, results, active, children, disk,
                   run, resumed, faults>>

(* runner.stop_all: the children its workers have registered.              *)
StopAll ==
    /\ main = "stop_all"
    /\ doomed' = doomed \cup {j \in active : run \in alive[j]}
    /\ main' = "stop_service"
    /\ UNCHANGED <<code, exit, workers, results, alive, disk, service,
                   history, faults>>

(* VLLMService.stop returns when the process it owns has ended.            *)
StopService ==
    /\ main = "stop_service"
    /\ service' = IF service = "own" THEN "off" ELSE service
    /\ main' = "rows"
    /\ UNCHANGED <<code, exit, workers, results, children, disk, history,
                   faults>>

(* Variant: the number of results is not compared with that of the jobs.   *)
ExitCodeByFailures ==
    IF \E j \in Jobs : results[j] = "failed" THEN "1" ELSE "0"

(* The exit code, unless main is left by an exception.                     *)
ExitCode ==
    IF \E j \in Jobs : results[j] \in {"failed", "none"} THEN "1" ELSE "0"

WriteRows ==
    /\ main = "rows"
    /\ row' = results
    /\ code' = IF code = "1" THEN "1" ELSE ExitCode
    /\ main' = "exit"
    /\ UNCHANGED <<exit, workers, results, children, marker, service, history,
                   faults>>

(* What the runner held in memory is gone.                                 *)
ProcessEnds ==
    /\ main' = "down" /\ code' = "none"
    /\ step' = [j \in Jobs |-> "absent"]
    /\ status' = [j \in Jobs |-> "none"]
    /\ results' = [j \in Jobs |-> "none"]
    /\ active' = {} /\ doomed' = {}

(* The interpreter joins the pool's threads before the process ends.       *)
Leaves ==
    /\ main = "exit" /\ Running = {}
    /\ exit' = code
    /\ ProcessEnds
    /\ UNCHANGED <<service, alive, disk, history, faults>>

(* SIGKILL: the children and the service live on.                          *)
Kill ==
    /\ main # "down"
    /\ exit' = "killed"
    /\ ProcessEnds
    /\ service' = IF service = "own" THEN "orphan" ELSE service
    /\ UNCHANGED <<alive, disk, history, faults>>

(* A child without a runner, or of an earlier run, ends unnoticed.         *)
OrphanEnds(j, r) ==
    /\ r \in alive[j] /\ (main = "down" \/ r # run)
    /\ alive' = [alive EXCEPT ![j] = @ \ {r}]
    /\ UNCHANGED <<main, code, exit, workers, results, doomed, disk, service,
                   history, faults>>

Main ==
    \/ StartService \/ ServiceFails \/ SubmitJobs \/ AllSettled
    \/ (\E j \in Jobs : JobRaised(j))
    \/ StopAll \/ StopService \/ WriteRows \/ Leaves

Next ==
    \/ \E resume \in BOOLEAN : Start(resume)
    \/ Main \/ Interrupt \/ Kill
    \/ \E j \in Jobs : Work(j) \/ ChildEnds(j)
    \/ \E j \in Jobs, r \in 1..MaxRuns : OrphanEnds(j, r)

Spec == Init /\ [][Next]_vars

(* The threads of a live process run on, and a planner ends within its     *)
(* --search-time-limit.  Nobody has to start, interrupt or kill a run.     *)
FairSpec ==
    /\ Spec
    /\ WF_vars(Main)
    /\ \A j \in Jobs : WF_vars(Work(j)) /\ WF_vars(ChildEnds(j))

----------------------------------------------------------------------------
(* Exit code 0 is the whole truth: every job has a marker that a later run *)
(* would reuse, the table agrees with it, and nothing this run started is  *)
(* running any more (return 1 if failures or len(results) != len(jobs)).   *)
ExitZeroIsTrue ==
    exit = "0" => /\ \A j \in Jobs : /\ marker[j] \in {"plan_found", "timeout"}
                                     /\ row[j] = marker[j]
                                     /\ run \notin alive[j]
                  /\ service # "own"

(* No row of batch_results.csv tells anything but the job's marker, across *)
(* interrupts, kills and later runs: the table is cut back before a job    *)
(* runs again and takes up only results whose marker was written.          *)
RowsAreMarkers == \A j \in Jobs : row[j] # "none" => row[j] = marker[j]

(* What an earlier run finished, a run with --resume neither runs again    *)
(* nor overwrites; nor does a run repeat a job of its own.                 *)
FinishedStaysFinished ==
    [][\A j \in Jobs :
         resumed' /\ marker[j] \in {"plan_found", "timeout"}
           => marker'[j] = marker[j] /\ alive'[j] \subseteq alive[j]]_vars

(* A runner ends: no failure of a job, of the service or of a system call, *)
(* and no interrupt, leaves main() waiting for a future or a thread.       *)
BatchEnds == main # "down" ~> main = "down"

(* batch_console.py:7 says that one persistent vLLM service is shared by   *)
(* all live jobs in a batch: a live job whose worker is at it, in a run    *)
(* nobody interrupted, has the service.                                    *)
ServiceOutlivesLiveJobs ==
    \A j \in Live :
        step[j] \in {"launched", "reading"} /\ run \in alive[j]
          => interrupted \/ service # "off"
=============================================================================
