-------------------------- MODULE BatchRunsProofs --------------------------
(***************************************************************************)
(* For every manifest, parallelism, number of runs and of failures: the    *)
(* result table never contradicts a marker, a run with --resume leaves     *)
(* what is finished alone, and exit code 0 is the whole truth.             *)
(***************************************************************************)
EXTENDS BatchRuns, TLAPS

(***************************************************************************)
(* The inductive invariant.                                                *)
(***************************************************************************)

MainPoints == {"down", "service", "submit", "pool", "stop_all",
               "stop_service", "rows", "exit"}

(* The steps from which a worker may still run the job, and those at which *)
(* nothing is left to do for it.                                           *)
Unfinished == {"pending", "queued", "prepare", "launched", "reading",
               "leave", "write"}
Settling   == {"leave", "write", "done", "raised"}
Steps      == Unfinished \cup {"absent", "done", "raised", "cancelled"}

BatchTypeOK ==
    /\ main \in MainPoints
    /\ code \in {"none", "0", "1"}
    /\ exit \in {"none", "0", "1", "killed"}
    /\ step \in [Jobs -> Steps]
    /\ status \in [Jobs -> Statuses \cup {"none"}]
    /\ results \in [Jobs -> Statuses \cup {"none"}]
    /\ marker \in [Jobs -> Statuses \cup {"none"}]
    /\ row \in [Jobs -> Statuses \cup {"none"}]
    /\ active \subseteq Jobs /\ doomed \subseteq Jobs
    /\ alive \in [Jobs -> SUBSET (1..run)]
    /\ service \in {"off", "own", "orphan"}
    /\ run \in Nat /\ (main # "down" => run > 0)
    /\ resumed \in BOOLEAN /\ interrupted \in BOOLEAN

(* A result in main's list or in the table is that of the marker, and its  *)
(* job is not at work; the marker of a job done in this run holds its      *)
(* status; a run with --resume works only on what has no marker to keep;   *)
(* and a child of this run is read, or its job has failed.                 *)
JobOK(j) ==
    /\ results[j] # "none" =>
           step[j] \in {"absent", "done"} /\ results[j] = marker[j]
    /\ row[j] # "none" => step[j] \in {"absent", "done"} /\ row[j] = marker[j]
    /\ step[j] = "done" => marker[j] = status[j]
    /\ resumed /\ step[j] \in Unfinished => marker[j] \notin Resumable
    /\ main # "down" /\ run \in alive[j] =>
           \/ step[j] \in {"launched", "reading"}
           \/ step[j] \in Settling /\ status[j] = "failed"
    /\ main = "down" => step[j] = "absent"

JobsOK == \A j \in Jobs : JobOK(j)

(* An exit code is decided once the rows are written, and stands only      *)
(* while there is no runner.                                               *)
MainOK ==
    /\ exit # "none" => main = "down"
    /\ main \in {"rows", "exit", "down"} => service # "own"
    /\ main = "exit" => row = results
    /\ code = "0" => main = "exit" /\ \A j \in Jobs : results[j] \in Resumable

IInv == BatchTypeOK /\ JobsOK /\ MainOK /\ ExitZeroIsTrue

----------------------------------------------------------------------------
(* Every step keeps the types.                                             *)
LEMMA InitTypeOK == Init => BatchTypeOK
<1> SUFFICES ASSUME Init PROVE BatchTypeOK
  OBVIOUS
<1>1. resumed \in BOOLEAN /\ interrupted \in BOOLEAN
  BY DEF Init
<1>2. /\ step \in [Jobs -> Steps] /\ alive \in [Jobs -> SUBSET (1..run)]
      /\ status \in [Jobs -> Statuses \cup {"none"}]
      /\ results \in [Jobs -> Statuses \cup {"none"}]
      /\ marker \in [Jobs -> Statuses \cup {"none"}]
      /\ row \in [Jobs -> Statuses \cup {"none"}]
  BY DEF Init, Steps
<1> QED
  BY <1>1, <1>2 DEF Init, BatchTypeOK, MainPoints

(* Every step of the runner and of its children keeps the types.           *)
LEMMA TypesNext == BatchTypeOK /\ JobsOK /\ [Next]_vars => BatchTypeOK'
<1> SUFFICES ASSUME BatchTypeOK, JobsOK, [Next]_vars PROVE BatchTypeOK'
  OBVIOUS
<1> USE DEF BatchTypeOK, MainPoints, workers, children, disk, history
<1>1. ASSUME NEW resume \in BOOLEAN, Start(resume) PROVE BatchTypeOK'
  <2>1. /\ step' \in [Jobs -> Steps]
        /\ status' \in [Jobs -> Statuses \cup {"none"}]
        /\ results' \in [Jobs -> Statuses \cup {"none"}]
        /\ row' \in [Jobs -> Statuses \cup {"none"}]
    BY <1>1 DEF Start, FirstRows, Steps, Unfinished
  <2>2. run' \in Nat /\ alive' \in [Jobs -> SUBSET (1..run')]
    <3>1. run' = run + 1 /\ alive' = alive
      BY <1>1 DEF Start
    <3>2. 1..run \subseteq 1..(run + 1)
      OBVIOUS
    <3> QED
      BY <3>1, <3>2
  <2>3. resumed' \in BOOLEAN /\ interrupted' \in BOOLEAN
    BY <1>1 DEF Start
  <2>4. main' \in MainPoints /\ run' > 0
    BY <1>1 DEF Start
  <2>5. /\ code' = "none" /\ exit' = "none" /\ active' = {} /\ doomed' = {}
        /\ UNCHANGED <<marker, service>>
    BY <1>1 DEF Start
  <2> QED
    BY <2>1, <2>2, <2>3, <2>4, <2>5
<1>2. CASE StartService \/ ServiceFails \/ StopService
  BY <1>2 DEF StartService, ServiceFails, StopService
<1>3. CASE SubmitJobs
  BY <1>3 DEF SubmitJobs, Steps, Unfinished
<1>4. CASE AllSettled
  BY <1>4 DEF AllSettled
<1>5. ASSUME NEW j \in Jobs, JobRaised(j) PROVE BatchTypeOK'
  BY <1>5 DEF JobRaised, CancelQueued, Steps
<1>6. CASE Interrupt
  BY <1>6 DEF Interrupt, CancelQueued, Steps
<1>7. CASE StopAll \/ WriteRows
  BY <1>7 DEF StopAll, WriteRows, ExitCode
<1>8. CASE Leaves \/ Kill
  BY <1>8 DEF Leaves, Kill, ProcessEnds, Steps
<1>9. ASSUME NEW j \in Jobs, TakeJob(j) \/ PrepareRaises(j) \/ ReadToEnd(j) \/ WriteRaises(j)
      PROVE  BatchTypeOK'
  BY <1>9 DEF TakeJob, PrepareRaises, ReadToEnd, WriteRaises, Advance, Steps, Unfinished
<1>10. ASSUME NEW j \in Jobs, Launch(j) PROVE BatchTypeOK'
  <2>1. run \in 1..run
    BY <1>10 DEF Launch, JobsOK, JobOK
  <2> QED
    BY <1>10, <2>1 DEF Launch, Advance, Steps, Unfinished
<1>11. ASSUME NEW j \in Jobs, LaunchFails(j) \/ ReadRaises(j) PROVE BatchTypeOK'
  BY <1>11 DEF LaunchFails, ReadRaises, Advance, Steps, Unfinished, Statuses
<1>12. ASSUME NEW j \in Jobs, Register(j) \/ Leave(j) PROVE BatchTypeOK'
  BY <1>12 DEF Register, Leave, Advance, Steps, Unfinished
<1>13. ASSUME NEW j \in Jobs, WriteMarker(j) PROVE BatchTypeOK'
  BY <1>13 DEF WriteMarker, Advance, Steps
<1>14. ASSUME NEW j \in Jobs, ChildEnds(j) PROVE BatchTypeOK'
  <2>1. PICK s \in Statuses \cup {"none"} : status' = [status EXCEPT ![j] = s]
    BY <1>14 DEF ChildEnds, Statuses
  <2> QED
    BY <1>14, <2>1 DEF ChildEnds
<1>15. ASSUME NEW j \in Jobs, NEW r \in 1..MaxRuns, OrphanEnds(j, r)
       PROVE  BatchTypeOK'
  BY <1>15 DEF OrphanEnds
<1>16. CASE UNCHANGED vars
  BY <1>16 DEF vars
<1> QED
  BY <1>1, <1>2, <1>3, <1>4, <1>5, <1>6, <1>7, <1>8, <1>9, <1>10, <1>11,
     <1>12, <1>13, <1>14, <1>15, <1>16
  DEF Next, Main, Work

----------------------------------------------------------------------------
(* The jobs.                                                               *)

(* A step that only moves a job's worker, without a result or a marker.    *)
LEMMA WorkerKeepsJobs ==
  ASSUME BatchTypeOK, JobsOK, NEW j \in Jobs,
         UNCHANGED <<main, results, row, marker, run, resumed>>,
         step[j] \in Unfinished, main # "down",
         NEW to \in Settling \cup Unfinished, to # "done",
         step' = [step EXCEPT ![j] = to],
         \A k \in Jobs : k # j => status'[k] = status[k] /\ alive'[k] = alive[k],
         run \in alive'[j] => \/ to \in {"launched", "reading"}
                              \/ to \in Settling /\ status'[j] = "failed"
  PROVE  JobsOK'
<1> SUFFICES ASSUME NEW k \in Jobs PROVE JobOK(k)'
  BY DEF JobsOK
<1>1. step'[k] = IF k = j THEN to ELSE step[k]
  BY DEF BatchTypeOK
<1>2. CASE k # j
  BY <1>1, <1>2 DEF JobsOK, JobOK
<1>3. CASE k = j
  <2>1. step[j] \notin {"absent", "done"}
    BY DEF Unfinished
  <2>2. results[j] = "none" /\ row[j] = "none"
    BY <2>1 DEF JobsOK, JobOK
  <2>3. resumed => marker[j] \notin Resumable
    BY DEF JobsOK, JobOK
  <2> QED
    BY <1>1, <1>3, <2>2, <2>3 DEF JobOK
<1> QED
  BY <1>2, <1>3

(* A child of this run is there only while its job is at work, or has      *)
(* failed.                                                                 *)
LEMMA NoStrayChild ==
  ASSUME JobsOK, NEW j \in Jobs, main # "down",
         step[j] \notin {"launched", "reading"} \cup Settling
  PROVE  run \notin alive[j]
BY DEF JobsOK, JobOK

(* queued -> prepare -> launched -> reading -> leave -> write.             *)
LEMMA WorkKeepsJobs ==
  ASSUME BatchTypeOK, JobsOK, NEW j \in Jobs, Work(j)
  PROVE  JobsOK'
<1> USE DEF workers, children, disk, history, Advance, Unfinished, Settling
<1>1. main # "down"
  BY DEF Work, TakeJob, PrepareRaises, Launch, LaunchFails, Register, ReadToEnd,
         ReadRaises, Leave, WriteMarker, WriteRaises, JobsOK, JobOK
<1>2. CASE TakeJob(j)
  BY <1>1, <1>2, NoStrayChild, WorkerKeepsJobs DEF TakeJob
<1>3. CASE PrepareRaises(j)
  BY <1>1, <1>3, NoStrayChild, WorkerKeepsJobs DEF PrepareRaises
<1>4. CASE Launch(j)
  <2>1. \A k \in Jobs : k # j => status'[k] = status[k] /\ alive'[k] = alive[k]
    BY <1>4 DEF Launch, BatchTypeOK
  <2> QED
    BY <1>1, <1>4, <2>1, WorkerKeepsJobs DEF Launch
<1>5. CASE LaunchFails(j)
  <2>1. \A k \in Jobs : status'[k] = IF k = j THEN "failed" ELSE status[k]
    BY <1>5 DEF LaunchFails, BatchTypeOK
  <2> QED
    BY <1>1, <1>5, <2>1, WorkerKeepsJobs DEF LaunchFails
<1>6. CASE Register(j)
  BY <1>1, <1>6, WorkerKeepsJobs DEF Register
<1>7. CASE ReadToEnd(j)
  BY <1>1, <1>7, WorkerKeepsJobs DEF ReadToEnd
<1>8. CASE ReadRaises(j)
  <2>1. \A k \in Jobs : status'[k] = IF k = j THEN "failed" ELSE status[k]
    BY <1>8 DEF ReadRaises, BatchTypeOK
  <2> QED
    BY <1>1, <1>8, <2>1, WorkerKeepsJobs DEF ReadRaises
<1>9. CASE Leave(j) \/ WriteRaises(j)
  <2>1. run \in alive[j] => status[j] = "failed"
    BY <1>1, <1>9 DEF Leave, WriteRaises, JobsOK, JobOK
  <2> QED
    BY <1>1, <1>9, <2>1, WorkerKeepsJobs DEF Leave, WriteRaises
<1>10. CASE WriteMarker(j)
  <2> SUFFICES ASSUME NEW k \in Jobs PROVE JobOK(k)'
    BY DEF JobsOK
  <2>1. /\ step'[k] = IF k = j THEN "done" ELSE step[k]
        /\ marker'[k] = IF k = j THEN status[j] ELSE marker[k]
        /\ UNCHANGED <<main, status, results, row, alive, run, resumed>>
        /\ step[j] = "write"
    BY <1>10 DEF WriteMarker, BatchTypeOK
  <2>2. CASE k # j
    BY <2>1, <2>2 DEF JobsOK, JobOK
  <2>3. CASE k = j
    <3>1. results[j] = "none" /\ row[j] = "none"
      BY <2>1 DEF JobsOK, JobOK
    <3>2. run \in alive[j] => status[j] = "failed"
      BY <1>1, <2>1 DEF JobsOK, JobOK
    <3> QED
      BY <1>1, <2>1, <2>3, <3>1, <3>2 DEF JobOK
  <2> QED
    BY <2>2, <2>3
<1> QED
  BY <1>2, <1>3, <1>4, <1>5, <1>6, <1>7, <1>8, <1>9, <1>10 DEF Work

(* main() takes up results and writes rows only of jobs that are done, and *)
(* a new run cuts the table back before it works.                          *)
LEMMA JobsNext == BatchTypeOK /\ JobsOK /\ [Next]_vars => JobsOK'
<1> SUFFICES ASSUME BatchTypeOK, JobsOK, [Next]_vars, NEW k \in Jobs
             PROVE  JobOK(k)'
  BY DEF JobsOK
<1> USE DEF workers, children, disk, history
<1>1. JobOK(k)
  BY DEF JobsOK
<1>2. ASSUME NEW resume \in BOOLEAN, Start(resume) PROVE JobOK(k)'
  <2>1. run + 1 \notin alive[k]
    BY DEF BatchTypeOK
  <2>2. /\ step'[k] = (IF resume /\ marker[k] \in Resumable THEN "absent" ELSE "pending")
        /\ results'[k] = (IF resume /\ marker[k] \in Resumable THEN marker[k] ELSE "none")
        /\ row'[k] = results'[k]
        /\ run' = run + 1 /\ resumed' = resume /\ main' # "down"
        /\ UNCHANGED <<alive, marker>>
    BY <1>2 DEF Start, FirstRows, Reusable
  <2> QED
    BY <2>1, <2>2 DEF JobOK, Unfinished, Resumable
<1>3. CASE StartService \/ ServiceFails \/ StopService \/ StopAll
  BY <1>1, <1>3 DEF StartService, ServiceFails, StopService, StopAll, JobOK
<1>4. CASE SubmitJobs
  <2>1. /\ main = "submit" /\ main' = "pool"
        /\ step'[k] = IF step[k] = "pending" THEN "queued" ELSE step[k]
        /\ UNCHANGED <<status, results, row, marker, alive, run, resumed>>
    BY <1>4 DEF SubmitJobs
  <2> QED
    BY <1>1, <2>1 DEF JobOK, Unfinished, Settling
<1>5. CASE AllSettled
  <2>1. /\ main = "pool" /\ main' = "stop_service"
        /\ step[k] # "absent" => step[k] = "done"
        /\ results'[k] = IF step[k] # "absent" THEN status[k] ELSE results[k]
        /\ UNCHANGED <<step, status, row, marker, alive, run, resumed>>
    BY <1>5 DEF AllSettled, Pending
  <2> QED
    BY <1>1, <2>1 DEF JobOK
<1>6. CASE (\E j \in Jobs : JobRaised(j)) \/ Interrupt
  <2>1. /\ main # "down" /\ main' # "down"
        /\ step'[k] = IF step[k] \in {"queued", "pending"} THEN "cancelled" ELSE step[k]
        /\ UNCHANGED <<status, results, row, marker, alive, run, resumed>>
    BY <1>6 DEF JobRaised, Interrupt, CancelQueued
  <2> QED
    BY <1>1, <2>1 DEF JobOK, Unfinished, Settling
<1>7. CASE WriteRows
  BY <1>1, <1>7 DEF WriteRows, JobOK
<1>8. CASE Leaves \/ Kill
  <2>1. /\ main' = "down" /\ step'[k] = "absent" /\ results'[k] = "none"
        /\ UNCHANGED <<row, marker>>
    BY <1>8 DEF Leaves, Kill, ProcessEnds
  <2> QED
    BY <1>1, <2>1 DEF JobOK, Unfinished
<1>9. ASSUME NEW j \in Jobs, Work(j) PROVE JobOK(k)'
  BY <1>9, WorkKeepsJobs DEF JobsOK
<1>10. ASSUME NEW j \in Jobs, ChildEnds(j) PROVE JobOK(k)'
  <2>1. /\ UNCHANGED <<main, step, results, row, marker, run, resumed>>
        /\ alive'[k] = IF k = j THEN alive[k] \ {run} ELSE alive[k]
    BY <1>10 DEF ChildEnds, BatchTypeOK
  <2>2. PICK s \in Statuses \cup {"none"} :
            /\ status' = [status EXCEPT ![j] = s]
            /\ step[j] \notin {"launched", "reading"} => s = status[j]
    <3>1. CASE step[j] \notin {"launched", "reading"}
      BY <1>10, <3>1 DEF ChildEnds, BatchTypeOK
    <3>2. CASE step[j] \in {"launched", "reading"}
      BY <1>10, <3>2 DEF ChildEnds, Statuses
    <3> QED
      BY <3>1, <3>2
  <2>3. \/ status'[k] = status[k]
        \/ k = j /\ step[k] \in {"launched", "reading"}
    BY <2>2 DEF BatchTypeOK
  <2> QED
    BY <1>1, <2>1, <2>3 DEF JobOK, Settling
<1>11. ASSUME NEW j \in Jobs, NEW r \in 1..MaxRuns, OrphanEnds(j, r)
       PROVE  JobOK(k)'
  <2>1. /\ UNCHANGED <<main, step, status, results, row, marker, run, resumed>>
        /\ alive'[k] \subseteq alive[k]
    BY <1>11 DEF OrphanEnds, BatchTypeOK
  <2> QED
    BY <1>1, <2>1 DEF JobOK
<1>12. CASE UNCHANGED vars
  BY <1>1, <1>12 DEF vars, JobOK
<1> QED
  BY <1>2, <1>3, <1>4, <1>5, <1>6, <1>7, <1>8, <1>9, <1>10, <1>11, <1>12
  DEF Next, Main

----------------------------------------------------------------------------
(* The exit code and the service.                                          *)

(* What the main thread knows of its futures and of the service stays true *)
(* whatever the workers and the children do.                               *)
LEMMA MainNext == BatchTypeOK /\ MainOK /\ [Next]_vars => MainOK'
<1> SUFFICES ASSUME BatchTypeOK, MainOK, [Next]_vars PROVE MainOK'
  OBVIOUS
<1> USE DEF MainOK, workers, children, disk, history
<1>1. ASSUME NEW resume \in BOOLEAN, Start(resume) PROVE MainOK'
  BY <1>1 DEF Start
<1>2. CASE StartService \/ ServiceFails \/ StopService \/ StopAll \/ SubmitJobs
             \/ AllSettled \/ (\E j \in Jobs : JobRaised(j)) \/ Interrupt
  BY <1>2 DEF StartService, ServiceFails, StopService, StopAll, SubmitJobs, AllSettled,
              JobRaised, Interrupt
<1>3. CASE WriteRows
  <2>1. code # "0"
    BY <1>3 DEF WriteRows
  <2>2. code' = "0" => \A j \in Jobs : results[j] \in Resumable
    BY <1>3, <2>1 DEF WriteRows, ExitCode, BatchTypeOK, Statuses
  <2> QED
    BY <1>3, <2>2 DEF WriteRows
<1>4. CASE Leaves \/ Kill
  BY <1>4 DEF Leaves, Kill, ProcessEnds, BatchTypeOK
<1>5. ASSUME NEW j \in Jobs, Work(j) \/ ChildEnds(j) PROVE MainOK'
  BY <1>5 DEF Work, TakeJob, PrepareRaises, Launch, LaunchFails, Register,
              ReadToEnd, ReadRaises, Leave, WriteMarker, WriteRaises, ChildEnds
<1>6. ASSUME NEW j \in Jobs, NEW r \in 1..MaxRuns, OrphanEnds(j, r) PROVE MainOK'
  BY <1>6 DEF OrphanEnds
<1>7. CASE UNCHANGED vars
  BY <1>7 DEF vars
<1> QED
  BY <1>1, <1>2, <1>3, <1>4, <1>5, <1>6, <1>7 DEF Next, Main

(* A run leaves with code 0 only when main's list has a status to keep for *)
(* every job, and nothing after it writes markers or rows.                 *)
LEMMA ExitNext == IInv /\ [Next]_vars => ExitZeroIsTrue'
<1> SUFFICES ASSUME IInv, [Next]_vars, exit' = "0" PROVE ExitZeroIsTrue'
  BY DEF ExitZeroIsTrue
<1> USE DEF IInv, MainOK, workers, children, disk, history
<1>1. CASE Leaves
  <2>1. /\ main = "exit" /\ code = "0" /\ service # "own"
        /\ UNCHANGED <<service, alive, marker, row, run>>
    BY <1>1 DEF Leaves
  <2>2. ASSUME NEW j \in Jobs
        PROVE  /\ marker[j] \in Resumable /\ row[j] = marker[j]
               /\ run \notin alive[j]
    <3>1. row[j] = results[j] /\ results[j] \in Resumable
      BY <2>1
    <3>2. results[j] = marker[j] /\ step[j] \in {"absent", "done"}
      BY <3>1 DEF JobsOK, JobOK, Resumable
    <3>3. step[j] = "done" => status[j] # "failed"
      BY <3>1, <3>2 DEF JobsOK, JobOK, Resumable
    <3>4. run \notin alive[j]
      BY <2>1, <3>2, <3>3 DEF JobsOK, JobOK, Settling
    <3> QED
      BY <3>1, <3>2, <3>4
  <2> QED
    BY <2>1, <2>2 DEF ExitZeroIsTrue, Resumable
<1>2. ASSUME NEW resume \in BOOLEAN, Start(resume) PROVE FALSE
  BY <1>2 DEF Start
<1>3. CASE Kill
  BY <1>3 DEF Kill
<1>4. ASSUME main # "down", exit' = exit PROVE FALSE
  BY <1>4
<1>5. CASE StartService \/ ServiceFails \/ SubmitJobs \/ AllSettled \/ StopAll
             \/ StopService \/ WriteRows \/ Interrupt
             \/ (\E j \in Jobs : JobRaised(j))
  BY <1>4, <1>5 DEF StartService, ServiceFails, SubmitJobs, AllSettled, StopAll,
     StopService, WriteRows, Interrupt, JobRaised
<1>6. ASSUME NEW j \in Jobs, Work(j) \/ ChildEnds(j) PROVE FALSE
  <2>1. main # "down" /\ exit' = exit
    BY <1>6 DEF Work, TakeJob, PrepareRaises, Launch, LaunchFails, Register,
           ReadToEnd, ReadRaises, Leave, WriteMarker, WriteRaises, ChildEnds,
           JobsOK, JobOK
  <2> QED
    BY <1>4, <2>1
<1>7. ASSUME NEW j \in Jobs, NEW r \in 1..MaxRuns, OrphanEnds(j, r)
      PROVE  ExitZeroIsTrue'
  <2>1. /\ UNCHANGED <<exit, marker, row, run, service>>
        /\ \A k \in Jobs : alive'[k] \subseteq alive[k]
    BY <1>7 DEF OrphanEnds, BatchTypeOK
  <2> QED
    BY <2>1 DEF ExitZeroIsTrue
<1>8. CASE UNCHANGED vars
  BY <1>8 DEF vars, ExitZeroIsTrue
<1> QED
  BY <1>1, <1>2, <1>3, <1>5, <1>6, <1>7, <1>8 DEF Next, Main

(* Hence the inductive invariant holds of every state reached.             *)
LEMMA Invariance == Spec => []IInv
<1>1. Init => IInv
  BY InitTypeOK DEF Init, IInv, JobsOK, JobOK, MainOK, ExitZeroIsTrue, Unfinished
<1>2. IInv /\ [Next]_vars => IInv'
  BY TypesNext, JobsNext, MainNext, ExitNext DEF IInv
<1> QED
  BY <1>1, <1>2, PTL DEF Spec

(* Every variable keeps its type: a marker, a row or a result is one of    *)
(* the statuses, and the children alive are those of runs started.         *)
THEOREM BatchTypeCorrect == Spec => []BatchTypeOK
<1>1. IInv => BatchTypeOK
  BY DEF IInv
<1> QED
  BY <1>1, Invariance, PTL

(* No row of batch_results.csv tells anything but the job's marker.        *)
THEOREM RowsAreMarkersAlways == Spec => []RowsAreMarkers
<1>1. IInv => RowsAreMarkers
  BY DEF IInv, JobsOK, JobOK, RowsAreMarkers
<1> QED
  BY <1>1, Invariance, PTL

(* Exit code 0: every job has a marker to keep, the table agrees, and      *)
(* nothing this run started is running any more.                           *)
THEOREM ExitZeroIsTrueAlways == Spec => []ExitZeroIsTrue
<1>1. IInv => ExitZeroIsTrue
  BY DEF IInv
<1> QED
  BY <1>1, Invariance, PTL

(* A run with --resume neither runs again nor overwrites what an earlier   *)
(* run, or itself, has finished.                                           *)
LEMMA FinishedStep ==
  ASSUME IInv, [Next]_vars, NEW j \in Jobs, resumed', marker[j] \in Resumable
  PROVE  marker'[j] = marker[j] /\ alive'[j] \subseteq alive[j]
<1> USE DEF IInv, workers, children, disk, history
<1>1. ASSUME NEW resume \in BOOLEAN, Start(resume)
      PROVE  UNCHANGED <<marker, alive>>
  BY <1>1 DEF Start
<1>2. CASE Main \/ Interrupt \/ Kill
  BY <1>2 DEF Main, StartService, ServiceFails, SubmitJobs, AllSettled, JobRaised,
              StopAll, StopService, WriteRows, Leaves, Interrupt, Kill
<1>3. ASSUME NEW k \in Jobs, Work(k)
      PROVE  marker'[j] = marker[j] /\ alive'[j] \subseteq alive[j]
  <2>1. resumed
    BY <1>3 DEF Work, TakeJob, PrepareRaises, Launch, LaunchFails, Register,
           ReadToEnd, ReadRaises, Leave, WriteMarker, WriteRaises
  <2>2. step[j] \notin Unfinished
    BY <2>1 DEF JobsOK, JobOK
  <2>3. CASE k = j
    BY <1>3, <2>2, <2>3 DEF Work, TakeJob, PrepareRaises, Launch, LaunchFails, Register,
       ReadToEnd, ReadRaises, Leave, WriteMarker, WriteRaises, Unfinished
  <2>4. CASE k # j
    BY <1>3, <2>4 DEF Work, TakeJob, PrepareRaises, Launch, LaunchFails, Register,
       ReadToEnd, ReadRaises, Leave, WriteMarker, WriteRaises, BatchTypeOK
  <2> QED
    BY <2>3, <2>4
<1>4. ASSUME NEW k \in Jobs, ChildEnds(k)
      PROVE  marker'[j] = marker[j] /\ alive'[j] \subseteq alive[j]
  BY <1>4 DEF ChildEnds, BatchTypeOK
<1>5. ASSUME NEW k \in Jobs, NEW r \in 1..MaxRuns, OrphanEnds(k, r)
      PROVE  marker'[j] = marker[j] /\ alive'[j] \subseteq alive[j]
  BY <1>5 DEF OrphanEnds, BatchTypeOK
<1>6. CASE UNCHANGED vars
  BY <1>6 DEF vars
<1> QED
  BY <1>1, <1>2, <1>3, <1>4, <1>5, <1>6 DEF Next

(* --resume skips a job whose marker says it is finished: neither the      *)
(* marker nor the children of such a job change in the resumed run.        *)
THEOREM FinishedStaysFinishedAlways == Spec => FinishedStaysFinished
<1>1. IInv /\ [Next]_vars =>
        [\A j \in Jobs :
           resumed' /\ marker[j] \in {"plan_found", "timeout"}
             => marker'[j] = marker[j] /\ alive'[j] \subseteq alive[j]]_vars
  BY FinishedStep DEF Resumable
<1> QED
  BY <1>1, Invariance, PTL DEF Spec, FinishedStaysFinished
============================================================================
