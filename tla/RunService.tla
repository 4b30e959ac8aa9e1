------------------------------ MODULE RunService ------------------------------
(***************************************************************************)
(* LocalRuntimeService (src/backend/app/runtime.py): runs are submitted by *)
(* request threads, executed one at a time by the single worker thread of  *)
(* an executor, and brought to their final state by whoever comes first:   *)
(* the done callback of the future, in the worker or in the thread that    *)
(* submitted it, or a request that reads.  The trace of a finished run is  *)
(* written file by file, each by a rename (src/backend/app/                *)
(* trace_archive.py), so what a crash leaves on disk is what is there.     *)
(*                                                                         *)
(* Thread r is the request that submits run r.  What one critical section  *)
(* does without writing files is one action.                               *)
(***************************************************************************)
EXTENDS SequencesExt

CONSTANTS
  Runs,     \* the runs that may be submitted
  Readers,  \* request threads that read, again and again
  Traced,   \* the runs with a trace session
  Fragile,  \* the files that may fail to be written
  NoOne     \* no thread, no run

ASSUME ServiceAssumption ==
  /\ Traced \subseteq Runs
  /\ NoOne \notin Runs \cup Readers \cup {"worker", "demo"}
  /\ "worker" \notin Runs \cup Readers

VARIABLES
  book,        \* _runs: the ids in the order of submission
  run,         \* the RuntimeRun of each
  future,      \* of each: "queued", "executing", or what it ended with
  callbacks,   \* the runs whose done callback is registered
  submitting,  \* the requests that have still to register it
  current,     \* the run the worker is at
  stage,       \* and how far it is
  report,      \* what the coordinator has returned for a run
  coordinator, \* the run whose coordinator is shown, or "demo"
  lock,        \* the thread that holds _lock
  refreshing,  \* the runs it has still to refresh
  writes,      \* and the files it has still to write for the first of them
  disk, lost,  \* files written, with their content, and those that could not be
  asked        \* the run a reader asks for, and whether it was over by then

serviceVars == <<book, run, callbacks, submitting, coordinator>>
workerVars == <<future, current, stage, report>>
lockVars == <<lock, refreshing, writes>>
fileVars == <<disk, lost>>
vars == <<serviceVars, workerVars, lockVars, fileVars, asked>>

NewRun == [status |-> "accepted", result |-> "none", error |-> FALSE,
           artifact |-> FALSE, archived |-> FALSE]

Terminal == {"succeeded", "failed"}
Over == {"succeeded", "failed", "raised"}   \* future.done()

Init ==
  /\ book = <<>> /\ run = [r \in Runs |-> NewRun]
  /\ future = [r \in Runs |-> "none"] /\ report = [r \in Runs |-> "none"]
  /\ callbacks = {} /\ submitting = {} /\ current = NoOne /\ stage = "idle"
  /\ coordinator = NoOne
  /\ lock = NoOne /\ refreshing = <<>> /\ writes = <<>>
  /\ disk = [r \in Runs |-> {}] /\ lost = [r \in Runs |-> {}]
  /\ asked = [q \in Readers |-> NoOne]

Enter(t, rs) == lock = NoOne /\ lock' = t /\ refreshing' = rs /\ writes' = <<>>

---------------------------------------------------------------------------
(* Requests that submit. *)

Submit(r) ==
  /\ lock = NoOne /\ ~Contains(book, r)
  /\ book' = Append(book, r) /\ future' = [future EXCEPT ![r] = "queued"]
  /\ submitting' = submitting \cup {r}
  /\ UNCHANGED <<run, callbacks, coordinator, current, stage, report, lockVars, fileVars,
                 asked>>

\* Bug: the callback of a future that is already over is forgotten.
AddCallback_Late(r) ==
  /\ r \in submitting
  /\ callbacks' = callbacks \cup {r} /\ submitting' = submitting \ {r}
  /\ UNCHANGED <<book, run, coordinator, workerVars, lockVars, fileVars, asked>>

\* add_done_callback: of a future that is over, the callback runs here and now.
AddCallback(r) ==
  /\ r \in submitting
  /\ IF future[r] \in Over THEN Enter(r, <<r>>) /\ UNCHANGED callbacks
                           ELSE callbacks' = callbacks \cup {r} /\ UNCHANGED lockVars
  /\ submitting' = submitting \ {r}
  /\ UNCHANGED <<book, run, coordinator, workerVars, fileVars, asked>>

---------------------------------------------------------------------------
(* The worker. *)

Waiting == {r \in ToSet(book) : future[r] = "queued"}

\* The executor hands out the next run; _execute_run begins with the lock.
Take ==
  /\ stage = "idle"
  /\ \E i \in DOMAIN book :
       /\ book[i] \in Waiting /\ \A j \in 1 .. (i - 1) : book[j] \notin Waiting
       /\ current' = book[i] /\ future' = [future EXCEPT ![book[i]] = "executing"]
  /\ stage' = "begin"
  /\ UNCHANGED <<serviceVars, report, lockVars, fileVars, asked>>

Begin ==
  /\ stage = "begin" /\ lock = NoOne
  /\ run' = [run EXCEPT ![current].status = "running"]
  /\ coordinator' = current /\ stage' = "run"
  /\ UNCHANGED <<book, callbacks, submitting, future, current, report, lockVars, fileVars,
                 asked>>

Ends(outcome) == future' = [future EXCEPT ![current] = outcome] /\ stage' = "callbacks"

\* The coordinator returns and the artifact is built, or one of them raises.
Execute ==
  /\ stage = "run"
  /\ \/ \E outcome \in Terminal :
          report' = [report EXCEPT ![current] = outcome] /\ stage' = "keep" /\ UNCHANGED future
     \/ Ends("raised") /\ UNCHANGED report
  /\ UNCHANGED <<serviceVars, current, lockVars, fileVars, asked>>

\* The artifact is kept before the evaluation, which may raise.
Keep ==
  /\ stage = "keep" /\ lock = NoOne
  /\ run' = [run EXCEPT ![current].artifact = TRUE] /\ stage' = "evaluate"
  /\ UNCHANGED <<book, callbacks, submitting, coordinator, future, current, report, lockVars,
                 fileVars, asked>>

Evaluate ==
  /\ stage = "evaluate"
  /\ \E outcome \in {report[current], "raised"} : Ends(outcome)
  /\ UNCHANGED <<serviceVars, current, report, lockVars, fileVars, asked>>

\* set_result runs the callbacks that are registered by then.
RunCallbacks ==
  /\ stage = "callbacks"
  /\ IF current \in callbacks THEN Enter("worker", <<current>>) ELSE UNCHANGED lockVars
  /\ current' = NoOne /\ stage' = IF current \in callbacks THEN "finalize" ELSE "idle"
  /\ UNCHANGED <<serviceVars, future, report, fileVars, asked>>

---------------------------------------------------------------------------
(* Requests that read. *)

Bootstrap ==
  /\ lock = NoOne /\ coordinator = NoOne /\ coordinator' = "demo"
  /\ UNCHANGED <<book, run, callbacks, submitting, workerVars, lockVars, fileVars, asked>>

\* get_run, and events, which reads the answer of get_run.
GetRun(q, r) ==
  /\ Enter(q, <<r>>) /\ Contains(book, r)
  /\ asked' = [asked EXCEPT ![q] = [run |-> r, over |-> future[r] \in Over]]
  /\ UNCHANGED <<serviceVars, workerVars, fileVars>>

\* status: all runs are refreshed.
Status(q) ==
  /\ coordinator # NoOne
  /\ Enter(q, book)
  /\ UNCHANGED <<serviceVars, workerVars, fileVars, asked>>

---------------------------------------------------------------------------
(* What the thread that holds the lock does. *)

\* Bug: the status, which says that the run is over, is written first.
Files_StatusFirst(x) == <<"status">> \o
  (IF x.result # "none" THEN <<"response">> ELSE <<>>) \o
  (IF x.artifact THEN <<"artifact">> ELSE <<>>) \o (IF x.error THEN <<"error">> ELSE <<>>)

\* The files of a trace, in the order in which they are written.
Files(x) ==
  (IF x.result # "none" THEN <<"response">> ELSE <<>>) \o
  (IF x.artifact THEN <<"artifact">> ELSE <<>>) \o
  (IF x.error THEN <<"error">> ELSE <<>>) \o <<"status">>

\* The run with what its future ended with.
Final(x, outcome) ==
  IF outcome = "raised" THEN [x EXCEPT !.status = "failed", !.error = TRUE]
  ELSE [x EXCEPT !.status = outcome, !.result = outcome]

\* Bug: a run whose execution raised is only made final by its callback.
NeedsRefresh_CallbackOnly(r) ==
  future[r] \in (IF lock \in Readers THEN Terminal ELSE Over) /\ run[r].status \notin Terminal

\* A run that is over and not yet final is made final, and its trace is begun.
NeedsRefresh(r) == future[r] \in Over /\ run[r].status \notin Terminal

Refresh ==
  /\ refreshing # <<>> /\ writes = <<>>
  /\ LET r == Head(refreshing)
         x == Final(run[r], future[r])
     IN IF NeedsRefresh(r)
        THEN /\ run' = [run EXCEPT ![r] = x]
             /\ IF r \in Traced /\ ~x.archived THEN writes' = Files(x) /\ UNCHANGED refreshing
                                               ELSE refreshing' = Tail(refreshing) /\ UNCHANGED writes
        ELSE refreshing' = Tail(refreshing) /\ UNCHANGED <<run, writes>>
  /\ UNCHANGED <<book, callbacks, submitting, coordinator, workerVars, lock, fileVars, asked>>

Content(file, x) == IF file = "status" THEN x.status ELSE x.result

\* A file is written, or an OSError is swallowed.
Write ==
  /\ writes # <<>>
  /\ LET r == Head(refreshing)
         file == Head(writes)
     IN /\ \/ disk' = [disk EXCEPT ![r] = @ \cup {<<file, Content(file, run[r])>>}] /\ UNCHANGED lost
           \/ file \in Fragile /\ lost' = [lost EXCEPT ![r] = @ \cup {file}] /\ UNCHANGED disk
        /\ writes' = Tail(writes)
        /\ IF Len(writes) = 1 THEN /\ run' = [run EXCEPT ![r].archived = TRUE]
                                   /\ refreshing' = Tail(refreshing)
                              ELSE UNCHANGED <<run, refreshing>>
  /\ UNCHANGED <<book, callbacks, submitting, coordinator, workerVars, lock, asked>>

Released == lock' = NoOne /\ refreshing' = <<>> /\ writes' = <<>>
Back == stage' = IF lock = "worker" THEN "idle" ELSE stage

\* Any other error leaves the critical section: a callback's is logged, a reader's
\* becomes the answer 500.
WriteRaises ==
  /\ writes # <<>> /\ Released /\ Back
  /\ UNCHANGED <<serviceVars, future, current, report, fileVars>>
  /\ asked' = IF lock \in Readers THEN [asked EXCEPT ![lock] = NoOne] ELSE asked

\* The critical section ends; a reader answers with the run it asked for.
Leave ==
  /\ lock # NoOne /\ refreshing = <<>> /\ Released /\ Back
  /\ asked' = IF lock \in Readers THEN [asked EXCEPT ![lock] = NoOne] ELSE asked
  /\ UNCHANGED <<serviceVars, future, current, report, fileVars>>

---------------------------------------------------------------------------

Worker == Take \/ Begin \/ Execute \/ Keep \/ Evaluate \/ RunCallbacks
InLock == Refresh \/ Write \/ WriteRaises \/ Leave
Reads == Bootstrap \/ \E q \in Readers : Status(q) \/ \E r \in Runs : GetRun(q, r)

Next == (\E r \in Runs : Submit(r) \/ AddCallback(r)) \/ Worker \/ InLock \/ Reads

\* Threads go on, the coordinator ends (RunEnds of Coordinator), and a thread that
\* waits for the lock gets it although others take it again and again.  Nothing
\* makes a client submit or read.
Fairness ==
  /\ SF_vars(Worker) /\ WF_vars(InLock)
  /\ \A r \in Runs : SF_vars(AddCallback(r))

Spec == Init /\ [][Next]_vars /\ Fairness

---------------------------------------------------------------------------

\* Who asks after a run has ended is told how it ended, by whatever thread and at
\* whatever point of finalizing and archiving it; so answers never change again.
AnswersAreTrue ==
  lock \in Readers /\ refreshing = <<>> /\ asked[lock] # NoOne =>
    LET answer == run[asked[lock].run]
        outcome == future[asked[lock].run]
    IN /\ asked[lock].over => answer.status \in Terminal
       /\ answer.status \in Terminal =>
            IF outcome = "raised"
            THEN answer.status = "failed" /\ answer.error /\ answer.result = "none"
            ELSE answer.status = outcome /\ answer.result = outcome /\ ~answer.error

\* What is on disk, at any moment, so also after a crash: a trace with a status
\* names the final one and has every other file the run calls for, but those that
\* could not be written; a run that was executed leaves its artifact even if its
\* evaluation raised.
ArchiveIsTrue ==
  \A r \in Traced : \A s \in Terminal \cup {"accepted", "running"} :
    <<"status", s>> \in disk[r] =>
      LET has(file) == file \in lost[r] \/ \E c \in Terminal \cup {"none"} : <<file, c>> \in disk[r]
      IN /\ s = IF future[r] = "raised" THEN "failed" ELSE future[r]
         /\ IF future[r] = "raised" THEN has("error") ELSE has("response")
         /\ report[r] # "none" => has("artifact")

\* A run that was submitted becomes final although nobody asks for it.
EveryRunIsFinalized ==
  \A r \in Runs : Contains(book, r) ~> run[r].status \in Terminal
=============================================================================
