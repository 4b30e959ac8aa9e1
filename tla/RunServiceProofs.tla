-------------------------- MODULE RunServiceProofs --------------------------
(***************************************************************************)
(* Theorems about RunService, for all sets of runs and readers, whichever  *)
(* runs are traced and whichever files fail to be written.  That a run     *)
(* becomes final at all (EveryRunIsFinalized) rests on fairness and is     *)
(* left to TLC.                                                            *)
(***************************************************************************)
EXTENDS RunService, SequenceTheorems, TLAPS

---------------------------------------------------------------------------
(* The inductive invariant. *)

RunRecord == [status: {"accepted", "running"} \cup Terminal, result: {"none"} \cup Terminal,
              error: BOOLEAN, artifact: BOOLEAN, archived: BOOLEAN]

ServiceShape ==
  /\ book \in Seq(Runs)
  /\ run \in [Runs -> RunRecord]
  /\ future \in [Runs -> {"none", "queued", "executing"} \cup Over]
  /\ report \in [Runs -> {"none"} \cup Terminal]
  /\ submitting \subseteq Runs
  /\ refreshing \in Seq(Runs)
  /\ writes \in Seq({"response", "artifact", "error", "status"})
  /\ disk \in [Runs -> SUBSET ({"response", "artifact", "error", "status"}
                               \X ({"none", "accepted", "running"} \cup Terminal))]
  /\ lost \in [Runs -> SUBSET {"response", "artifact", "error", "status"}]
  /\ asked \in [Readers -> [run: Runs, over: BOOLEAN] \cup {NoOne}]

\* The worker is at one run, and no other is executing.  What the coordinator
\* has returned is kept before the run is over.
WorkerIsAt ==
  /\ stage \in {"idle", "begin", "run", "keep", "evaluate", "callbacks", "finalize"}
  /\ stage \in {"begin", "run", "keep", "evaluate"} =>
       current \in Runs /\ future[current] = "executing"
  /\ stage = "callbacks" => current \in Runs
  /\ lock = "worker" => stage = "finalize"
  /\ stage \in {"keep", "evaluate"} => report[current] \in Terminal
  /\ \A r \in Runs : report[r] # "none" => run[r].artifact \/ (r = current /\ stage = "keep")
  /\ \A r \in Runs : ~Contains(book, r) => future[r] = "none"

\* A run is final only when it is over, and then says how it ended.
FinalAgrees ==
  \A r \in Runs :
    /\ run[r].status \in Terminal =>
         /\ future[r] \in Over
         /\ IF future[r] = "raised"
            THEN run[r].status = "failed" /\ run[r].error /\ run[r].result = "none"
            ELSE run[r].status = future[r] /\ run[r].result = future[r] /\ ~run[r].error
    /\ run[r].status \notin Terminal => run[r].result = "none" /\ ~run[r].error

\* A reader that asks for a run holds the lock, and its run is still to be
\* refreshed or is as final as it was over.
AskedIsRefreshed ==
  \A q \in Readers : asked[q] # NoOne =>
    /\ lock = q
    /\ asked[q].over => future[asked[q].run] \in Over
    /\ \/ refreshing = <<asked[q].run>>
       \/ refreshing = <<>> /\ (asked[q].over => run[asked[q].run].status \in Terminal)

\* The files that a run calls for besides its status.
Called(r) ==
  (IF run[r].result # "none" THEN {"response"} ELSE {}) \cup
  (IF run[r].artifact THEN {"artifact"} ELSE {}) \cup (IF run[r].error THEN {"error"} ELSE {})

Has(r, file) == file \in lost[r] \/ \E c \in Terminal \cup {"none"} : <<file, c>> \in disk[r]

\* The status is the last file to be written, and any other that is called for
\* is there or still to be written.
WritesInOrder ==
  writes # <<>> =>
    /\ refreshing # <<>> /\ run[Head(refreshing)].status \in Terminal
    /\ \A i \in DOMAIN writes : writes[i] = "status" <=> i = Len(writes)
    /\ \A file \in Called(Head(refreshing)) :
         Has(Head(refreshing), file) \/ \E i \in DOMAIN writes : writes[i] = file

\* A status on disk is the final one, and whatever the run calls for is there.
ArchiveComplete ==
  \A r \in Runs : \A s \in Terminal \cup {"accepted", "running"} :
    <<"status", s>> \in disk[r] =>
      /\ run[r].status \in Terminal /\ s = run[r].status
      /\ \A file \in Called(r) : Has(r, file)

ServiceInv ==
  /\ ServiceShape /\ WorkerIsAt /\ FinalAgrees /\ AskedIsRefreshed
  /\ WritesInOrder /\ ArchiveComplete

---------------------------------------------------------------------------
(* Steps that touch no run that is final. *)

\* A run that is over stays so, and one that is final is left alone.
LEMMA FinalRunsStand ==
  ASSUME ServiceInv, UNCHANGED <<lockVars, fileVars, asked>>,
         \A r \in Runs : run[r].status \in Terminal => run'[r] = run[r],
         \A r \in Runs : future[r] \in Over => future'[r] = future[r]
  PROVE  AskedIsRefreshed' /\ WritesInOrder' /\ ArchiveComplete'
<1>1. /\ ServiceShape /\ AskedIsRefreshed /\ WritesInOrder /\ ArchiveComplete /\ FinalAgrees
      /\ UNCHANGED <<lock, refreshing, writes, disk, lost, asked>>
  BY DEF ServiceInv, lockVars, fileVars
<1>2. \A r \in Runs : run[r].status \in Terminal =>
        run'[r] = run[r] /\ Called(r)' = Called(r)
  BY DEF Called
<1>3. \A r \in Runs : \A file : Has(r, file) => Has(r, file)'
  BY <1>1 DEF Has
<1>4. AskedIsRefreshed'
  BY <1>1, <1>2 DEF AskedIsRefreshed, ServiceShape
<1>5. WritesInOrder'
  <2> SUFFICES ASSUME writes' # <<>>
               PROVE  /\ refreshing' # <<>> /\ run'[Head(refreshing')].status \in Terminal
                      /\ \A i \in DOMAIN writes' : writes'[i] = "status" <=> i = Len(writes')
                      /\ \A file \in Called(Head(refreshing))' :
                           \/ Has(Head(refreshing), file)'
                           \/ \E i \in DOMAIN writes' : writes'[i] = file
    BY <1>1 DEF WritesInOrder
  <2>1. refreshing # <<>> /\ refreshing \in Seq(Runs)
    BY <1>1 DEF WritesInOrder, ServiceShape
  <2>2. PICK r \in Runs : r = Head(refreshing)
    BY <2>1
  <2>3. Called(r)' = Called(r) /\ run'[r] = run[r] /\ run[r].status \in Terminal
    BY <1>1, <1>2, <2>2 DEF WritesInOrder
  <2>4. \A file \in Called(r) : Has(r, file) \/ \E i \in DOMAIN writes : writes[i] = file
    BY <1>1, <2>2 DEF WritesInOrder
  <2>5. \A file \in Called(r)' : Has(r, file)' \/ \E i \in DOMAIN writes' : writes'[i] = file
    BY <1>1, <1>3, <2>3, <2>4
  <2>6. Called(Head(refreshing))' = Called(r)'
       /\ \A file : Has(Head(refreshing), file)' = Has(r, file)'
    BY <1>1, <2>2 DEF Called, Has
  <2>7. QED
    BY <1>1, <2>1, <2>2, <2>3, <2>5, <2>6 DEF WritesInOrder
<1>6. ArchiveComplete'
  BY <1>1, <1>2, <1>3 DEF ArchiveComplete
<1>7. QED
  BY <1>4, <1>5, <1>6

\* A thread that takes the lock has nothing written yet; no reader waits for its
\* answer then.
LEMMA Entered ==
  ASSUME ServiceInv, NEW t, NEW rs, Enter(t, rs), UNCHANGED <<run, fileVars>>
  PROVE  /\ asked' = asked => AskedIsRefreshed'
         /\ WritesInOrder' /\ ArchiveComplete'
         /\ \A q \in Readers : asked[q] = NoOne
<1>1. \A q \in Readers : asked[q] = NoOne
  BY ServiceAssumption DEF ServiceInv, AskedIsRefreshed, Enter, ServiceAssumption
<1>2. WritesInOrder'
  BY DEF Enter, WritesInOrder
<1>3. ArchiveComplete'
  BY DEF ServiceInv, ArchiveComplete, fileVars, Has, Called
<1>4. asked' = asked => AskedIsRefreshed'
  BY <1>1 DEF AskedIsRefreshed
<1>5. QED
  BY <1>1, <1>2, <1>3, <1>4

---------------------------------------------------------------------------
(* The actions. *)

LEMMA SubmitInv == ASSUME ServiceInv, NEW r \in Runs, Submit(r) PROVE ServiceInv'
<1>1. ServiceShape /\ WorkerIsAt /\ FinalAgrees
  BY DEF ServiceInv
<1>2. /\ ~Contains(book, r) /\ book' = Append(book, r)
      /\ future' = [future EXCEPT ![r] = "queued"] /\ submitting' = submitting \cup {r}
      /\ UNCHANGED <<run, callbacks, coordinator, current, stage, report, lockVars, fileVars,
                     asked, lock, refreshing, writes, disk, lost>>
  BY DEF Submit, lockVars, fileVars
<1>3. future[r] = "none"
  BY <1>1, <1>2 DEF WorkerIsAt
<1>4. \A x \in Runs : future'[x] = IF x = r THEN "queued" ELSE future[x]
  BY <1>1, <1>2 DEF ServiceShape
<1>5. ServiceShape'
  BY <1>1, <1>2 DEF ServiceShape
<1>6. WorkerIsAt'
  <2>1. \A x \in Runs : Contains(book, x) \/ x = r => Contains(book', x)
    BY <1>1, <1>2 DEF ServiceShape, Contains
  <2>2. QED
    BY <1>1, <1>2, <1>3, <1>4, <2>1 DEF WorkerIsAt
<1>7. FinalAgrees'
  BY <1>1, <1>2, <1>3, <1>4 DEF FinalAgrees, Over, Terminal
<1>8. AskedIsRefreshed' /\ WritesInOrder' /\ ArchiveComplete'
  BY <1>2, <1>3, <1>4, FinalRunsStand DEF Over
<1>9. QED
  BY <1>5, <1>6, <1>7, <1>8 DEF ServiceInv

LEMMA AddCallbackInv == ASSUME ServiceInv, NEW r \in Runs, AddCallback(r) PROVE ServiceInv'
<1>1. ServiceShape /\ WorkerIsAt /\ FinalAgrees
  BY DEF ServiceInv
<1>2. /\ submitting' = submitting \ {r}
      /\ UNCHANGED <<book, run, coordinator, workerVars, future, current, stage, report,
                     fileVars, disk, lost, asked>>
  BY DEF AddCallback, workerVars, fileVars
<1>3. CASE Enter(r, <<r>>)
  <2>1. ServiceShape'
    BY <1>1, <1>2, <1>3 DEF ServiceShape, Enter
  <2>2. WorkerIsAt'
    BY <1>1, <1>2, <1>3, ServiceAssumption DEF WorkerIsAt, Enter, ServiceAssumption
  <2>3. FinalAgrees'
    BY <1>1, <1>2 DEF FinalAgrees
  <2>4. AskedIsRefreshed' /\ WritesInOrder' /\ ArchiveComplete'
    BY <1>2, <1>3, Entered
  <2>5. QED
    BY <2>1, <2>2, <2>3, <2>4 DEF ServiceInv
<1>4. CASE UNCHANGED lockVars
  <2>1. ServiceShape' /\ WorkerIsAt'
    BY <1>1, <1>2, <1>4 DEF ServiceShape, WorkerIsAt, lockVars
  <2>2. FinalAgrees'
    BY <1>1, <1>2 DEF FinalAgrees
  <2>3. AskedIsRefreshed' /\ WritesInOrder' /\ ArchiveComplete'
    BY <1>2, <1>4, FinalRunsStand
  <2>4. QED
    BY <2>1, <2>2, <2>3 DEF ServiceInv
<1>5. QED
  BY <1>3, <1>4 DEF AddCallback

LEMMA TakeInv == ASSUME ServiceInv, Take PROVE ServiceInv'
<1>1. ServiceShape /\ WorkerIsAt /\ FinalAgrees
  BY DEF ServiceInv
<1>2. PICK i \in DOMAIN book :
        /\ book[i] \in Waiting /\ current' = book[i]
        /\ future' = [future EXCEPT ![book[i]] = "executing"]
  BY DEF Take
<1>3. PICK r \in Runs : r = book[i]
  BY <1>1 DEF ServiceShape
<1>4. /\ stage = "idle" /\ stage' = "begin" /\ current' = r /\ future[r] = "queued"
      /\ UNCHANGED <<serviceVars, book, run, callbacks, submitting, coordinator, report,
                     lockVars, lock, refreshing, writes, fileVars, disk, lost, asked>>
  BY <1>2, <1>3 DEF Take, Waiting, serviceVars, lockVars, fileVars
<1>5. \A x \in Runs : future'[x] = IF x = r THEN "executing" ELSE future[x]
  BY <1>1, <1>2, <1>3 DEF ServiceShape
<1>6. ServiceShape'
  BY <1>1, <1>2, <1>3, <1>4 DEF ServiceShape
<1>7. WorkerIsAt'
  <2>1. Contains(book, r)
    BY <1>1, <1>3 DEF Contains, ServiceShape
  <2>2. QED
    BY <1>1, <1>4, <1>5, <2>1 DEF WorkerIsAt
<1>8. FinalAgrees'
  BY <1>1, <1>4, <1>5 DEF FinalAgrees, Over, Terminal
<1>9. AskedIsRefreshed' /\ WritesInOrder' /\ ArchiveComplete'
  BY <1>4, <1>5, FinalRunsStand DEF Over
<1>10. QED
  BY <1>6, <1>7, <1>8, <1>9 DEF ServiceInv

LEMMA BeginInv == ASSUME ServiceInv, Begin PROVE ServiceInv'
<1>1. ServiceShape /\ WorkerIsAt /\ FinalAgrees
  BY DEF ServiceInv
<1>2. /\ stage = "begin" /\ stage' = "run"
      /\ run' = [run EXCEPT ![current].status = "running"]
      /\ UNCHANGED <<book, callbacks, submitting, future, current, report, lockVars,
                     lock, refreshing, writes, fileVars, disk, lost, asked>>
  BY DEF Begin, lockVars, fileVars
<1>3. /\ current \in Runs /\ future[current] = "executing"
      /\ run[current].status \notin Terminal
  BY <1>1, <1>2 DEF WorkerIsAt, FinalAgrees, Over, Terminal
<1>4. /\ \A x \in Runs : x # current => run'[x] = run[x]
      /\ run'[current] = [run[current] EXCEPT !.status = "running"]
  BY <1>1, <1>2, <1>3 DEF ServiceShape
<1>5. /\ run'[current].status = "running" /\ run'[current].result = run[current].result
      /\ run'[current].error = run[current].error
      /\ run'[current].artifact = run[current].artifact
      /\ run'[current] \in RunRecord
  <2>1. run[current] \in RunRecord
    BY <1>1, <1>3 DEF ServiceShape
  <2>2. QED
    BY <1>4, <2>1 DEF RunRecord
<1>6. ServiceShape'
  <2>1. run' \in [Runs -> RunRecord]
    BY <1>1, <1>2, <1>4, <1>5 DEF ServiceShape
  <2>2. QED
    BY <1>1, <1>2, <2>1 DEF ServiceShape
<1>7. WorkerIsAt'
  BY <1>1, <1>2, <1>3, <1>4, <1>5 DEF WorkerIsAt
<1>8. FinalAgrees'
  BY <1>1, <1>2, <1>3, <1>4, <1>5 DEF FinalAgrees, Terminal
<1>9. AskedIsRefreshed' /\ WritesInOrder' /\ ArchiveComplete'
  BY <1>2, <1>3, <1>4, FinalRunsStand
<1>10. QED
  BY <1>6, <1>7, <1>8, <1>9 DEF ServiceInv

\* The future of the executing run is set.
LEMMA EndsInv ==
  ASSUME ServiceInv, stage \in {"run", "evaluate"}, NEW outcome \in Over, Ends(outcome),
         UNCHANGED <<serviceVars, current, report, lockVars, fileVars, asked>>
  PROVE  ServiceInv'
<1>1. ServiceShape /\ WorkerIsAt /\ FinalAgrees
  BY DEF ServiceInv
<1>2. /\ future' = [future EXCEPT ![current] = outcome] /\ stage' = "callbacks"
      /\ UNCHANGED <<book, run, callbacks, submitting, coordinator, current, report,
                     lock, refreshing, writes, disk, lost, asked>>
  BY DEF Ends, serviceVars, lockVars, fileVars
<1>3. current \in Runs /\ future[current] = "executing"
  BY <1>1 DEF WorkerIsAt
<1>4. \A x \in Runs : future'[x] = IF x = current THEN outcome ELSE future[x]
  BY <1>1, <1>2 DEF ServiceShape
<1>5. ServiceShape'
  BY <1>1, <1>2, <1>3 DEF ServiceShape
<1>6. WorkerIsAt'
  BY <1>1, <1>2, <1>3, <1>4 DEF WorkerIsAt
<1>7. FinalAgrees'
  BY <1>1, <1>2, <1>3, <1>4 DEF FinalAgrees, Over, Terminal
<1>8. AskedIsRefreshed' /\ WritesInOrder' /\ ArchiveComplete'
  BY <1>2, <1>3, <1>4, FinalRunsStand DEF Over, Terminal
<1>9. QED
  BY <1>5, <1>6, <1>7, <1>8 DEF ServiceInv

LEMMA ExecuteInv == ASSUME ServiceInv, Execute PROVE ServiceInv'
<1>1. ServiceShape /\ WorkerIsAt /\ FinalAgrees
  BY DEF ServiceInv
<1>2. CASE Ends("raised") /\ UNCHANGED report
  BY <1>2, EndsInv DEF Execute, Over
<1>3. ASSUME NEW outcome \in Terminal, report' = [report EXCEPT ![current] = outcome],
             stage' = "keep", UNCHANGED future
      PROVE  ServiceInv'
  <2>1. /\ stage = "run" /\ current \in Runs /\ future[current] = "executing"
        /\ UNCHANGED <<book, run, callbacks, submitting, coordinator, current, lockVars,
                       lock, refreshing, writes, fileVars, disk, lost, asked>>
    BY <1>1 DEF Execute, WorkerIsAt, serviceVars, lockVars, fileVars
  <2>2. \A x \in Runs : report'[x] = IF x = current THEN outcome ELSE report[x]
    BY <1>1, <1>3 DEF ServiceShape
  <2>3. ServiceShape'
    BY <1>1, <1>3, <2>1 DEF ServiceShape
  <2>4. WorkerIsAt'
    BY <1>1, <1>3, <2>1, <2>2 DEF WorkerIsAt
  <2>5. FinalAgrees'
    BY <1>1, <1>3, <2>1 DEF FinalAgrees
  <2>6. AskedIsRefreshed' /\ WritesInOrder' /\ ArchiveComplete'
    BY <1>3, <2>1, FinalRunsStand
  <2>7. QED
    BY <2>3, <2>4, <2>5, <2>6 DEF ServiceInv
<1>4. QED
  BY <1>2, <1>3 DEF Execute

LEMMA KeepInv == ASSUME ServiceInv, Keep PROVE ServiceInv'
<1>1. ServiceShape /\ WorkerIsAt /\ FinalAgrees
  BY DEF ServiceInv
<1>2. /\ stage = "keep" /\ stage' = "evaluate"
      /\ run' = [run EXCEPT ![current].artifact = TRUE]
      /\ UNCHANGED <<book, callbacks, submitting, coordinator, future, current, report,
                     lockVars, lock, refreshing, writes, fileVars, disk, lost, asked>>
  BY DEF Keep, lockVars, fileVars
<1>3. /\ current \in Runs /\ future[current] = "executing"
      /\ run[current].status \notin Terminal
  BY <1>1, <1>2 DEF WorkerIsAt, FinalAgrees, Over, Terminal
<1>4. /\ \A x \in Runs : x # current => run'[x] = run[x]
      /\ run'[current] = [run[current] EXCEPT !.artifact = TRUE]
  BY <1>1, <1>2, <1>3 DEF ServiceShape
<1>5. /\ run'[current].status = run[current].status /\ run'[current].result = run[current].result
      /\ run'[current].error = run[current].error /\ run'[current].artifact
      /\ run'[current] \in RunRecord
  <2>1. run[current] \in RunRecord
    BY <1>1, <1>3 DEF ServiceShape
  <2>2. QED
    BY <1>4, <2>1 DEF RunRecord
<1>6. ServiceShape'
  <2>1. run' \in [Runs -> RunRecord]
    BY <1>1, <1>2, <1>4, <1>5 DEF ServiceShape
  <2>2. QED
    BY <1>1, <1>2, <2>1 DEF ServiceShape
<1>7. WorkerIsAt'
  BY <1>1, <1>2, <1>3, <1>4, <1>5 DEF WorkerIsAt
<1>8. FinalAgrees'
  BY <1>1, <1>2, <1>3, <1>4, <1>5 DEF FinalAgrees
<1>9. AskedIsRefreshed' /\ WritesInOrder' /\ ArchiveComplete'
  BY <1>2, <1>3, <1>4, FinalRunsStand
<1>10. QED
  BY <1>6, <1>7, <1>8, <1>9 DEF ServiceInv

LEMMA EvaluateInv == ASSUME ServiceInv, Evaluate PROVE ServiceInv'
<1>1. WorkerIsAt
  BY DEF ServiceInv
<1>2. PICK outcome \in {report[current], "raised"} : Ends(outcome)
  BY DEF Evaluate
<1>3. outcome \in Over
  BY <1>1 DEF Evaluate, WorkerIsAt, Over, Terminal
<1>4. QED
  BY <1>2, <1>3, EndsInv DEF Evaluate

LEMMA RunCallbacksInv == ASSUME ServiceInv, RunCallbacks PROVE ServiceInv'
<1>1. ServiceShape /\ WorkerIsAt /\ FinalAgrees
  BY DEF ServiceInv
<1>2. /\ stage = "callbacks" /\ current \in Runs /\ current' = NoOne
      /\ stage' = IF current \in callbacks THEN "finalize" ELSE "idle"
      /\ UNCHANGED <<book, run, callbacks, submitting, coordinator, future, report,
                     fileVars, disk, lost, asked>>
  BY <1>1 DEF RunCallbacks, WorkerIsAt, serviceVars, fileVars
<1>3. FinalAgrees'
  BY <1>1, <1>2 DEF FinalAgrees
<1>4. CASE current \in callbacks
  <2>1. Enter("worker", <<current>>)
    BY <1>4 DEF RunCallbacks
  <2>2. ServiceShape' /\ WorkerIsAt'
    BY <1>1, <1>2, <1>4, <2>1 DEF ServiceShape, WorkerIsAt, Enter
  <2>3. AskedIsRefreshed' /\ WritesInOrder' /\ ArchiveComplete'
    BY <1>2, <2>1, Entered
  <2>4. QED
    BY <1>3, <2>2, <2>3 DEF ServiceInv
<1>5. CASE current \notin callbacks
  <2>1. UNCHANGED <<lockVars, lock, refreshing, writes>>
    BY <1>5 DEF RunCallbacks, lockVars
  <2>2. ServiceShape' /\ WorkerIsAt'
    BY <1>1, <1>2, <1>5, <2>1 DEF ServiceShape, WorkerIsAt
  <2>3. AskedIsRefreshed' /\ WritesInOrder' /\ ArchiveComplete'
    BY <1>2, <2>1, FinalRunsStand
  <2>4. QED
    BY <1>3, <2>2, <2>3 DEF ServiceInv
<1>6. QED
  BY <1>4, <1>5

LEMMA BootstrapInv == ASSUME ServiceInv, Bootstrap PROVE ServiceInv'
<1>1. UNCHANGED <<book, run, callbacks, submitting, future, current, stage, report, lockVars,
                  lock, refreshing, writes, fileVars, disk, lost, asked>>
  BY DEF Bootstrap, workerVars, lockVars, fileVars
<1>2. ServiceShape' /\ WorkerIsAt' /\ FinalAgrees'
  BY <1>1 DEF ServiceInv, ServiceShape, WorkerIsAt, FinalAgrees
<1>3. AskedIsRefreshed' /\ WritesInOrder' /\ ArchiveComplete'
  BY <1>1, FinalRunsStand
<1>4. QED
  BY <1>2, <1>3 DEF ServiceInv

LEMMA GetRunInv ==
  ASSUME ServiceInv, NEW q \in Readers, NEW r \in Runs, GetRun(q, r) PROVE ServiceInv'
<1>1. ServiceShape /\ WorkerIsAt /\ FinalAgrees
  BY DEF ServiceInv
<1>2. /\ Enter(q, <<r>>)
      /\ asked' = [asked EXCEPT ![q] = [run |-> r, over |-> future[r] \in Over]]
      /\ UNCHANGED <<serviceVars, book, run, callbacks, submitting, coordinator,
                     workerVars, future, current, stage, report, fileVars, disk, lost>>
  BY DEF GetRun, serviceVars, workerVars, fileVars
<1>3. ServiceShape'
  <2>1. [run |-> r, over |-> future[r] \in Over] \in [run: Runs, over: BOOLEAN]
    OBVIOUS
  <2>2. asked' \in [Readers -> [run: Runs, over: BOOLEAN] \cup {NoOne}]
    BY <1>1, <1>2, <2>1 DEF ServiceShape
  <2>3. QED
    BY <1>1, <1>2, <2>2 DEF ServiceShape, Enter
<1>4. WorkerIsAt' /\ FinalAgrees'
  BY <1>1, <1>2, ServiceAssumption DEF WorkerIsAt, FinalAgrees, Enter, ServiceAssumption
<1>5. WritesInOrder' /\ ArchiveComplete' /\ \A p \in Readers : asked[p] = NoOne
  BY <1>2, Entered
<1>6. AskedIsRefreshed'
  <2>1. \A p \in Readers : p # q => asked'[p] = NoOne
    BY <1>1, <1>2, <1>5 DEF ServiceShape
  <2>2. asked'[q].run = r /\ (asked'[q].over => future[r] \in Over)
    BY <1>1, <1>2 DEF ServiceShape
  <2>3. QED
    BY <1>2, <2>1, <2>2 DEF AskedIsRefreshed, Enter
<1>7. QED
  BY <1>3, <1>4, <1>5, <1>6 DEF ServiceInv

LEMMA StatusInv == ASSUME ServiceInv, NEW q \in Readers, Status(q) PROVE ServiceInv'
<1>1. /\ Enter(q, book)
      /\ UNCHANGED <<serviceVars, book, run, callbacks, submitting, coordinator,
                     workerVars, future, current, stage, report, fileVars, disk, lost, asked>>
  BY DEF Status, serviceVars, workerVars, fileVars
<1>2. ServiceShape'
  BY <1>1 DEF ServiceInv, ServiceShape, Enter
<1>3. WorkerIsAt' /\ FinalAgrees'
  BY <1>1, ServiceAssumption
  DEF ServiceInv, WorkerIsAt, FinalAgrees, Enter, ServiceAssumption
<1>4. AskedIsRefreshed' /\ WritesInOrder' /\ ArchiveComplete'
  BY <1>1, Entered
<1>5. QED
  BY <1>2, <1>3, <1>4 DEF ServiceInv

FileNames == {"response", "artifact", "error", "status"}

\* The files of a trace: each that the run calls for, and the status at the end.
LEMMA FilesInOrder ==
  ASSUME NEW x \in RunRecord
  PROVE  /\ Files(x) \in Seq(FileNames) /\ Files(x) # <<>>
         /\ \A i \in DOMAIN Files(x) : Files(x)[i] = "status" <=> i = Len(Files(x))
         /\ x.result # "none" => \E i \in DOMAIN Files(x) : Files(x)[i] = "response"
         /\ x.artifact => \E i \in DOMAIN Files(x) : Files(x)[i] = "artifact"
         /\ x.error => \E i \in DOMAIN Files(x) : Files(x)[i] = "error"
<1> DEFINE p == IF x.result # "none" THEN <<"response">> ELSE <<>>
           q == IF x.artifact THEN <<"artifact">> ELSE <<>>
           e == IF x.error THEN <<"error">> ELSE <<>>
           head == (p \o q) \o e
<1>1. /\ p \in Seq({"response"}) /\ q \in Seq({"artifact"}) /\ e \in Seq({"error"})
      /\ x.result # "none" => Len(p) = 1 /\ p[1] = "response"
      /\ x.artifact => Len(q) = 1 /\ q[1] = "artifact"
      /\ x.error => Len(e) = 1 /\ e[1] = "error"
  <2>1. ASSUME NEW b \in BOOLEAN, NEW v
        PROVE  LET s == IF b THEN <<v>> ELSE <<>>
               IN s \in Seq({v}) /\ (b => Len(s) = 1 /\ s[1] = v)
    <3>1. CASE b
      BY <3>1
    <3>2. CASE ~b
      <4>1. <<>> \in Seq({v})
        OBVIOUS
      <4>2. QED
        BY <3>2, <4>1
    <3>3. QED
      BY <3>1, <3>2
  <2>2. (x.result # "none") \in BOOLEAN /\ x.artifact \in BOOLEAN /\ x.error \in BOOLEAN
    BY DEF RunRecord
  <2>3. p \in Seq({"response"}) /\ (x.result # "none" => Len(p) = 1 /\ p[1] = "response")
    BY <2>1, <2>2
  <2>4. q \in Seq({"artifact"}) /\ (x.artifact => Len(q) = 1 /\ q[1] = "artifact")
    BY <2>1, <2>2
  <2>5. e \in Seq({"error"}) /\ (x.error => Len(e) = 1 /\ e[1] = "error")
    BY <2>1, <2>2
  <2>6. QED
    BY <2>3, <2>4, <2>5
<1>2. Files(x) = head \o <<"status">>
  BY DEF Files
<1> HIDE DEF p, q, e
<1> DEFINE N == {"response", "artifact", "error"}
<1>3. p \in Seq(N) /\ q \in Seq(N) /\ e \in Seq(N)
  BY <1>1
<1>4. /\ head \in Seq(N)
      /\ x.result # "none" => \E i \in DOMAIN head : head[i] = "response"
      /\ x.artifact => \E i \in DOMAIN head : head[i] = "artifact"
      /\ x.error => \E i \in DOMAIN head : head[i] = "error"
  <2> HIDE DEF N
  <2>1. p \o q \in Seq(N) /\ head \in Seq(N)
    BY <1>3
  <2>2. \A i \in DOMAIN p : i \in DOMAIN head /\ head[i] = p[i]
    BY <1>3
  <2>3. \A i \in DOMAIN q : Len(p) + i \in DOMAIN head /\ head[Len(p) + i] = q[i]
    BY <1>3
  <2>4. \A i \in DOMAIN e : Len(p) + Len(q) + i \in DOMAIN head
                            /\ head[Len(p) + Len(q) + i] = e[i]
    BY <1>3
  <2> HIDE DEF head
  <2>5. x.result # "none" => 1 \in DOMAIN p /\ p[1] = "response"
    BY <1>1
  <2>6. x.artifact => 1 \in DOMAIN q /\ q[1] = "artifact"
    BY <1>1
  <2>7. x.error => 1 \in DOMAIN e /\ e[1] = "error"
    BY <1>1
  <2>8. QED
    BY <2>1, <2>2, <2>3, <2>4, <2>5, <2>6, <2>7
<1> HIDE DEF head
<1> DEFINE all == head \o <<"status">>
<1>5. /\ all \in Seq(FileNames) /\ all # <<>> /\ Len(all) = Len(head) + 1
      /\ all[Len(all)] = "status" /\ DOMAIN head \subseteq DOMAIN all
      /\ \A i \in DOMAIN all : i # Len(all) => i \in DOMAIN head
      /\ \A i \in DOMAIN head : all[i] = head[i] /\ head[i] \in N /\ i # Len(all)
  BY <1>4 DEF FileNames
<1> HIDE DEF all
<1>6. \A i \in DOMAIN all : all[i] = "status" <=> i = Len(all)
  BY <1>5
<1>7. \A f : (\E i \in DOMAIN head : head[i] = f) => \E i \in DOMAIN all : all[i] = f
  BY <1>5
<1>8. Files(x) = all
  BY <1>2 DEF all
<1>9. QED
  BY <1>4, <1>5, <1>6, <1>7, <1>8

\* A run that is over becomes final as it ended.
LEMMA RefreshInv == ASSUME ServiceInv, Refresh PROVE ServiceInv'
<1>1. /\ ServiceShape /\ WorkerIsAt /\ FinalAgrees /\ AskedIsRefreshed /\ WritesInOrder
      /\ ArchiveComplete
  BY DEF ServiceInv
<1>2. refreshing \in Seq(Runs) /\ refreshing # <<>> /\ writes = <<>>
  BY <1>1 DEF Refresh, ServiceShape
<1>3. PICK r \in Runs : r = Head(refreshing)
  BY <1>2
<1> DEFINE x == Final(run[r], future[r])
<1>4. UNCHANGED <<book, callbacks, submitting, coordinator, future, current, stage, report,
                  lock, disk, lost, asked>>
  BY DEF Refresh, workerVars, fileVars
<1>5. \/ /\ NeedsRefresh(r) /\ run' = [run EXCEPT ![r] = x]
         /\ \/ writes' = Files(x) /\ refreshing' = refreshing
            \/ writes' = <<>> /\ refreshing' = Tail(refreshing)
      \/ /\ ~NeedsRefresh(r) /\ run' = run /\ writes' = <<>> /\ refreshing' = Tail(refreshing)
  BY <1>2, <1>3 DEF Refresh
<1>6. Tail(refreshing) \in Seq(Runs)
        /\ \A y : refreshing = <<y>> => y = r /\ Tail(refreshing) = <<>>
  <2>1. Tail(refreshing) \in Seq(Runs) /\ Len(Tail(refreshing)) = Len(refreshing) - 1
    BY <1>2
  <2>2. Len(Tail(refreshing)) = 0 => Tail(refreshing) = <<>>
    BY <2>1, EmptySeq
  <2>3. ASSUME NEW y, refreshing = <<y>> PROVE y = r /\ Len(refreshing) = 1
    <3>1. Head(<<y>>) = y /\ Len(<<y>>) = 1
      OBVIOUS
    <3>2. QED
      BY <1>3, <2>3, <3>1
  <2>4. QED
    BY <2>1, <2>2, <2>3
<1>7. run[r] \in RunRecord /\ future[r] \in {"none", "queued", "executing"} \cup Over
  BY <1>1 DEF ServiceShape
<1>8. CASE ~NeedsRefresh(r)
  <2>1. run' = run /\ writes' = <<>> /\ refreshing' = Tail(refreshing)
    BY <1>5, <1>8
  <2>2. ServiceShape' /\ WorkerIsAt' /\ FinalAgrees'
    BY <1>1, <1>2, <1>4, <1>6, <2>1 DEF ServiceShape, WorkerIsAt, FinalAgrees
  <2>3. AskedIsRefreshed'
    BY <1>1, <1>2, <1>4, <1>6, <1>8, <2>1 DEF AskedIsRefreshed, NeedsRefresh
  <2>4. WritesInOrder' /\ ArchiveComplete'
    BY <1>1, <1>4, <2>1 DEF WritesInOrder, ArchiveComplete, Has, Called
  <2>5. QED
    BY <2>2, <2>3, <2>4 DEF ServiceInv
<1>9. CASE NeedsRefresh(r)
  <2>1. /\ run' = [run EXCEPT ![r] = x]
        /\ \/ writes' = Files(x) /\ refreshing' = refreshing
           \/ writes' = <<>> /\ refreshing' = Tail(refreshing)
    BY <1>5, <1>9
  <2>2. /\ run[r].status \notin Terminal /\ future[r] \in Over
        /\ run[r].result = "none" /\ ~run[r].error
    BY <1>1, <1>9 DEF NeedsRefresh, FinalAgrees
  <2>3. /\ x \in RunRecord /\ x.status \in Terminal /\ x.artifact = run[r].artifact
        /\ IF future[r] = "raised"
           THEN x.status = "failed" /\ x.error /\ x.result = "none"
           ELSE x.status = future[r] /\ x.result = future[r] /\ ~x.error
    BY <1>7, <2>2 DEF RunRecord, Final, Over, Terminal
  <2>4. \A y \in Runs : run'[y] = IF y = r THEN x ELSE run[y]
    BY <1>1, <2>1 DEF ServiceShape
  <2> HIDE DEF x
  <2>5. /\ Files(x) \in Seq(FileNames) /\ Files(x) # <<>>
        /\ \A i \in DOMAIN Files(x) : Files(x)[i] = "status" <=> i = Len(Files(x))
        /\ x.result # "none" => \E i \in DOMAIN Files(x) : Files(x)[i] = "response"
        /\ x.artifact => \E i \in DOMAIN Files(x) : Files(x)[i] = "artifact"
        /\ x.error => \E i \in DOMAIN Files(x) : Files(x)[i] = "error"
    BY <2>3, FilesInOrder
  <2>6. ServiceShape'
    <3>1. run' \in [Runs -> RunRecord]
      BY <1>1, <2>1, <2>3 DEF ServiceShape
    <3>2. writes' \in Seq(FileNames)
      <4>1. <<>> \in Seq(FileNames)
        OBVIOUS
      <4>2. QED
        BY <2>1, <2>5, <4>1
    <3>3. refreshing' \in Seq(Runs)
      BY <1>2, <1>6, <2>1
    <3>4. QED
      BY <1>1, <1>4, <3>1, <3>2, <3>3 DEF ServiceShape, FileNames
  <2>7. WorkerIsAt'
    BY <1>1, <1>4, <2>3, <2>4 DEF WorkerIsAt
  <2>8. FinalAgrees'
    BY <1>1, <1>4, <2>2, <2>3, <2>4 DEF FinalAgrees
  <2>9. AskedIsRefreshed'
    BY <1>1, <1>2, <1>4, <1>6, <2>1, <2>3, <2>4 DEF AskedIsRefreshed, ServiceShape
  <2>10. WritesInOrder'
    <3>1. CASE writes' = Files(x) /\ refreshing' = refreshing
      <4>1. \A file \in Called(r)' : \E i \in DOMAIN Files(x) : Files(x)[i] = file
        BY <2>4, <2>5 DEF Called
      <4>2. Head(refreshing') = r /\ Called(Head(refreshing))' = Called(r)'
        BY <1>3, <3>1 DEF Called
      <4>3. QED
        BY <1>2, <2>3, <2>4, <2>5, <3>1, <4>1, <4>2 DEF WritesInOrder
    <3>2. CASE writes' = <<>>
      BY <3>2 DEF WritesInOrder
    <3>3. QED
      BY <2>1, <3>1, <3>2
  <2>11. ArchiveComplete'
    BY <1>1, <1>4, <2>2, <2>4 DEF ArchiveComplete, Has, Called
  <2>12. QED
    BY <2>6, <2>7, <2>8, <2>9, <2>10, <2>11 DEF ServiceInv
<1>10. QED
  BY <1>8, <1>9

\* A file is written, or is lost; the status comes last.
LEMMA WriteInv == ASSUME ServiceInv, Write PROVE ServiceInv'
<1>1. /\ ServiceShape /\ WorkerIsAt /\ FinalAgrees /\ AskedIsRefreshed /\ WritesInOrder
      /\ ArchiveComplete
  BY DEF ServiceInv
<1>2. /\ writes # <<>> /\ writes' = Tail(writes) /\ writes \in Seq(FileNames)
      /\ refreshing # <<>> /\ refreshing \in Seq(Runs)
      /\ UNCHANGED <<book, callbacks, submitting, coordinator, future, current, stage, report,
                     lock, asked>>
  BY <1>1 DEF Write, WritesInOrder, ServiceShape, workerVars, FileNames
<1>3. PICK r \in Runs : r = Head(refreshing)
  BY <1>2
<1>4. PICK file \in FileNames : file = Head(writes)
  BY <1>2
<1>5. /\ run[r] \in RunRecord /\ run[r].status \in Terminal
      /\ run[r].result \in {"none"} \cup Terminal
  BY <1>1, <1>2, <1>3 DEF ServiceShape, WritesInOrder, RunRecord
<1> DEFINE content == IF file = "status" THEN run[r].status ELSE run[r].result
           last == Len(writes) = 1
<1>6. /\ \/ disk' = [disk EXCEPT ![r] = @ \cup {<<file, content>>}] /\ lost' = lost
         \/ lost' = [lost EXCEPT ![r] = @ \cup {file}] /\ disk' = disk
      /\ IF last THEN /\ run' = [run EXCEPT ![r].archived = TRUE]
                      /\ refreshing' = Tail(refreshing)
                 ELSE run' = run /\ refreshing' = refreshing
  BY <1>3, <1>4 DEF Write, Content
<1>7. /\ \A y \in Runs : /\ run'[y].status = run[y].status /\ run'[y].result = run[y].result
                         /\ run'[y].error = run[y].error /\ run'[y].artifact = run[y].artifact
                         /\ run'[y] \in RunRecord
      /\ run' \in [Runs -> RunRecord]
  <2>1. CASE ~last
    BY <1>1, <1>6, <2>1 DEF ServiceShape
  <2>2. CASE last
    <3> DEFINE e == [run[r] EXCEPT !.archived = TRUE]
    <3>1. /\ e \in RunRecord /\ e.status = run[r].status /\ e.result = run[r].result
          /\ e.error = run[r].error /\ e.artifact = run[r].artifact
      BY <1>5 DEF RunRecord
    <3>2. run' = [run EXCEPT ![r] = e]
      BY <1>6, <2>2
    <3> HIDE DEF e
    <3>3. QED
      BY <1>1, <3>1, <3>2 DEF ServiceShape
  <2>3. QED
    BY <2>1, <2>2
<1>8. \A y \in Runs : Called(y)' = Called(y)
  BY <1>7 DEF Called
<1>9. \A y \in Runs : \A f : Has(y, f) => Has(y, f)'
  BY <1>1, <1>6 DEF Has, ServiceShape
<1>10. file # "status" => Has(r, file)'
  BY <1>1, <1>5, <1>6 DEF Has, ServiceShape
<1>11. \A y \in Runs : \A s : <<"status", s>> \in disk'[y] =>
         <<"status", s>> \in disk[y] \/ (y = r /\ file = "status" /\ s = run[r].status)
  BY <1>1, <1>6 DEF ServiceShape
<1>12. /\ 1 \in DOMAIN writes /\ writes[1] = file /\ Tail(writes) \in Seq(FileNames)
       /\ Len(Tail(writes)) = Len(writes) - 1 /\ Len(writes) \in Nat \ {0}
       /\ \A i \in DOMAIN Tail(writes) :
            i + 1 \in DOMAIN writes /\ Tail(writes)[i] = writes[i + 1] /\ i \in Nat
       /\ \A i \in DOMAIN writes : i # 1 =>
            i - 1 \in DOMAIN Tail(writes) /\ writes[i] = Tail(writes)[i - 1]
  BY <1>2, <1>4
<1>13. /\ \A i \in DOMAIN writes : writes[i] = "status" <=> i = Len(writes)
       /\ \A f \in Called(r) : Has(r, f) \/ \E i \in DOMAIN writes : writes[i] = f
  BY <1>1, <1>2, <1>3 DEF WritesInOrder
<1>14. file = "status" <=> last
  BY <1>12, <1>13
<1>15. \A f \in Called(r) : f # "status"
  BY DEF Called
<1>16. \A f \in Called(r) :
         Has(r, f)' \/ \E i \in DOMAIN Tail(writes) : Tail(writes)[i] = f
  <2> SUFFICES ASSUME NEW f \in Called(r), ~Has(r, f)'
               PROVE  \E i \in DOMAIN Tail(writes) : Tail(writes)[i] = f
    OBVIOUS
  <2>1. PICK i \in DOMAIN writes : writes[i] = f
    BY <1>9, <1>13
  <2>2. f # file
    BY <1>10, <1>15
  <2>3. i # 1
    BY <1>12, <2>1, <2>2
  <2>4. QED
    BY <1>12, <2>1, <2>3
<1>17. ServiceShape'
  <2>1. disk' \in [Runs -> SUBSET (FileNames \X ({"none", "accepted", "running"} \cup Terminal))]
        /\ lost' \in [Runs -> SUBSET FileNames]
    <3> DEFINE P == FileNames \X ({"none", "accepted", "running"} \cup Terminal)
    <3>1. disk \in [Runs -> SUBSET P] /\ lost \in [Runs -> SUBSET FileNames]
      BY <1>1 DEF ServiceShape, FileNames
    <3>2. <<file, content>> \in P
      BY <1>5
    <3> HIDE DEF P, content
    <3>3. disk' \in [Runs -> SUBSET P] /\ lost' \in [Runs -> SUBSET FileNames]
      BY <1>6, <3>1, <3>2
    <3>4. QED
      BY <3>3 DEF P
  <2>2. refreshing' \in Seq(Runs) /\ writes' \in Seq(FileNames)
    <3>1. Tail(refreshing) \in Seq(Runs)
      BY <1>2
    <3> HIDE DEF last
    <3>2. QED
      BY <1>2, <1>6, <1>12, <3>1
  <2>3. QED
    BY <1>1, <1>2, <1>7, <2>1, <2>2 DEF ServiceShape, FileNames
<1>18. WorkerIsAt' /\ FinalAgrees'
  BY <1>1, <1>2, <1>7 DEF WorkerIsAt, FinalAgrees
<1>19. AskedIsRefreshed'
  <2> SUFFICES ASSUME NEW q \in Readers, asked[q] # NoOne
               PROVE  /\ lock = q
                      /\ asked[q].over => future[asked[q].run] \in Over
                      /\ \/ refreshing' = <<asked[q].run>>
                         \/ /\ refreshing' = <<>>
                            /\ asked[q].over => run'[asked[q].run].status \in Terminal
    BY <1>2 DEF AskedIsRefreshed
  <2>1. /\ lock = q /\ asked[q].over => future[asked[q].run] \in Over
        /\ refreshing = <<asked[q].run>> /\ asked[q].run \in Runs
    BY <1>1, <1>2 DEF AskedIsRefreshed, ServiceShape
  <2>2. asked[q].run = r
    <3>1. Head(<<asked[q].run>>) = asked[q].run
      OBVIOUS
    <3>2. QED
      BY <1>3, <2>1, <3>1
  <2>3. CASE last
    <3>1. Tail(refreshing) \in Seq(Runs) /\ Len(Tail(refreshing)) = 0
      BY <1>2, <2>1
    <3>2. Tail(refreshing) = <<>>
      BY <3>1, EmptySeq
    <3>3. QED
      BY <1>1, <1>5, <1>6, <1>7, <2>1, <2>2, <2>3, <3>2 DEF AskedIsRefreshed
  <2>4. CASE ~last
    BY <1>1, <1>6, <2>1, <2>4 DEF AskedIsRefreshed
  <2>5. QED
    BY <2>3, <2>4
<1>20. WritesInOrder'
  <2>1. CASE last
    <3>1. Tail(writes) = <<>>
      BY <1>12, <2>1
    <3>2. QED
      BY <1>2, <3>1 DEF WritesInOrder
  <2>2. CASE ~last
    <3>1. refreshing' = refreshing /\ run' = run
      BY <1>6, <2>2
    <3>2. \A i \in DOMAIN writes' : writes'[i] = "status" <=> i = Len(writes')
      BY <1>2, <1>12, <1>13
    <3>3. \A f \in Called(Head(refreshing))' :
            Has(Head(refreshing), f)' \/ \E i \in DOMAIN writes' : writes'[i] = f
      <4>1. Called(Head(refreshing))' = Called(r)
        BY <1>3, <1>8, <3>1 DEF Called
      <4>2. \A f : Has(Head(refreshing), f)' = Has(r, f)'
        BY <1>3, <3>1 DEF Has
      <4>3. QED
        BY <1>2, <1>16, <4>1, <4>2
    <3>4. QED
      BY <1>2, <1>3, <1>5, <3>1, <3>2, <3>3 DEF WritesInOrder
  <2>3. QED
    BY <2>1, <2>2
<1>21. ArchiveComplete'
  <2> SUFFICES ASSUME NEW y \in Runs, NEW s \in Terminal \cup {"accepted", "running"},
                      <<"status", s>> \in disk'[y]
               PROVE  /\ run'[y].status \in Terminal /\ s = run'[y].status
                      /\ \A f \in Called(y)' : Has(y, f)'
    BY DEF ArchiveComplete
  <2>1. CASE <<"status", s>> \in disk[y]
    BY <1>1, <1>7, <1>8, <1>9, <2>1 DEF ArchiveComplete
  <2>2. CASE y = r /\ file = "status" /\ s = run[r].status
    <3>1. DOMAIN Tail(writes) = {}
      <4>1. last
        BY <1>14, <2>2
      <4>2. Tail(writes) = <<>>
        BY <1>12, <4>1
      <4>3. QED
        BY <4>2
    <3>2. \A f \in Called(r) : Has(r, f)'
      BY <1>16, <3>1
    <3>3. QED
      BY <1>5, <1>7, <1>8, <2>2, <3>2
  <2>3. QED
    BY <1>11, <2>1, <2>2
<1>22. QED
  BY <1>17, <1>18, <1>19, <1>20, <1>21 DEF ServiceInv

\* A thread that leaves the critical section, in order or by an exception, has its
\* answer taken with it; what it has written stays.
LEMMA ReleasedInv ==
  ASSUME ServiceInv, Released, Back, UNCHANGED <<serviceVars, future, current, report, fileVars>>,
         asked' = IF lock \in Readers THEN [asked EXCEPT ![lock] = NoOne] ELSE asked
  PROVE  ServiceInv'
<1>1. /\ ServiceShape /\ WorkerIsAt /\ FinalAgrees /\ AskedIsRefreshed /\ ArchiveComplete
  BY DEF ServiceInv
<1>2. /\ lock' = NoOne /\ refreshing' = <<>> /\ writes' = <<>>
      /\ stage' = IF lock = "worker" THEN "idle" ELSE stage
      /\ UNCHANGED <<book, run, callbacks, submitting, coordinator, future, current, report,
                     disk, lost>>
  BY DEF Released, Back, serviceVars, fileVars
<1>3. \A q \in Readers : asked'[q] = NoOne
  BY <1>1 DEF AskedIsRefreshed, ServiceShape
<1>4. ServiceShape'
  <2>1. asked' \in [Readers -> [run: Runs, over: BOOLEAN] \cup {NoOne}]
    BY <1>1 DEF ServiceShape
  <2>2. \A S : <<>> \in Seq(S)
    OBVIOUS
  <2>3. QED
    BY <1>1, <1>2, <2>1, <2>2 DEF ServiceShape
<1>5. WorkerIsAt'
  BY <1>1, <1>2, ServiceAssumption DEF WorkerIsAt, ServiceAssumption
<1>6. FinalAgrees' /\ ArchiveComplete'
  BY <1>1, <1>2 DEF FinalAgrees, ArchiveComplete, Has, Called
<1>7. AskedIsRefreshed' /\ WritesInOrder'
  BY <1>2, <1>3 DEF AskedIsRefreshed, WritesInOrder
<1>8. QED
  BY <1>4, <1>5, <1>6, <1>7 DEF ServiceInv

LEMMA InitInv == ASSUME Init PROVE ServiceInv
<1>1. ServiceShape
  <2>1. \A S : <<>> \in Seq(S)
    OBVIOUS
  <2>2. NewRun \in RunRecord
    BY DEF NewRun, RunRecord
  <2>3. QED
    BY <2>1, <2>2 DEF Init, ServiceShape
<1>2. WorkerIsAt
  BY ServiceAssumption DEF Init, WorkerIsAt, ServiceAssumption
<1>3. FinalAgrees
  BY DEF Init, FinalAgrees, NewRun, Terminal
<1>4. AskedIsRefreshed /\ WritesInOrder /\ ArchiveComplete
  BY DEF Init, AskedIsRefreshed, WritesInOrder, ArchiveComplete
<1>5. QED
  BY <1>1, <1>2, <1>3, <1>4 DEF ServiceInv

LEMMA NextInv == ServiceInv /\ [Next]_vars => ServiceInv'
<1> SUFFICES ASSUME ServiceInv, [Next]_vars PROVE ServiceInv'
  OBVIOUS
<1>1. CASE Worker
  BY <1>1, TakeInv, BeginInv, ExecuteInv, KeepInv, EvaluateInv, RunCallbacksInv DEF Worker
<1>2. CASE InLock
  BY <1>2, RefreshInv, WriteInv, ReleasedInv DEF InLock, WriteRaises, Leave
<1>3. CASE Reads
  BY <1>3, BootstrapInv, StatusInv, GetRunInv DEF Reads
<1>4. CASE \E r \in Runs : Submit(r) \/ AddCallback(r)
  BY <1>4, SubmitInv, AddCallbackInv
<1>5. CASE UNCHANGED vars
  <2>1. UNCHANGED <<book, run, callbacks, submitting, coordinator, future, current, stage,
                    report, lockVars, lock, refreshing, writes, fileVars, disk, lost, asked>>
    BY <1>5 DEF vars, serviceVars, workerVars, lockVars, fileVars
  <2>2. ServiceShape' /\ WorkerIsAt' /\ FinalAgrees'
    BY <2>1 DEF ServiceInv, ServiceShape, WorkerIsAt, FinalAgrees
  <2>3. AskedIsRefreshed' /\ WritesInOrder' /\ ArchiveComplete'
    BY <2>1, FinalRunsStand
  <2>4. QED
    BY <2>2, <2>3 DEF ServiceInv
<1>6. QED
  BY <1>1, <1>2, <1>3, <1>4, <1>5 DEF Next

---------------------------------------------------------------------------
(* Theorems. *)

\* The book of runs, the worker, the lock and the files on disk belong together
\* in every reachable state.
THEOREM ServiceInvariant == Spec => []ServiceInv
<1>1. Init => ServiceInv
  BY InitInv
<1>2. ServiceInv /\ [Next]_vars => ServiceInv'
  BY NextInv
<1>3. QED
  BY <1>1, <1>2, PTL DEF Spec

\* Who asks after a run has ended is told how it ended, whichever thread makes it
\* final and wherever that thread is with the trace.
THEOREM AnswersAreTrueHolds == Spec => []AnswersAreTrue
<1>1. ServiceInv => AnswersAreTrue
  <2> SUFFICES ASSUME ServiceInv, lock \in Readers, refreshing = <<>>, asked[lock] # NoOne
               PROVE  LET answer == run[asked[lock].run]
                          outcome == future[asked[lock].run]
                      IN /\ asked[lock].over => answer.status \in Terminal
                         /\ answer.status \in Terminal =>
                              IF outcome = "raised"
                              THEN answer.status = "failed" /\ answer.error
                                   /\ answer.result = "none"
                              ELSE answer.status = outcome /\ answer.result = outcome
                                   /\ ~answer.error
    BY DEF AnswersAreTrue
  <2>1. ServiceShape /\ FinalAgrees /\ AskedIsRefreshed
    BY DEF ServiceInv
  <2>2. asked[lock].run \in Runs
    BY <2>1 DEF ServiceShape
  <2>3. asked[lock].over => run[asked[lock].run].status \in Terminal
    <3>1. <<asked[lock].run>> # <<>>
      OBVIOUS
    <3>2. QED
      BY <2>1, <3>1 DEF AskedIsRefreshed
  <2>4. QED
    BY <2>1, <2>2, <2>3 DEF FinalAgrees
<1>2. QED
  BY <1>1, ServiceInvariant, PTL

\* A status on disk, at any moment, is the final one, and every other file that the
\* run calls for is there or could not be written.
THEOREM ArchiveIsTrueHolds == Spec => []ArchiveIsTrue
<1>1. ServiceInv => ArchiveIsTrue
  <2> SUFFICES ASSUME ServiceInv, NEW r \in Traced,
                      NEW s \in Terminal \cup {"accepted", "running"},
                      <<"status", s>> \in disk[r]
               PROVE  /\ s = IF future[r] = "raised" THEN "failed" ELSE future[r]
                      /\ IF future[r] = "raised" THEN Has(r, "error") ELSE Has(r, "response")
                      /\ report[r] # "none" => Has(r, "artifact")
    BY DEF ArchiveIsTrue, Has
  <2>1. ServiceShape /\ WorkerIsAt /\ FinalAgrees /\ ArchiveComplete
    BY DEF ServiceInv
  <2>2. r \in Runs
    BY ServiceAssumption DEF ServiceAssumption
  <2>3. run[r].status \in Terminal /\ s = run[r].status /\ \A f \in Called(r) : Has(r, f)
    BY <2>1, <2>2 DEF ArchiveComplete
  <2>4. /\ future[r] \in Over
        /\ IF future[r] = "raised"
           THEN run[r].status = "failed" /\ run[r].error
           ELSE run[r].status = future[r] /\ run[r].result = future[r]
    BY <2>1, <2>2, <2>3 DEF FinalAgrees
  <2>5. future[r] = "raised" => "error" \in Called(r)
    BY <2>4 DEF Called
  <2>6. future[r] # "raised" => "response" \in Called(r)
    BY <2>4 DEF Called, Over
  <2>7. report[r] # "none" => "artifact" \in Called(r)
    BY <2>1, <2>2, <2>4 DEF WorkerIsAt, Called, Over
  <2>8. QED
    BY <2>3, <2>4, <2>5, <2>6, <2>7
<1>2. QED
  BY <1>1, ServiceInvariant, PTL
============================================================================
