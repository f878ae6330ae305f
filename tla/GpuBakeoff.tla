----------------------------- MODULE GpuBakeoff -----------------------------
(***************************************************************************)
(* run_gpu_cost_bakeoff: every candidate GPU separates every song of the   *)
(* corpus, one at a time, under a fixed worker job id; each result goes    *)
(* into the report, which a later call with --resume takes up.  The calls  *)
(* select the same songs and candidates.                                   *)
(***************************************************************************)
EXTENDS Naturals, Sequences, SequencesExt, FiniteSets

CONSTANTS
    Pairs,       \* the results to come: a candidate and a song, in the order of the loops
    MaxCalls     \* bound: calls of the tool

\* The corpus has a song and names each once, and no call names a candidate twice: the report
\* counts the results to come by both (load_and_validate_corpus, --candidate, _write_report).
ASSUME PairsAssumption ==
    /\ Pairs \in Seq(ToSet(Pairs)) /\ Len(Pairs) >= 1
    /\ \A i, j \in DOMAIN Pairs : Pairs[i] = Pairs[j] => i = j

VARIABLES
    bench,         \* the call of main and its local variables
    workerJobs,    \* the worker's status of the job of each pair
    report,        \* report.json
    predictions,   \* the worker's run whose stems have been downloaded for each pair; 0 is none
    leftUnscored   \* history: the pairs whose scoring a call skipped or died in

bakeoffVars == <<bench, workerJobs, report, predictions, leftUnscored>>

PairSet == ToSet(Pairs)

NoReport == [written |-> FALSE, status |-> "none", results |-> <<>>]
NoAnswer == [status |-> "none", contract |-> FALSE, run |-> 0]

\* A result: the worker's final status, the failure of its contract or topology, the scores.
ResultOf(pair, answer) ==
    [pair |-> pair, status |-> answer.status, run |-> answer.run,
     contract_failure |-> answer.status # "completed" \/ ~answer.contract,
     scored |-> "no", quality_scoring_error |-> FALSE]

Valid(r) == r.status = "completed" /\ ~r.contract_failure /\ ~r.quality_scoring_error

NewBakeoff(n, scoring) ==
    [call |-> n, pc |-> "starting", scoring |-> scoring, at |-> 1, results |-> <<>>, answer |-> NoAnswer]

BakeoffInit ==
    /\ bench = [NewBakeoff(0, TRUE) EXCEPT !.pc = "stopped"]
    /\ workerJobs = [p \in PairSet |-> NoAnswer]
    /\ report = NoReport
    /\ predictions = [p \in PairSet |-> 0]
    /\ leftUnscored = {}

-----------------------------------------------------------------------------

\* main: without --execute or a budget above the projected ceiling nothing is done.
StartBakeoff ==
    /\ bench.pc \in {"stopped", "returned"} /\ bench.call < MaxCalls
    /\ \E scoring \in BOOLEAN, resume \in BOOLEAN :
         bench' = [NewBakeoff(bench.call + 1, scoring) EXCEPT
                     !.pc = "pairs", !.results = IF resume /\ report.written THEN report.results ELSE <<>>]
    /\ UNCHANGED <<workerJobs, report, predictions, leftUnscored>>

\* The place of the first result of a pair; 0 is none.
Prior(pair) == SelectInSeq(bench.results, LAMBDA r : r.pair = pair)

\* The elements of a sequence at some of its places, in their order.
Those(seq, places) ==
    [n \in 1 .. Cardinality(places) |->
        seq[CHOOSE i \in places : Cardinality({j \in places : j < i}) = n - 1]]

Dropped(pair) == Those(bench.results, {i \in DOMAIN bench.results : bench.results[i].pair # pair})

\* Mutant: a prior result that the worker completed is enough.
NextPair_AnyCompleted ==
    /\ bench.pc = "pairs" /\ bench.at <= Len(Pairs)
    /\ LET pair == Pairs[bench.at] IN
       IF Prior(pair) # 0 /\ bench.results[Prior(pair)].status = "completed"
       THEN bench' = [bench EXCEPT !.at = @ + 1]
       ELSE bench' = [bench EXCEPT !.results = Dropped(pair), !.pc = "submitting"]
    /\ UNCHANGED <<workerJobs, report, predictions, leftUnscored>>

\* A prior result that is valid is skipped, any other dropped.
NextPair ==
    /\ bench.pc = "pairs" /\ bench.at <= Len(Pairs)
    /\ LET pair == Pairs[bench.at] IN
       IF Prior(pair) # 0 /\ Valid(bench.results[Prior(pair)])
       THEN bench' = [bench EXCEPT !.at = @ + 1]
       ELSE bench' = [bench EXCEPT !.results = Dropped(pair), !.pc = "submitting"]
    /\ UNCHANGED <<workerJobs, report, predictions, leftUnscored>>

ReturnZero ==
    /\ bench.pc = "pairs" /\ bench.at > Len(Pairs)
    /\ bench' = [bench EXCEPT !.pc = "returned"]
    /\ UNCHANGED <<workerJobs, report, predictions, leftUnscored>>

\* The input is uploaded and submitted; the worker replays a completed job and runs one that
\* ended in an error again; a call that raises ends main.
SubmitPair ==
    /\ bench.pc = "submitting"
    /\ LET job == workerJobs[Pairs[bench.at]] IN
       IF job.status = "completed"
       THEN bench' = [bench EXCEPT !.pc = "answered", !.answer = job] /\ UNCHANGED workerJobs
       ELSE \E answer \in [status : {"completed", "error"}, contract : BOOLEAN, run : {job.run + 1}] :
              /\ workerJobs' = [workerJobs EXCEPT ![Pairs[bench.at]] = answer]
              /\ bench' = [bench EXCEPT !.pc = "answered", !.answer = answer]
    /\ UNCHANGED <<report, predictions, leftUnscored>>

-----------------------------------------------------------------------------

StatusOf(results) ==
    CASE \E i \in DOMAIN results : results[i].contract_failure \/ results[i].quality_scoring_error -> "failed_early"
      [] Cardinality({i \in DOMAIN results : Valid(results[i])}) = Len(Pairs) -> "completed"
      [] OTHER -> "in_progress"

\* _write_report replaces the file.
WriteReport(results) == report' = [written |-> TRUE, status |-> StatusOf(results), results |-> results]

\* The result is reported before it is scored; a failure of the contract ends main.
ReportResult ==
    /\ bench.pc = "answered"
    /\ LET results == Append(bench.results, ResultOf(Pairs[bench.at], bench.answer)) IN
       /\ WriteReport(results)
       /\ bench' = [bench EXCEPT !.results = results, !.answer = NoAnswer,
                      !.pc = IF Last(results).contract_failure THEN "stopped" ELSE "scoring"]
    /\ UNCHANGED <<workerJobs, predictions, leftUnscored>>

SkipScoring ==
    /\ bench.pc = "scoring" /\ ~bench.scoring
    /\ WriteReport(bench.results)
    /\ bench' = [bench EXCEPT !.pc = "pairs", !.at = @ + 1]
    /\ leftUnscored' = leftUnscored \cup {Last(bench.results).pair}
    /\ UNCHANGED <<workerJobs, predictions>>

\* The last result is completed in place.
Scored(last) == [bench.results EXCEPT ![Len(bench.results)] = last]

\* _ground_truth_scores scores the stems downloaded before, or those of the result.
ScoreResult ==
    /\ bench.pc = "scoring" /\ bench.scoring
    /\ LET last == Last(bench.results)
           got == IF predictions[last.pair] # 0 THEN predictions[last.pair] ELSE last.run
           results == Scored([last EXCEPT !.scored = IF got = last.run THEN "own" ELSE "stale"]) IN
       /\ predictions' = [predictions EXCEPT ![last.pair] = got]
       /\ WriteReport(results)
       /\ bench' = [bench EXCEPT !.results = results, !.pc = "pairs", !.at = @ + 1]
    /\ UNCHANGED <<workerJobs, leftUnscored>>

\* An exception is reported and ends main; the stems may be there by then.
ScoringFails ==
    /\ bench.pc = "scoring" /\ bench.scoring
    /\ LET last == Last(bench.results)
           results == Scored([last EXCEPT !.quality_scoring_error = TRUE]) IN
       /\ \/ UNCHANGED predictions
          \/ predictions[last.pair] = 0 /\ predictions' = [predictions EXCEPT ![last.pair] = last.run]
       /\ WriteReport(results)
       /\ bench' = [bench EXCEPT !.results = results, !.pc = "stopped"]
    /\ UNCHANGED <<workerJobs, leftUnscored>>

\* The call ends anywhere: a request that raises, a signal.
BakeoffDies ==
    /\ bench.pc \notin {"stopped", "returned"}
    /\ leftUnscored' = IF bench.pc = "scoring" THEN leftUnscored \cup {Last(bench.results).pair} ELSE leftUnscored
    /\ bench' = [bench EXCEPT !.pc = "stopped"]
    /\ UNCHANGED <<workerJobs, report, predictions>>

BakeoffNext ==
    \/ StartBakeoff \/ NextPair \/ ReturnZero \/ SubmitPair
    \/ ReportResult \/ SkipScoring \/ ScoreResult \/ ScoringFails \/ BakeoffDies

BakeoffSpec == BakeoffInit /\ [][BakeoffNext]_bakeoffVars

-----------------------------------------------------------------------------

\* When main returns, the report says completed and has one valid result of each pair, though
\* calls before it failed, stopped or died; each is scored with the stems of its own run of
\* the worker, unless a call skipped its scoring or died in it (main, _write_report).
BakeoffCompletes ==
    bench.pc = "returned" =>
        /\ report.status = "completed" /\ report.results = bench.results
        /\ {r.pair : r \in ToSet(report.results)} = PairSet /\ Len(report.results) = Len(Pairs)
        /\ \A r \in ToSet(report.results) : Valid(r) /\ (r.scored = "own" \/ r.pair \in leftUnscored)

=============================================================================
