--------------------------- MODULE RunnerWorkers ----------------------------
(***************************************************************************)
(* The workers that separate speech, music and effects with a program of   *)
(* another repository (BandIt, TUSS, Cocktail Fork), and the tools that    *)
(* send them an excerpt under a fixed job id, fetch the stems and score    *)
(* them.  Nothing is removed between two runs of a job id.                 *)
(***************************************************************************)
EXTENDS Naturals

CONSTANTS
    Stems,         \* the values of STEM_MAP
    MaxExcerpts    \* bound: different excerpts sent under the job id

VARIABLES
    runner,        \* which worker
    separateCall,  \* the request that the worker executes
    raw,           \* whose excerpt each file of the run directory is of; 0 is none
    substems,      \* the same of specialist_substems, what the worker serves
    runnerStatus,  \* the worker's status.json
    tool,          \* the tool's place and its variables
    fetched,       \* the tool's own copies: whose excerpt, and whether whole
    scored         \* what the last score of the tool is of

runnerVars == <<runner, separateCall, raw, substems, runnerStatus, tool, fetched, scored>>

AllStems(x) == [s \in Stems |-> x]
\* "omitted" is history: the stems that a program which exited 0 did not write.
NoStatusYet == [status |-> "none", excerpt |-> 0, artifacts |-> {}, omitted |-> {}]
NoResult == [status |-> "none", artifacts |-> {}, omitted |-> {}]
NoScore == [worker_status |-> "none", own |-> TRUE]

RunnerInit ==
    /\ runner \in {"bandit", "tuss", "cocktail_fork"}
    /\ separateCall = [pc |-> "idle", excerpt |-> 0, result |-> NoResult]
    /\ raw = AllStems(0) /\ substems = AllStems(0)
    /\ runnerStatus = NoStatusYet
    /\ tool = [pc |-> "idle", excerpt |-> 0, reuse |-> FALSE, status |-> NoStatusYet, todo |-> {}]
    /\ fetched = AllStems([excerpt |-> 0, whole |-> TRUE])
    /\ scored = NoScore

-----------------------------------------------------------------------------
(* The worker: the handler blocks its event loop, so it has one request at a time. *)

WorkerOnly == UNCHANGED <<runner, tool, fetched, scored>>

\* separate: the upload is written over the input and the status says running.
ReceiveExcerpt ==
    /\ separateCall.pc = "received"
    /\ separateCall' = [separateCall EXCEPT !.pc = "running"]
    /\ runnerStatus' = [NoStatusYet EXCEPT !.status = "running", !.excerpt = separateCall.excerpt]
    /\ UNCHANGED <<raw, substems>> /\ WorkerOnly

\* The program writes some stems over those of an earlier run.
Writes(written) == raw' = [s \in Stems |-> IF s \in written THEN separateCall.excerpt ELSE raw[s]]

Results(status, artifacts, omitted) ==
    /\ separateCall' = [separateCall EXCEPT !.pc = "copying",
                          !.result = [status |-> status, artifacts |-> artifacts, omitted |-> omitted]]
    /\ UNCHANGED <<substems, runnerStatus>> /\ WorkerOnly

\* The program's stems count by the files that are there when it has exited 0, be they of this
\* run or, where it left one out, of an earlier one.
ResultsOfFiles(written) ==
    LET artifacts == {s \in Stems : raw'[s] # 0} IN
    Results(IF artifacts = Stems THEN "completed" ELSE "error", artifacts, Stems \ written)

\* Mutant: the exit code is not looked at, a program that failed counts by its files too.
ProgramExits_AnyExit ==
    \E written \in SUBSET Stems :
      /\ Writes(written)
      /\ \/ LET artifacts == {s \in Stems : raw'[s] # 0} IN
            Results(IF artifacts = Stems THEN "completed" ELSE "error", artifacts, {})
         \/ ResultsOfFiles(written)

ProgramExits ==
    \E written \in SUBSET Stems :
      /\ Writes(written)
      /\ Results("error", {}, {}) \/ ResultsOfFiles(written)

RunCocktailFork ==
    /\ separateCall.pc = "running" /\ runner = "cocktail_fork"
    /\ ProgramExits \/ (Results("skipped", {}, {}) /\ UNCHANGED raw)

\* The same, with a timeout.
RunBandit ==
    /\ separateCall.pc = "running" /\ runner = "bandit"
    /\ ProgramExits \/ (Results("skipped", {}, {}) /\ UNCHANGED raw)

\* run_tuss separates in the worker's process and writes every stem after the last inference.
RunTuss ==
    /\ separateCall.pc = "running" /\ runner = "tuss"
    /\ \/ Writes(Stems) /\ Results("completed", Stems, {})
       \/ (\E status \in {"error", "skipped"} : Results(status, {}, {})) /\ UNCHANGED raw

\* The artifacts of the result are copied over those of an earlier run, and bundled.
CopyStems ==
    /\ separateCall.pc = "copying"
    /\ substems' = [s \in Stems |-> IF s \in separateCall.result.artifacts THEN raw[s] ELSE substems[s]]
    /\ separateCall' = [separateCall EXCEPT !.pc = "reporting"]
    /\ UNCHANGED <<raw, runnerStatus>> /\ WorkerOnly

ReportRun ==
    /\ separateCall.pc = "reporting"
    /\ runnerStatus' = [status |-> IF separateCall.result.status = "completed" THEN "completed" ELSE "error",
                        excerpt |-> separateCall.excerpt, artifacts |-> separateCall.result.artifacts,
                        omitted |-> separateCall.result.omitted]
    /\ separateCall' = [pc |-> "answered", excerpt |-> 0, result |-> NoResult]
    /\ UNCHANGED <<raw, substems>> /\ WorkerOnly

\* The container ends in a request (timeout, preemption): the status goes on saying running.
RunnerDies ==
    /\ separateCall.pc \in {"received", "running", "copying", "reporting"}
    /\ separateCall' = [pc |-> "lost", excerpt |-> 0, result |-> NoResult]
    /\ UNCHANGED <<raw, substems, runnerStatus>> /\ WorkerOnly

-----------------------------------------------------------------------------
(* The tool. *)

ToolOnly == UNCHANGED <<runner, raw, substems, runnerStatus>>
\* Of its status.json a later call looks only at whether it is there.
ToolEnds == tool' = [tool EXCEPT !.pc = "idle", !.reuse = FALSE, !.todo = {},
                                 !.status = [NoStatusYet EXCEPT !.status = tool.status.status]]

\* Somebody calls the tool, with the excerpt there is or another one; it writes the excerpt.
CallTool ==
    /\ tool.pc = "idle"
    /\ \E e \in {tool.excerpt, tool.excerpt + 1} \cap 1..MaxExcerpts, reuse \in BOOLEAN :
         tool' = [tool EXCEPT !.pc = "calling", !.excerpt = e, !.reuse = reuse /\ runner = "cocktail_fork"]
    /\ UNCHANGED <<separateCall, fetched, scored>> /\ ToolOnly

\* --reuse-existing of run_external_stem_corpus: a status and files of every stem will do.
Reusable == tool.reuse /\ tool.status.status # "none" /\ \A s \in Stems : fetched[s].excerpt # 0

ReuseStems ==
    /\ tool.pc = "calling" /\ Reusable
    /\ tool' = [tool EXCEPT !.pc = "scoring"]
    /\ UNCHANGED <<separateCall, fetched, scored>> /\ ToolOnly

PostExcerpt ==
    /\ tool.pc = "calling" /\ ~Reusable
    /\ separateCall.pc \in {"idle", "answered", "lost"}
    /\ separateCall' = [pc |-> "received", excerpt |-> tool.excerpt, result |-> NoResult]
    /\ tool' = [tool EXCEPT !.pc = "waiting"]
    /\ UNCHANGED <<fetched, scored>> /\ ToolOnly

\* raise_for_status, or the payload, which is written to the tool's status.json.
ReadAnswer ==
    /\ tool.pc = "waiting" /\ separateCall.pc \in {"answered", "lost"}
    /\ separateCall' = [separateCall EXCEPT !.pc = "idle"]
    /\ IF separateCall.pc = "lost" THEN ToolEnds
       ELSE tool' = [tool EXCEPT !.status = runnerStatus, !.pc = "downloading",
                                 !.todo = runnerStatus.artifacts]
    /\ UNCHANGED <<fetched, scored>> /\ ToolOnly

\* _download opens the file, which empties it, and writes it in place; one that raises ends
\* the tool there.
FetchStem ==
    /\ tool.pc = "downloading"
    /\ \/ \E s \in tool.todo :
            LET part == [excerpt |-> substems[s], whole |-> FALSE] IN
            IF fetched[s] # part THEN fetched' = [fetched EXCEPT ![s] = part] /\ UNCHANGED tool
            ELSE /\ fetched' = [fetched EXCEPT ![s].whole = TRUE]
                 /\ tool' = [tool EXCEPT !.todo = @ \ {s}]
       \/ tool.todo = {} /\ tool' = [tool EXCEPT !.pc = "scoring"] /\ UNCHANGED fetched
    /\ UNCHANGED <<separateCall, scored>> /\ ToolOnly

\* The aggregate: the worker's status beside scores of whatever the directory holds.
ScoreStems ==
    /\ tool.pc = "scoring"
    /\ scored' = [worker_status |-> tool.status.status,
                  own |-> tool.reuse \/ \A s \in Stems \ tool.status.omitted :
                                         fetched[s] = [excerpt |-> tool.excerpt, whole |-> TRUE]]
    /\ ToolEnds
    /\ UNCHANGED <<separateCall, fetched>> /\ ToolOnly

ToolDies ==
    /\ tool.pc # "idle"
    /\ ToolEnds
    /\ UNCHANGED <<separateCall, fetched, scored>> /\ ToolOnly

RunnerNext ==
    \/ ReceiveExcerpt \/ RunCocktailFork \/ RunBandit \/ RunTuss \/ CopyStems \/ ReportRun \/ RunnerDies
    \/ CallTool \/ ReuseStems \/ PostExcerpt \/ ReadAnswer \/ FetchStem \/ ScoreStems \/ ToolDies

RunnerSpec == RunnerInit /\ [][RunnerNext]_runnerVars

-----------------------------------------------------------------------------

\* A completed status serves the stems of its own excerpt, and a call that does not ask for
\* reuse scores them; the one way to an earlier run's stem is a program that exits 0 without
\* having written it.  A run that failed never passes for completed by the files that an earlier
\* run of the job id left, nor does a worker or a tool that died half-way make one stem look
\* like another's (run_bandit, run_tuss, run_cocktail_fork, separate).
CompletedIsOwn ==
    /\ runnerStatus.status = "completed" =>
         \A s \in Stems \ runnerStatus.omitted : substems[s] = runnerStatus.excerpt
    /\ scored.worker_status = "completed" => scored.own

=============================================================================
