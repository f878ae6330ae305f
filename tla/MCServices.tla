----------------------------- MODULE MCServices -----------------------------
(***************************************************************************)
(* Parts of the repository beside the control plane, for TLC.  They share  *)
(* no running state, so one of them moves in each behaviour.               *)
(***************************************************************************)
EXTENDS ModelTasks, ContractLedger, LocalBackend, WebSession, WorkerArtifacts, RunnerWorkers,
        SpecialistWorkers, StemContract, GpuBakeoff, SynthCalibration

VARIABLE subject    \* the part that moves

MCPools == [MAX_WORKERS : {1, 2}, MODEL_CACHE : BOOLEAN]

\* A pipeline of both models, a product stem that sums both, and one of the first alone.
MCPipelines == [chain |-> <<"x1", "x2">>]
MCTargetStems == [sum1 |-> <<"x1", "x2">>, sum2 |-> <<"x1">>]

MCOutputs == <<"no_vocals", "drums", "song_piano", "wet_kick">>
MCGroupOf == [b \in ToSet(MCOutputs) |-> IF b = "wet_kick" THEN "specialist_substems" ELSE "broad_stems"]

\* With the stage behind it, vocal_instrumental_melband_kim, a name has two aliases more.
MCLooseAliases ==
    [m \in OutputNames |->
        CASE m.base = "no_vocals" -> IF m.suffix = 0 THEN {"vocals"} ELSE {"vocals", "vocal", "instrumental"}
          [] m.base = "song_piano" -> {"piano"}
          [] m.base = "wet_kick" -> {"kick"}
          [] OTHER -> {}]

Rule(group, aliases) == [group |-> group, rules |-> <<[group |-> group, aliases |-> aliases]>>]
MCTargetRules ==
    [vocals |-> Rule("broad_stems", <<"vocals">>),
     instrumental |-> Rule("broad_stems", <<"instrumental", "no_vocals">>),
     drums |-> Rule("broad_stems", <<"drums">>),
     kick |-> Rule("specialist_substems", <<"kick">>)]

MCPairs == <<"gpu1_song1", "gpu1_song2">>

MCReadings == {[score |-> 1, margin |-> 2], [score |-> 2, margin |-> 1], [score |-> 3, margin |-> 2]}
MCPickCounts == [confuser |-> 1, target_absent |-> 1]
MCRequiredExamples == [positive |-> 1, confuser |-> 0, target_absent |-> 1]

-----------------------------------------------------------------------------

Subjects ==
    {"tasks", "ledger", "local", "web", "artifacts", "runners", "specialists", "contract", "bakeoff", "calibration"}

\* The parts that stand still, as one variable each.
Still(s) ==
    /\ s = "tasks" \/ UNCHANGED modelTasksVars
    /\ s = "ledger" \/ UNCHANGED ledgerVars
    /\ s = "local" \/ UNCHANGED localVars
    /\ s = "web" \/ UNCHANGED webVars
    /\ s = "artifacts" \/ UNCHANGED artifactVars
    /\ s = "runners" \/ UNCHANGED runnerVars
    /\ s = "specialists" \/ UNCHANGED specialistVars
    /\ s = "contract" \/ UNCHANGED contractVars
    /\ s = "bakeoff" \/ UNCHANGED bakeoffVars
    /\ s = "calibration" \/ UNCHANGED calibrationVars

Init ==
    /\ subject \in Subjects
    /\ ModelTasksInit /\ (subject = "tasks" \/ pool = [MAX_WORKERS |-> 1, MODEL_CACHE |-> TRUE])
    /\ LedgerInit /\ LocalInit /\ WebInit
    /\ ArtifactsInit /\ (subject = "artifacts" \/ (importMode = "volume" /\ ~input_reference /\ ~bundled))
    /\ RunnerInit /\ (subject = "runners" \/ runner = "bandit")
    /\ SpecialistInit /\ (subject = "specialists" \/ specialist = "mega53")
    /\ ContractInit /\ BakeoffInit /\ CalibrationInit

Moves(s) == subject = s /\ UNCHANGED subject /\ Still(s)

Next ==
    \/ Moves("tasks") /\ ModelTasksNext
    \/ Moves("ledger") /\ LedgerNext
    \/ Moves("local") /\ LocalNext
    \/ Moves("web") /\ WebNext
    \/ Moves("artifacts") /\ ArtifactsNext
    \/ Moves("runners") /\ RunnerNext
    \/ Moves("specialists") /\ SpecialistNext
    \/ Moves("contract") /\ ContractNext
    \/ Moves("bakeoff") /\ BakeoffNext
    \/ Moves("calibration") /\ CalibrationNext

allVars == <<subject, modelTasksVars, ledgerVars, localVars, webVars, artifactVars, runnerVars,
             specialistVars, contractVars, bakeoffVars, calibrationVars>>

Spec == Init /\ [][Next]_allVars

\* Run ids, the requests of the page, local jobs and songs are interchangeable.  Only one of these
\* sets is used in a behaviour, so that one permutation may as well swap the members of all.
Interchangeable == {ExternalRuns, Requests, LocalJobs, Songs}
Swap(S) == CHOOSE p \in Permutations(S) : \A x \in S : p[x] # x /\ p[p[x]] = x
Symmetry ==
    {[x \in UNION Interchangeable |->
        IF swapped THEN LET S == CHOOSE T \in Interchangeable : x \in T IN Swap(S)[x] ELSE x] :
     swapped \in BOOLEAN}

=============================================================================
