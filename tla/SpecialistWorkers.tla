------------------------- MODULE SpecialistWorkers --------------------------
(***************************************************************************)
(* The batch workers for research models (open specialists, MVSep Mega53,  *)
(* AudioSep, SAM-Audio): one call separates an input into the requested    *)
(* targets, each on its own, uploads them under the job id and reports;    *)
(* the local entrypoint downloads what the report names.                   *)
(***************************************************************************)
EXTENDS Naturals, Sequences, SequencesExt, FiniteSets

CONSTANTS
    Models,        \* self.runtimes, the stems of Mega53, or the prompts
    Pipelines,     \* pipeline_configs: the stages of each pipeline
    TargetStems,   \* target_stems of Mega53: the model stems of each product stem
    MaxInputs      \* bound: inputs sent under the job id, one after another

\* As the workers check their configurations when they load them; a pipeline has a name of its own.
ASSUME SpecialistAssumption ==
    /\ MaxInputs \in Nat
    /\ \A p \in DOMAIN Pipelines : Pipelines[p] \in Seq(Models) /\ Pipelines[p] # <<>>
    /\ \A t \in DOMAIN TargetStems : TargetStems[t] \in Seq(Models) /\ TargetStems[t] # <<>>
    /\ DOMAIN Pipelines \cap Models = {}

VARIABLES
    specialist,    \* which worker
    call,          \* the call of separate and of the entrypoint around it
    waveform_cache,  \* how each model's output that is kept was made; <<>> is none
    separated,     \* what each model stem's array holds: how often each stem is in it
    store,         \* the object of each target
    localCopies    \* the downloaded file of each target

specialistVars == <<specialist, call, waveform_cache, separated, store, localCopies>>

Workers == {"open_specialist", "mega53", "audiosep", "sam_audio"}

AvailableTargets(w) ==
    CASE w = "open_specialist" -> Models \cup DOMAIN Pipelines
      [] w = "mega53" -> DOMAIN TargetStems
      [] OTHER -> Models

\* A waveform: whose input it is from, and how it was made of it: the models applied to the
\* mix one after another, or how often each model stem was added.
Waveform(made) == [input |-> call.input, made |-> made]
Nothing == [input |-> 0, made |-> <<>>]

Counts(stems) == [m \in Models |-> Cardinality({i \in DOMAIN stems : stems[i] = m})]

\* What a target is to be made of.
Reference(w, t) ==
    CASE w = "open_specialist" /\ t \in DOMAIN Pipelines -> Pipelines[t]
      [] w = "mega53" -> Counts(TargetStems[t])
      [] OTHER -> <<t>>

ArraysOf == [m \in Models |-> Counts(<<m>>)]

NewCall(n) ==
    [pc |-> "idle", input |-> n, requested |-> {}, outputs |-> {}, failures |-> {}, status |-> "running",
     todo |-> {}, upload |-> Nothing, target |-> "none"]

SpecialistInit ==
    /\ specialist \in Workers
    /\ call = NewCall(0)
    /\ waveform_cache = [m \in Models |-> <<>>]
    /\ separated = ArraysOf
    /\ store = [t \in AvailableTargets(specialist) |-> Nothing]
    /\ localCopies = [t \in AvailableTargets(specialist) |-> Nothing]

-----------------------------------------------------------------------------

Sets(change) == call' = [x \in DOMAIN call |-> IF x \in DOMAIN change THEN change[x] ELSE call[x]]

\* main uploads the input; separate refuses targets that are unknown and an input that does
\* not come, before it starts.  Only two of the workers take a choice of targets.
BeginCall ==
    /\ call.pc = "idle" /\ call.input < MaxInputs
    /\ \E requested \in IF specialist \in {"open_specialist", "sam_audio"}
                        THEN SUBSET AvailableTargets(specialist) \ {{}} ELSE {AvailableTargets(specialist)} :
         call' = [NewCall(call.input + 1) EXCEPT !.pc = "separating", !.requested = requested, !.todo = requested]
    /\ waveform_cache' = [m \in Models |-> <<>>] /\ separated' = ArraysOf
    /\ UNCHANGED <<specialist, store, localCopies>>

\* Any exception of a target is its failure, and the next target's turn.
FailTarget(t) ==
    Sets([pc |-> "separating", todo |-> call.todo \ {t}, failures |-> call.failures \cup {t},
          upload |-> Nothing, target |-> "none"])

Separated(t, made) ==
    \/ Sets([pc |-> "uploading", target |-> t, upload |-> Waveform(made)])
    \/ FailTarget(t)

\* A model of the open specialists is run on the mix, and its output kept.
SeparateModel(t) ==
    /\ specialist = "open_specialist" /\ t \in Models
    /\ \/ Separated(t, <<t>>) /\ waveform_cache' = [waveform_cache EXCEPT ![t] = <<t>>]
       \/ FailTarget(t) /\ UNCHANGED waveform_cache
    /\ UNCHANGED separated

\* A pipeline comes after the models: its first stage is taken from what was kept, or run.
SeparatePipeline(t) ==
    /\ specialist = "open_specialist" /\ t \in DOMAIN Pipelines /\ call.todo \cap Models = {}
    /\ LET stages == Pipelines[t]
           first == IF waveform_cache[Head(stages)] # <<>> THEN waveform_cache[Head(stages)] ELSE <<Head(stages)>> IN
       Separated(t, first \o Tail(stages))
    /\ UNCHANGED <<waveform_cache, separated>>

\* Mutant: the first stem's array is added to, not a copy of it.
SumModelStems_InPlace(t) ==
    LET stems == TargetStems[t]
        sum == [m \in Models |-> FoldSeq(LAMBDA stem, n : n + separated[stem][m], 0, stems)] IN
    /\ specialist = "mega53"
    /\ Separated(t, sum)
    /\ separated' = [separated EXCEPT ![Head(stems)] = sum]
    /\ UNCHANGED waveform_cache

\* Mega53 separates once; a product stem is the sum of its model stems, added to a copy.
SumModelStems(t) ==
    LET stems == TargetStems[t]
        sum == [m \in Models |-> FoldSeq(LAMBDA stem, n : n + separated[stem][m], 0, stems)] IN
    /\ specialist = "mega53"
    /\ Separated(t, sum)
    /\ UNCHANGED <<waveform_cache, separated>>

SeparatePrompt(t) ==
    /\ specialist = "audiosep"
    /\ Separated(t, <<t>>)
    /\ UNCHANGED <<waveform_cache, separated>>

SeparateStem(t) ==
    /\ specialist = "sam_audio"
    /\ Separated(t, <<t>>)
    /\ UNCHANGED <<waveform_cache, separated>>

SeparateTarget ==
    /\ call.pc = "separating"
    /\ \E t \in call.todo :
         SeparateModel(t) \/ SeparatePipeline(t) \/ SumModelStems(t) \/ SeparatePrompt(t) \/ SeparateStem(t)
    /\ UNCHANGED <<specialist, store, localCopies>>

\* S3ObjectStore.upload, over the object of an earlier call of the job id.
UploadTarget ==
    /\ call.pc = "uploading"
    /\ \/ /\ store' = [store EXCEPT ![call.target] = call.upload]
          /\ Sets([pc |-> "separating", todo |-> call.todo \ {call.target},
                   outputs |-> call.outputs \cup {call.target}, upload |-> Nothing, target |-> "none"])
       \/ FailTarget(call.target) /\ UNCHANGED store
    /\ UNCHANGED <<specialist, waveform_cache, separated, localCopies>>

\* The report is uploaded and returned; without its upload the call raises.
FinishReport ==
    /\ call.pc = "separating" /\ call.todo = {}
    /\ \/ Sets([pc |-> "downloading", todo |-> call.outputs,
                status |-> IF call.failures = {} /\ (specialist = "open_specialist" => call.outputs = call.requested)
                           THEN "completed" ELSE "completed_with_failures"])
       \/ Sets([pc |-> "idle"])
    /\ UNCHANGED <<specialist, waveform_cache, separated, store, localCopies>>

\* S3ObjectStore.download replaces the file at the end, or raises and ends the entrypoint.
DownloadTarget ==
    /\ call.pc = "downloading"
    /\ \E t \in call.todo :
         /\ localCopies' = [localCopies EXCEPT ![t] = store[t]]
         /\ Sets([todo |-> call.todo \ {t}])
    /\ UNCHANGED <<specialist, waveform_cache, separated, store>>

WriteLocalReport ==
    /\ call.pc = "downloading" /\ call.todo = {}
    /\ Sets([pc |-> "reported"])
    /\ UNCHANGED <<specialist, waveform_cache, separated, store, localCopies>>

\* The call, its container or the entrypoint ends anywhere.
CallEnds ==
    /\ call.pc # "idle"
    /\ Sets([pc |-> "idle", todo |-> {}, upload |-> Nothing, target |-> "none"])
    /\ UNCHANGED <<specialist, waveform_cache, separated, store, localCopies>>

SpecialistNext ==
    \/ BeginCall \/ SeparateTarget \/ UploadTarget \/ FinishReport
    \/ DownloadTarget \/ WriteLocalReport \/ CallEnds

SpecialistSpec == SpecialistInit /\ [][SpecialistNext]_specialistVars

-----------------------------------------------------------------------------

\* When the report is written, each target it names as an output is there as it is to be made
\* of this call's input, the others failed, and completed says that none did: what one target
\* did to the arrays or the cache does not reach another (separate, main).
ReportedOutputs ==
    call.pc = "reported" =>
        /\ \A t \in call.outputs :
             localCopies[t] = [input |-> call.input, made |-> Reference(specialist, t)]
        /\ call.outputs \cup call.failures = call.requested /\ call.outputs \cap call.failures = {}
        /\ call.status = "completed" <=> call.outputs = call.requested

=============================================================================
