-------------------------- MODULE SynthCalibration --------------------------
(***************************************************************************)
(* How the thresholds of the synth cleaners are calibrated: songs are      *)
(* picked for each label and split (build_synth_cleaner_calibration), a    *)
(* batch scores the windows of a clip of each, and thresholds are chosen   *)
(* on the calibration songs and tried on the others                        *)
(* (calibrate_synth_cleaner, and train_synth_head with scores of heads     *)
(* that did not see the song).                                             *)
(* Rates are percentages, and a score just below another is one less.      *)
(***************************************************************************)
EXTENDS Naturals, FiniteSets, FiniteSetsExt

CONSTANTS
    Songs,
    LABEL_GROUPS,      \* the labels
    PickCounts,        \* how many songs of each label but the positive one are picked
    Fraction,          \* the percentage of each label's songs that calibrate
    Readings,          \* the scores and margins that a window can have, all of them positive
    MaxRows,           \* bound: scored windows
    MaxValues,         \* how many values of a score or margin are tried at most
    RequiredExamples,  \* of each label
    AcceptPrecision, MinimumRecall, PositiveRetention,   \* targets, in percent
    Folds              \* of train_synth_head

ASSUME CalibrationAssumption ==
    /\ LABEL_GROUPS = {"positive", "target_absent", "confuser"}
    /\ IsFiniteSet(Songs)
    /\ Readings \subseteq [score : Nat \ {0}, margin : Nat \ {0}]
    /\ MaxRows \in Nat /\ MaxValues \in Nat \ {0, 1}
    /\ PositiveRetention \in 0 .. 100

VARIABLES
    candidates,    \* the manifest: the songs with a clip, and their label and split
    rows,          \* their scored windows, with score and margin, and the songs the model had seen
    thresholds,    \* proposed_thresholds
    calibration    \* the step reached, and the status of the report

calibrationVars == <<candidates, rows, thresholds, calibration>>

NoThresholds == [accept |-> 0, margin |-> 0, reject |-> 0]

CalibrationInit ==
    /\ candidates = {} /\ rows = {}
    /\ thresholds = NoThresholds
    /\ calibration = [pc |-> "building", by |-> "none", status |-> "none"]

Scores == {x.score : x \in Readings}
Margins == {x.margin : x \in Readings}

Step(pc, by, status) == calibration' = [pc |-> pc, by |-> by, status |-> status]

-----------------------------------------------------------------------------
(* The corpus. *)

\* stable_order's first count songs: some order of the hashes, so any such set.
FirstOf(available, count) ==
    IF Cardinality(available) <= count THEN {available} ELSE kSubset(count, available)

\* Mutant: the songs of the target_absent label may be picked for the confusers too.
PickSongs_ReusesAbsent(pools) ==
    UNION {{[positive |-> pools["positive"], target_absent |-> absent, confuser |-> confuser] :
              confuser \in FirstOf(pools["confuser"] \ pools["positive"], PickCounts["confuser"])} :
           absent \in FirstOf(pools["target_absent"] \ pools["positive"], PickCounts["target_absent"])}

\* pick_songs: all songs with a positive stem, then absent ones, then confusers of the rest.
PickSongs(pools) ==
    UNION {{[positive |-> pools["positive"], target_absent |-> absent, confuser |-> confuser] :
              confuser \in FirstOf(pools["confuser"] \ (pools["positive"] \cup absent), PickCounts["confuser"])} :
           absent \in FirstOf(pools["target_absent"] \ pools["positive"], PickCounts["target_absent"])}

\* split_assignments: of each label's songs, the ceiling of the fraction calibrates.
Calibrates(all, some) ==
    \A l \in LABEL_GROUPS :
        LET count(of) == Cardinality({c \in of : c.label = l}) IN
        count(some) = (count(all) * Fraction + 99) \div 100

\* main exports the strongest clip of each song with a source that decodes.
BuildCorpus ==
    /\ calibration.pc = "building"
    /\ \E selected \in UNION {PickSongs(pools) : pools \in [LABEL_GROUPS -> SUBSET Songs]} :
         LET all == UNION {{[song |-> s, label |-> l] : s \in selected[l]} : l \in LABEL_GROUPS} IN
         \E some \in SUBSET all, decodes \in SUBSET all :
           /\ Calibrates(all, some)
           /\ candidates' = {[song |-> c.song, label |-> c.label,
                              split |-> IF c \in some THEN "calibration" ELSE "validation"] : c \in decodes}
    /\ Step("scoring", "none", "none")
    /\ UNCHANGED <<rows, thresholds>>

\* The windows of the clips: one or more of each.
Windows(scored) ==
    {W \in SUBSET (scored \X (1..MaxRows)) :
        /\ Cardinality(W) <= MaxRows
        /\ \A c \in scored : <<c, 1>> \in W
        /\ \A w \in W : w[2] = 1 \/ <<w[1], w[2] - 1>> \in W}

\* The batch of the Essentia cleaner: a candidate that raises becomes a receipt that
\* flatten_scores leaves out.
ScoreBatch ==
    /\ calibration.pc = "scoring"
    /\ \E scored \in SUBSET candidates : \E W \in Windows(scored) : \E reading \in [W -> Readings] :
         rows' = {[candidate |-> w[1], window |-> w[2], score |-> reading[w].score,
                   margin |-> reading[w].margin, seen |-> {}] : w \in W}
    /\ Step("calibrating", "batch", "none")
    /\ UNCHANGED <<candidates, thresholds>>

Calibrating == {c \in candidates : c.split = "calibration"}

\* The songs that calibrate are dealt to the folds in turn, those of the positive label and the
\* others each for themselves; a fold without a song, or whose complement is without a positive
\* one, raises.
DealtFolds ==
    {fold \in [Calibrating -> 0..Folds - 1] :
        /\ \A positive \in BOOLEAN, f \in 0..Folds - 1 :
             LET dealt == {c \in Calibrating : (c.label = "positive") = positive} IN
             Cardinality({c \in dealt : fold[c] = f}) = (Cardinality(dealt) + Folds - 1 - f) \div Folds
        /\ \A f \in 0..Folds - 1 :
             /\ \E c \in Calibrating : fold[c] = f
             /\ \E c \in Calibrating : fold[c] # f /\ c.label = "positive"}

\* train_synth_head scores the windows of calibration songs by heads trained on the other folds,
\* and those of validation songs by one trained on all that calibrate.
TrainSynthHead ==
    /\ calibration.pc = "scoring"
    /\ \E fold \in DealtFolds : \E W \in Windows(candidates) : \E score \in [W -> Scores] :
         LET training(c) == {d \in Calibrating : c \in Calibrating => fold[d] # fold[c]} IN
         rows' = {[candidate |-> w[1], window |-> w[2], score |-> score[w], margin |-> 1,
                   seen |-> {d.song : d \in training(w[1])}] : w \in W}
    /\ Step("calibrating", "head", "none")
    /\ UNCHANGED <<candidates, thresholds>>

-----------------------------------------------------------------------------
(* The thresholds. *)

InSplit(split) == {r \in rows : r.candidate.split = split}
Positive(of) == {r \in of : r.candidate.label = "positive"}
Accepted(of, t) == {r \in of : r.score >= t.accept /\ r.margin >= t.margin}
Rejected(of, t) == {r \in of : r.score <= t.reject}

Precise(of, t) ==
    /\ Accepted(of, t) # {}
    /\ Cardinality(Positive(Accepted(of, t))) * 100 >= AcceptPrecision * Cardinality(Accepted(of, t))
Recalled(of, t) == Cardinality(Positive(Accepted(of, t))) * 100 >= MinimumRecall * Cardinality(Positive(of))

\* A quotient rounded as Python's round does, to an even number when it is halfway.
Rounded(a, b) ==
    LET q == a \div b IN
    IF 2 * (a % b) > b \/ (2 * (a % b) = b /\ q % 2 = 1) THEN q + 1 ELSE q

\* threshold_values: those that occur, or of more than MaxValues as many evenly spaced ones.
ThresholdValues(values) ==
    LET n == Cardinality(values)
        rank(v) == Cardinality({w \in values : w < v}) IN
    IF n <= MaxValues THEN values
    ELSE {v \in values : \E index \in 0..MaxValues - 1 : rank(v) = Rounded(index * (n - 1), MaxValues - 1)}

ScoresOf(of) == {r.score : r \in of}
MarginsOf(of) == {r.margin : r \in of}

\* The thresholds that are tried: the trainer of the head tries every probability.
Thresholds(of) ==
    IF calibration.by = "batch"
    THEN [accept : ThresholdValues(ScoresOf(of)), margin : ThresholdValues(MarginsOf(of)), reject : {0}]
    ELSE [accept : ScoresOf(of), margin : MarginsOf(of), reject : {0}]

\* select_accept_thresholds: of those on target, by rank: recall, then precision, then the
\* higher thresholds (precision among equal recalls is having accepted fewer).
Outranks(of, a, b) ==
    LET true(t) == Cardinality(Positive(Accepted(of, t)))
        all(t) == Cardinality(Accepted(of, t)) IN
    \/ true(a) > true(b)
    \/ true(a) = true(b) /\ all(a) < all(b)
    \/ true(a) = true(b) /\ all(a) = all(b) /\ a.accept > b.accept
    \/ true(a) = true(b) /\ all(a) = all(b) /\ a.accept = b.accept /\ a.margin >= b.margin

OnTarget(of) == {t \in Thresholds(of) : Precise(of, t) /\ Recalled(of, t)}

SelectAccept(of) == {a \in OnTarget(of) : \A b \in OnTarget(of) : Outranks(of, a, b)}

\* The trainer goes up the probabilities and takes another one only for a better recall.
SelectHeadThreshold(of) ==
    LET true(t) == Cardinality(Positive(Accepted(of, t))) IN
    {a \in OnTarget(of) : \A b \in OnTarget(of) :
        true(a) > true(b) \/ (true(a) = true(b) /\ a.accept <= b.accept)}

\* select_reject_threshold: just below the positive score after the allowed number.
SelectReject(of) ==
    LET allowed == (Cardinality(Positive(of)) * (100 - PositiveRetention)) \div 100
        below(s) == Cardinality({r \in Positive(of) : r.score < s}) IN
    Max({r.score : r \in {x \in Positive(of) : below(x.score) <= allowed}}) - 1

\* Windows are counted; the trainer of the head takes the labels but the positive one together.
EnoughExamples ==
    LET of == InSplit("calibration")
        count(labels) == Cardinality({r \in of : r.candidate.label \in labels}) IN
    IF calibration.by = "batch" THEN \A l \in LABEL_GROUPS : count({l}) >= RequiredExamples[l]
    ELSE /\ count({"positive"}) >= RequiredExamples["positive"]
         /\ count({"target_absent", "confuser"}) >= RequiredExamples["target_absent"] + RequiredExamples["confuser"]

\* Without the examples or thresholds on target no thresholds are proposed; the status of the
\* report says whether the songs held out meet the targets too (the trainer of the head divides
\* by the number of their positives).
Calibrate ==
    LET of == InSplit("calibration")
        validation == InSplit("validation")
        selected == IF calibration.by = "batch" THEN SelectAccept(of) ELSE SelectHeadThreshold(of) IN
    /\ calibration.pc = "calibrating"
    /\ IF \/ ~EnoughExamples \/ selected = {}
          \/ calibration.by = "head" /\ Positive(validation) = {}
       THEN Step("ended", calibration.by, "none") /\ UNCHANGED thresholds
       ELSE \E t \in selected :
              LET proposed == [t EXCEPT !.reject = SelectReject(of)] IN
              /\ thresholds' = proposed
              /\ Step("reported", calibration.by,
                      IF /\ Precise(validation, proposed) /\ Recalled(validation, proposed)
                         /\ Cardinality(Positive(Rejected(validation, proposed))) * 100
                              <= (100 - PositiveRetention) * Cardinality(Positive(validation))
                      THEN "passed" ELSE "failed")
    /\ UNCHANGED <<candidates, rows>>

CalibrationNext == BuildCorpus \/ ScoreBatch \/ TrainSynthHead \/ Calibrate

CalibrationSpec == CalibrationInit /\ [][CalibrationNext]_calibrationVars

-----------------------------------------------------------------------------

\* Whether every value that occurs is tried.
AllTried(of) ==
    calibration.by = "batch" => Cardinality(ScoresOf(of)) <= MaxValues /\ Cardinality(MarginsOf(of)) <= MaxValues

\* The manifest's split_policy, song_disjoint_across_labels_and_splits, holds, so that no score
\* is of a head that was trained with the song; and thresholds that are reported accept and
\* reject no worse than the targets on the calibration songs, and accept the most positives
\* that any that were tried do.  When all values are tried, that is any thresholds at all.
CalibrationSound ==
    /\ \A c, d \in candidates : c.song = d.song => c = d
    /\ \A r \in rows : r.candidate.song \notin r.seen
    /\ calibration.pc = "reported" =>
         LET of == InSplit("calibration")
             kept == Cardinality(Positive(of)) - Cardinality(Positive(Rejected(of, thresholds))) IN
         /\ Precise(of, thresholds) /\ Recalled(of, thresholds)
         /\ kept * 100 >= PositiveRetention * Cardinality(Positive(of))
         /\ \A other \in IF AllTried(of) THEN [accept : Scores, margin : Margins, reject : {0}] ELSE Thresholds(of) :
              Precise(of, other) /\ Recalled(of, other) =>
                Cardinality(Positive(Accepted(of, other))) <= Cardinality(Positive(Accepted(of, thresholds)))

=============================================================================
