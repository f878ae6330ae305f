---------------------------- MODULE VolumeSystem ----------------------------
(***************************************************************************)
(* All the modelled functions of the training application on one volume    *)
(* (src/workers/specialist_training_modal.py), whichever of them are       *)
(* called.                                                                 *)
(***************************************************************************)
EXTENDS TrainingVolume, VolumeCuration

AllTouched == [f \in DOMAIN TrainingTouched \cup DOMAIN CurationTouched |->
    IF f \in DOMAIN TrainingTouched THEN TrainingTouched[f] ELSE CurationTouched[f]]

ASSUME TouchedAssumption == Touched = AllTouched

\* The volume as downloads and extractions left it.
VolumeStart(functions) ==
    /\ VolumeInit(functions, [p \in VolumePaths |-> IF p \in TrainingFiles \cup CurationFiles THEN 1 ELSE Missing])
    /\ TrainingInit

VolumeStep ==
    \/ TrainingStep
    \/ (CurationStep \/ ModalStep) /\ UNCHANGED <<trainings, snapshots>>

VolumeSpec == (\E functions \in SUBSET Functions : VolumeStart(functions)) /\ [][VolumeStep]_trainingVars

=============================================================================
