---------------------------- MODULE StemContract ----------------------------
(***************************************************************************)
(* How a quality job of the GPU worker makes its product stems of what its *)
(* models wrote: outputs are collected into the job's group directories,   *)
(* apply_product_11_contract moves them to the candidates, and copies back *)
(* one file for each target.  A later attempt finds what an earlier left.  *)
(***************************************************************************)
EXTENDS Naturals, Sequences, SequencesExt, FiniteSets

CONSTANTS
    RAW_GROUPS,      \* the groups of stems, each a directory of the job
    Outputs,         \* the names that _artifact_name gives the outputs, in the order they come
    GroupOf,         \* the group of each, by its model
    LooseAliases,    \* the aliases that each name of a file contains after an underscore
    TARGET_RULES,    \* each target's group, and its rules: a group and aliases in order
    required_stems,  \* of _synthesize_instrumental
    MaxAttempts      \* bound: runs of the job

VARIABLES
    groupDirs,     \* the audio files of the group directories
    candidateDir,  \* candidate_stems: the files archived under each name, oldest first
    attempt        \* the run of the job and its local variables

contractVars == <<groupDirs, candidateDir, attempt>>

Bases == ToSet(Outputs)
Targets == DOMAIN TARGET_RULES

\* stem_map keeps two models from naming an output alike; a target's first rule has its own
\* name first, in the group it is published to.
ASSUME ContractAssumption ==
    /\ Outputs \in Seq(Bases) /\ \A i, j \in DOMAIN Outputs : Outputs[i] = Outputs[j] => i = j
    /\ GroupOf \in [Bases -> RAW_GROUPS] /\ "broad_stems" \in RAW_GROUPS /\ MaxAttempts \in Nat
    /\ \A t \in Targets : LET rules == TARGET_RULES[t].rules IN
         /\ rules \in Seq(ToSet(rules)) /\ rules # <<>>
         /\ \A r \in ToSet(rules) : r.group \in RAW_GROUPS /\ r.aliases \in Seq(ToSet(r.aliases))
         /\ rules[1].group = TARGET_RULES[t].group /\ rules[1].aliases # <<>> /\ rules[1].aliases[1] = t

\* An output's name: as it is, then with the stage behind it, then counted.
OutputNames == [base : Bases \cup Targets, suffix : 0..MaxAttempts]
PlainName(b) == [base |-> b, suffix |-> 0]

NoFile == [attempt |-> 0, made |-> {}, whole |-> FALSE]

\* raw maps the archived artifacts of each group to their place in candidate_stems.
NewAttempt(n, pc) ==
    [number |-> n, pc |-> pc, clean |-> \A g \in RAW_GROUPS, m \in OutputNames : groupDirs[g][m] = NoFile,
     produced |-> <<>>, copying |-> <<>>, raw |-> [g \in RAW_GROUPS |-> <<>>], selected |-> {},
     published |-> {}, missing |-> {}, rejected |-> {}]

ContractInit ==
    /\ groupDirs = [g \in RAW_GROUPS |-> [m \in OutputNames |-> NoFile]]
    /\ candidateDir = [g \in RAW_GROUPS |-> [m \in OutputNames |-> <<>>]]
    /\ attempt = [NewAttempt(0, "failed") EXCEPT !.clean = TRUE]

-----------------------------------------------------------------------------

Present(g) == {m \in OutputNames : groupDirs[g][m] # NoFile}
StartAttempt ==
    /\ attempt.pc \in {"failed", "delivered"} /\ attempt.number < MaxAttempts
    /\ attempt' = NewAttempt(attempt.number + 1, "collecting")
    /\ UNCHANGED <<groupDirs, candidateDir>>

\* A copy is written in place: it is torn until its second step.
CopyTo(g, m, audio) ==
    groupDirs' = [groupDirs EXCEPT ![g][m] = [audio EXCEPT !.whole = @ /\ attempt.copying # <<>>]]

\* _unique_artifact_path: the first name that no file has.
UniqueName(g, b) ==
    LET free == {i \in 0..MaxAttempts : groupDirs[g][[base |-> b, suffix |-> i]] = NoFile} IN
    [base |-> b, suffix |-> CHOOSE i \in free : \A j \in free : i <= j]

\* _collect_outputs copies what a model wrote; a model that failed leaves its outputs out.
CollectOutput(i) ==
    LET b == Outputs[i] IN
    /\ attempt.pc = "collecting"
    /\ \A m \in ToSet(attempt.produced) : \E j \in 1..(i - 1) : m.base = Outputs[j]
    /\ LET g == GroupOf[b]
           m == IF attempt.copying = <<>> THEN UniqueName(g, b) ELSE Head(attempt.copying) IN
       /\ m.base = b
       /\ CopyTo(g, m, [attempt |-> attempt.number, made |-> {b}, whole |-> TRUE])
       /\ attempt' = IF attempt.copying = <<>> THEN [attempt EXCEPT !.copying = <<m>>]
                     ELSE [attempt EXCEPT !.copying = <<>>, !.produced = Append(@, m)]
    /\ UNCHANGED candidateDir

\* All models have ended.
FinalizeContract ==
    /\ attempt.pc = "collecting" /\ attempt.copying = <<>>
    /\ attempt' = [attempt EXCEPT !.pc = "archiving"]
    /\ UNCHANGED <<groupDirs, candidateDir>>

\* _archive_raw_outputs moves this run's outputs and then whatever else the group's directory
\* holds, each to a path of its own, and all become candidates under their names.
ArchiveOutput(g, m) ==
    /\ attempt.pc = "archiving" /\ m \in Present(g)
    /\ LET own == SelectInSeq(attempt.produced, LAMBDA x : GroupOf[x.base] = g /\ x \in Present(g)) IN
       own # 0 => m = attempt.produced[own]
    /\ g = "broad_stems" \/ Present("broad_stems") = {}
    /\ candidateDir' = [candidateDir EXCEPT ![g][m] = Append(@, groupDirs[g][m])]
    /\ groupDirs' = [groupDirs EXCEPT ![g][m] = NoFile]
    /\ attempt' = [attempt EXCEPT !.raw[g] = Append(@, [name |-> m, place |-> Len(candidateDir'[g][m])])]

PublishTargets ==
    /\ attempt.pc = "archiving" /\ \A g \in RAW_GROUPS : Present(g) = {}
    /\ attempt' = [attempt EXCEPT !.pc = "publishing"]
    /\ UNCHANGED <<groupDirs, candidateDir>>

-----------------------------------------------------------------------------
(* The choice of a candidate. *)

CandidateOf(g, c) == [group |-> g, name |-> c.name, place |-> c.place]
Candidates(g) == {CandidateOf(g, c) : c \in ToSet(attempt.raw[g])}
NamedCandidates(g, b) == {c \in Candidates(g) : c.name = PlainName(b)}

\* _match_candidate: the first alias that is a candidate's name, or else the first candidate
\* whose name has an alias behind or between underscores.
Match(g, aliases) ==
    LET named == SelectInSeq(aliases, LAMBDA a : NamedCandidates(g, a) # {})
        loose == SelectInSeq(attempt.raw[g], LAMBDA c : LooseAliases[c.name] \cap ToSet(aliases) # {}) IN
    IF named # 0 THEN NamedCandidates(g, aliases[named])
    ELSE IF loose # 0 THEN {CandidateOf(g, attempt.raw[g][loose])} ELSE {}

\* _find_candidate: the first rule with a match.
FindCandidate(t) ==
    LET rules == TARGET_RULES[t].rules
        rule == SelectInSeq(rules, LAMBDA r : Match(r.group, r.aliases) # {}) IN
    IF rule = 0 THEN {} ELSE Match(rules[rule].group, rules[rule].aliases)

FileOf(c) == candidateDir[c.group][c.name][c.place]

\* _synthesize_instrumental: nothing unless every part is there, or else their sum.
PartsOf(t) ==
    LET parts == UNION {Match("broad_stems", <<s>>) : s \in required_stems} IN
    IF t = "instrumental" /\ \A s \in required_stems : Match("broad_stems", <<s>>) # {} THEN parts ELSE {}

SourcesOf(t) == IF FindCandidate(t) # {} THEN FindCandidate(t) ELSE PartsOf(t)

AudioOf(sources) ==
    [attempt |-> IF \A c \in sources : FileOf(c).attempt = attempt.number THEN attempt.number ELSE 0,
     made |-> UNION {FileOf(c).made : c \in sources},
     whole |-> \A c \in sources : FileOf(c).whole]

\* Broad stems come before specialist ones, and the instrumental after the other broad stems.
Turn(t) ==
    LET before(s) == TARGET_RULES[s].group = "broad_stems" /\ (s # "instrumental" \/ TARGET_RULES[t].group # "broad_stems") IN
    /\ t \notin attempt.published \cup attempt.missing
    /\ t = "instrumental" \/ TARGET_RULES[t].group # "broad_stems" =>
         \A s \in Targets : before(s) => s \in attempt.published \cup attempt.missing

-----------------------------------------------------------------------------

RecordMissing(t) ==
    /\ attempt.pc = "publishing" /\ attempt.copying = <<>> /\ Turn(t)
    /\ SourcesOf(t) = {}
    /\ attempt' = [attempt EXCEPT !.missing = @ \cup {t}]
    /\ UNCHANGED <<groupDirs, candidateDir>>

Published(t, sources) ==
    attempt' = IF attempt.copying = <<>> THEN [attempt EXCEPT !.copying = <<PlainName(t)>>]
               ELSE [attempt EXCEPT !.copying = <<>>, !.published = @ \cup {t}, !.selected = @ \cup sources]

\* Mutant: the candidate's file is moved to its target.
PublishTarget_Moves(t) ==
    /\ attempt.pc = "publishing" /\ Turn(t) /\ SourcesOf(t) # {}
    /\ attempt.copying \in {<<>>, <<PlainName(t)>>}
    /\ CopyTo(TARGET_RULES[t].group, PlainName(t), AudioOf(SourcesOf(t)))
    /\ Published(t, SourcesOf(t))
    /\ candidateDir' = IF attempt.copying = <<>> \/ FindCandidate(t) = {} THEN candidateDir
                       ELSE LET c == CHOOSE x \in FindCandidate(t) : TRUE IN
                            [candidateDir EXCEPT ![c.group][c.name][c.place] = NoFile]

\* _publish_target copies the candidate, which others may still be made of.
PublishTarget(t) ==
    /\ attempt.pc = "publishing" /\ Turn(t) /\ SourcesOf(t) # {}
    /\ attempt.copying \in {<<>>, <<PlainName(t)>>}
    /\ CopyTo(TARGET_RULES[t].group, PlainName(t), AudioOf(SourcesOf(t)))
    /\ Published(t, SourcesOf(t))
    /\ UNCHANGED candidateDir

\* _record_unselected_candidates, and the status with the stem contract.
WriteContract ==
    /\ attempt.pc = "publishing" /\ attempt.copying = <<>>
    /\ attempt.published \cup attempt.missing = Targets
    /\ attempt' = [attempt EXCEPT !.pc = "delivered",
                                  !.rejected = (UNION {Candidates(g) : g \in RAW_GROUPS}) \ attempt.selected]
    /\ UNCHANGED <<groupDirs, candidateDir>>

\* A run ends anywhere: an exception, or its container.
AttemptFails ==
    /\ attempt.pc \in {"collecting", "archiving", "publishing"}
    /\ attempt' = NewAttempt(attempt.number, "failed")
    /\ UNCHANGED <<groupDirs, candidateDir>>

ContractNext ==
    \/ StartAttempt \/ FinalizeContract \/ PublishTargets
    \/ \E i \in DOMAIN Outputs : CollectOutput(i)
    \/ \E g \in RAW_GROUPS, m \in OutputNames : ArchiveOutput(g, m)
    \/ \E t \in Targets : RecordMissing(t) \/ PublishTarget(t)
    \/ WriteContract \/ AttemptFails

ContractSpec == ContractInit /\ [][ContractNext]_contractVars

-----------------------------------------------------------------------------

File(t) == groupDirs[TARGET_RULES[t].group][PlainName(t)]

\* Whether an output counts as a stem.
StandsFor(b, s) == b = s \/ s \in LooseAliases[PlainName(b)]

\* A delivered contract accounts for every target, published with a file or missing, and for
\* everything the run's models wrote, in the product or rejected.  The files of a run that
\* found none of an earlier one are whole and of its own models: a target given in its group
\* under its own name is that output, and an instrumental made up is the sum of an output for
\* every required stem and of nothing else, though those were published before it
\* (apply_product_11_contract).
ContractDelivers ==
    attempt.pc = "delivered" =>
        /\ attempt.published \cup attempt.missing = Targets
        /\ \A t \in attempt.published : File(t).made # {}
        /\ \A m \in ToSet(attempt.produced) :
             \/ \E c \in attempt.rejected : c.name = m
             \/ \E t \in attempt.published : m.base \in File(t).made
        /\ attempt.clean =>
             \A t \in attempt.published :
               /\ File(t).whole /\ File(t).attempt = attempt.number
               /\ PlainName(t) \in ToSet(attempt.produced) /\ GroupOf[t] = TARGET_RULES[t].group =>
                    File(t).made = {t}
               /\ t = "instrumental" /\ Cardinality(File(t).made) # 1 =>
                    /\ \A s \in required_stems : \E b \in File(t).made : StandsFor(b, s)
                    /\ \A b \in File(t).made : \E s \in required_stems : StandsFor(b, s)

=============================================================================
