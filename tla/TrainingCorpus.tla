--------------------------- MODULE TrainingCorpus ---------------------------
(***************************************************************************)
(* From the audio files of a training source to the recipes of one family: *)
(* each archive's tree is audited by itself (src/splitter/                 *)
(* training_corpus.py), all accepted items are loaded and validated        *)
(* together, and recipes are made and chosen (src/training/manifests.py).  *)
(* Hash orders are arbitrary but fixed: here the order of the numbers.     *)
(***************************************************************************)
EXTENDS Naturals, FiniteSets

CONSTANTS
    Archives,      \* archives of the source
    FilePaths,     \* numbers: audio files of a tree, in path order
    Compositions,  \* numbers, in the order of their hashes
    AudioHashes,   \* audio contents
    KindOf,        \* KindOf[<<a, p>>]: "target", "negative" or "vocal"
    Usual,         \* trees that make recipes: Usual[<<a, p>>]
    Windows,       \* recipes of a target
    BUDGET,        \* recipes to choose from a stage or split
    MaxCount       \* bound: what the rules for splits and budgets are checked for

ASSUME CorpusAssumption == Archives \cup FilePaths \subseteq Nat

VARIABLES
    files,        \* what the extracted trees hold
    corpusPhase,
    items,        \* load_audited_items
    recipes,      \* build_family_recipes
    budgeted      \* apply_recipe_budget

corpusVars == <<files, corpusPhase, items, recipes, budgeted>>

Slots == Archives \X FilePaths
AudioFiles == [sha256 : AudioHashes, composition_id : Compositions, sound : BOOLEAN]

\* Trees that differ from usual ones in any one file.
CorpusInit ==
    /\ \E s \in Slots, file \in AudioFiles : files = [Usual EXCEPT ![s] = file]
    /\ corpusPhase = "audited"
    /\ items = {} /\ recipes = {} /\ budgeted = {}

-----------------------------------------------------------------------------
(* training_corpus.py                                                      *)

AtLeastOne(n) == IF n = 0 THEN 1 ELSE n

\* round(count * 0.10): a half goes to the even neighbour.
RoundTenth(count) ==
    LET q == count \div 10 IN
    IF count % 10 < 5 \/ (count % 10 = 5 /\ q % 2 = 0) THEN q ELSE q + 1

\* Mutant: a tenth, which may be none.
SplitAt_Tenth(index, count) ==
    IF count = 1 THEN "train"
    ELSE IF count = 2 THEN IF index = 0 THEN "validation" ELSE "train"
    ELSE IF index < RoundTenth(count) THEN "test"
    ELSE IF index < 2 * RoundTenth(count) THEN "validation" ELSE "train"

\* assign_grouped_splits: the split of the composition at an index of the order.
SplitAt(index, count) ==
    IF count = 1 THEN "train"
    ELSE IF count = 2 THEN IF index = 0 THEN "validation" ELSE "train"
    ELSE LET tenth == AtLeastOne(RoundTenth(count))
             part == IF 2 * tenth >= count THEN 1 ELSE tenth
         IN  IF index < part THEN "test" ELSE IF index < 2 * part THEN "validation" ELSE "train"

\* Rejected files count: a split may be left without an accepted one.
SplitOf(s) ==
    LET found == {files[<<s[1], p>>].composition_id : p \in FilePaths}
    IN  SplitAt(Cardinality({c \in found : c < files[s].composition_id}), Cardinality(found))

\* The first file of a content in its tree stands for it, also if it is rejected.
Duplicate(s) == \E p \in FilePaths : p < s[2] /\ files[<<s[1], p>>].sha256 = files[s].sha256

\* audit_training_tree
Accepted(s) == files[s].sound /\ ~Duplicate(s)

Row(s) == [slot |-> s, sha256 |-> files[s].sha256, composition_id |-> files[s].composition_id,
           split |-> SplitOf(s), kind |-> KindOf[s]]

-----------------------------------------------------------------------------
(* manifests.py                                                            *)

\* Rows come in the order of the archives and paths; the first of a content is kept.
FirstOfHash(rows) ==
    {r \in rows : \A q \in rows : q.sha256 = r.sha256 =>
        r.slot[1] < q.slot[1] \/ (r.slot[1] = q.slot[1] /\ r.slot[2] <= q.slot[2])}

\* Mutant: compositions are not compared.
Consistent_Hashes(rows) == \A r, q \in rows : r.sha256 = q.sha256 => r.split = q.split

\* _deduplicate_and_validate raises if a composition or a content crosses splits.
Consistent(rows) ==
    \A r, q \in rows : r.composition_id = q.composition_id \/ r.sha256 = q.sha256 => r.split = q.split

LoadAuditedItems ==
    /\ corpusPhase = "audited"
    /\ LET rows == {Row(s) : s \in {x \in Slots : Accepted(x)}} IN
        /\ items' = IF Consistent(rows) THEN FirstOfHash(rows) ELSE {}
        /\ corpusPhase' = IF Consistent(rows) THEN "loaded" ELSE "refused"
    /\ UNCHANGED <<files, recipes, budgeted>>

Targets == {r \in items : r.kind = "target"}

\* _minimum_stage_by_composition, of the compositions with training targets.
MinimumStage(c) ==
    LET train == {r.composition_id : r \in {x \in Targets : x.split = "train"}}
        index == Cardinality({d \in train : d < c})
        quarter == (Cardinality(train) + 3) \div 4
        half == (Cardinality(train) + 1) \div 2
    IN  IF index < quarter THEN 25 ELSE IF index < half THEN 50 ELSE 100

\* _select_interferers: another of the composition, then any of the pool of the split.
InstrumentalOf(t) ==
    {r \in items \ {t} : r.kind # "vocal" /\ (r.split = t.split \/ r.composition_id = t.composition_id)}
VocalOf(t) == {r \in items : r.kind = "vocal" /\ r.split = t.split}

\* What the recipes of a target may be made of, whatever their seeds draw.
Recipe(t) ==
    [target |-> t, split |-> t.split, sources |-> InstrumentalOf(t) \cup VocalOf(t),
     stage |-> IF t.split = "train" THEN MinimumStage(t.composition_id) ELSE 0]

\* build_family_recipes raises without training targets, two interferers and a vocal.
BuildFamilyRecipes ==
    /\ corpusPhase = "loaded"
    /\ LET possible == /\ \E t \in Targets : t.split = "train"
                       /\ \A t \in Targets : Cardinality(InstrumentalOf(t)) >= 2 /\ VocalOf(t) # {}
       IN  /\ recipes' = IF possible THEN {Recipe(t) : t \in Targets} ELSE {}
           /\ corpusPhase' = IF possible THEN "built" ELSE "refused"
    /\ UNCHANGED <<files, items, budgeted>>

\* A candidate for the budget: the n-th recipe of a composition.
CandidatesOf(counts) == UNION {{<<c, n>> : n \in 1 .. counts[c]} : c \in DOMAIN counts}

\* _select_with_composition_coverage: rounds over the compositions, one recipe of each.
SelectWithCompositionCoverage(candidates, limit) ==
    {x \in candidates :
        Cardinality({y \in candidates : y[2] < x[2] \/ (y[2] = x[2] /\ y[1] < x[1])}) < limit}

\* The recipes of a split and stage: Windows of each target of a composition.
Chosen(split, stage) ==
    LET of(c) == {x \in recipes : x.split = split /\ x.stage = stage /\ x.target.composition_id = c}
    IN  SelectWithCompositionCoverage(
            CandidatesOf([c \in {d \in Compositions : of(d) # {}} |-> Windows * Cardinality(of(c))]), BUDGET)

\* apply_recipe_budget: the first stage's budget must be met, the other splits must
\* have a recipe each.
ApplyRecipeBudget ==
    /\ corpusPhase = "built"
    /\ LET met == /\ Cardinality(Chosen("train", 25)) = BUDGET
                  /\ Chosen("validation", 0) # {} /\ Chosen("test", 0) # {}
       IN  /\ budgeted' = IF met THEN Chosen("train", 25) \cup Chosen("validation", 0) \cup Chosen("test", 0) ELSE {}
           /\ corpusPhase' = IF met THEN "written" ELSE "refused"
    /\ UNCHANGED <<files, items, recipes>>

CorpusNext == LoadAuditedItems \/ BuildFamilyRecipes \/ ApplyRecipeBudget

CorpusSpec == CorpusInit /\ [][CorpusNext]_corpusVars

-----------------------------------------------------------------------------

\* Nothing leaks between the splits: all that a recipe may be made of belongs to its
\* split, no content is loaded twice, and no composition is on two sides, however
\* duplicates, rejected files and archives audited apart shift the splits
\* (audit_training_tree, _deduplicate_and_validate, build_family_recipes).
SplitsApart ==
    /\ \A x \in recipes : \A r \in x.sources : r.split = x.split
    /\ \A x, y \in recipes : x.split # y.split =>
        {r.composition_id : r \in x.sources \cup {x.target}} \cap {r.composition_id : r \in y.sources \cup {y.target}} = {}
    /\ \A r, q \in items : r.sha256 = q.sha256 => r = q

\* The rules cover what they are to cover: with three compositions or more each split
\* has one and training the most (assign_grouped_splits), and no composition gets two
\* recipes more than another that has one left (_select_with_composition_coverage).
RulesCover == files = Usual /\ corpusPhase = "audited" =>
    /\ \A count \in 3 .. MaxCount :
        LET size(split) == Cardinality({i \in 0 .. count - 1 : SplitAt(i, count) = split})
        IN  size("test") >= 1 /\ size("validation") >= 1 /\ size("train") >= size("test")
    /\ \A counts \in [1 .. 3 -> 0 .. 3], limit \in 1 .. 9 :
        LET chosen == SelectWithCompositionCoverage(CandidatesOf(counts), limit)
            taken(c) == Cardinality({x \in chosen : x[1] = c})
        IN  /\ Cardinality(chosen) = Cardinality(CandidatesOf(counts)) \/ Cardinality(chosen) = limit
            /\ \A c, d \in 1 .. 3 : taken(c) < counts[c] => taken(d) <= taken(c) + 1

=============================================================================
