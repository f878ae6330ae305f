---------------------------- MODULE ZipSelection ----------------------------
(***************************************************************************)
(* Entries of a remote ZIP archive, downloaded without the archive         *)
(* (src/splitter/training_data_acquisition.py): neighbouring entries are   *)
(* merged into runs, a run's bytes go to a block file through part files,  *)
(* and entries are cut out of the block and verified.  What a call that is *)
(* cut short leaves is used again, also after the selection was revised.   *)
(* The bytes of the archive are its positions.                             *)
(***************************************************************************)
EXTENDS Naturals, Sequences, FiniteSets

CONSTANTS
    Entries,     \* 1 .. n, in the order of their local headers
    Offset,      \* Offset[e]: local_header_offset
    ARCHIVESIZE, \* archive_size
    MAXGAP,      \* REMOTE_ZIP_SELECTION_MAX_GAP_BYTES
    MaxCuts,     \* bound: calls that are cut short
    MaxRevisions \* bound: revisions of the selection

ASSUME ZipAssumption ==
    /\ {ARCHIVESIZE, MAXGAP, MaxCuts, MaxRevisions} \subseteq Nat
    /\ Entries \subseteq Nat
    /\ Offset \in [Entries -> 1 .. ARCHIVESIZE]

VARIABLES
    tool,       \* acquire_remote_zip_"selection", or _"manifest"
    wanted,     \* the entries asked for under the selection's name
    zipPhase,   \* the statement the call has reached
    plan,       \* the runs to go, named by their first entries
    planned,    \* the entries they are made for
    blocks,     \* the files of block_root
    tree,       \* the entries in target_root, and whether their bytes are right
    receiptOf,  \* the selection of the receipt
    returned,   \* the selection the last call returned
    cuts, revisions

zipVars == <<tool, wanted, zipPhase, plan, planned, blocks, tree, receiptOf, returned, cuts, revisions>>

Selections == (SUBSET Entries) \ {{}}
Span(first, last) == [i \in 1 .. (last + 1) - first |-> first + i - 1]
Largest(S) == CHOOSE n \in S : \A k \in S : k <= n
Least(m, n) == IF m < n THEN m ELSE n
Smallest(S) == CHOOSE n \in S : \A k \in S : n <= k

\* An entry's record ends where the next one's header is.
RecordEnd(e) == IF e + 1 \in Entries THEN Offset[e + 1] - 1 ELSE ARCHIVESIZE

\* _remote_zip_selection_runs: an entry begins a run unless the last one is near.
Begins(e, sel) ==
    \A p \in sel : p < e /\ (\A q \in sel : q < e => q <= p) => Offset[e] > (RecordEnd(p) + 1) + MAXGAP
Runs == [sel \in SUBSET Entries |-> {e \in sel : Begins(e, sel)}]
RunEntries == [sel \in SUBSET Entries |->
    [r \in Runs[sel] |-> {e \in sel : e >= r /\ \A q \in Runs[sel] : q <= r \/ q > e}]]
RunEnd(r, sel) == RecordEnd(Largest(RunEntries[sel][r]))
RunSize(r, sel) == (RunEnd(r, sel) + 1) - Offset[r]

ZipInit ==
    /\ tool \in {"selection", "manifest"}
    /\ wanted \in Selections
    /\ zipPhase = "idle"
    /\ plan = {} /\ planned = {}
    /\ blocks = <<>>
    /\ tree = [e \in Entries |-> "absent"]
    /\ receiptOf = {} /\ returned = {}
    /\ cuts = 0 /\ revisions = 0

\* The call under way is over, with or without an answer.
EndCall ==
    /\ zipPhase' = "idle"
    /\ plan' = {} /\ planned' = {}

Unselected == UNCHANGED <<tool, wanted, revisions>>

-----------------------------------------------------------------------------

ReviseSelection ==
    /\ zipPhase = "idle" /\ revisions < MaxRevisions
    /\ wanted' \in Selections \ {wanted}
    /\ revisions' = revisions + 1
    /\ UNCHANGED <<tool, zipPhase, plan, planned, blocks, tree, receiptOf, returned, cuts>>

\* acquire_remote_zip_selection is content with a receipt of the same selection whose
\* files are there.
ReturnPrior ==
    /\ zipPhase = "idle" /\ tool = "selection"
    /\ receiptOf = wanted
    /\ \A e \in wanted : tree[e] # "absent"
    /\ returned' = wanted
    /\ Unselected /\ UNCHANGED <<zipPhase, plan, planned, blocks, tree, receiptOf, cuts>>

\* All of the selection; of a manifest only what does not verify.
PlanRuns ==
    /\ zipPhase = "idle"
    /\ tool = "selection" /\ receiptOf = wanted => \E e \in wanted : tree[e] = "absent"
    /\ planned' = IF tool = "selection" THEN wanted ELSE {e \in wanted : tree[e] # "right"}
    /\ plan' = Runs[planned']
    /\ zipPhase' = "downloading"
    /\ Unselected /\ UNCHANGED <<blocks, tree, receiptOf, returned, cuts>>

Current == Smallest(plan)

\* A selection's block is named by its place in the plan, a manifest's by its range.
BlockName(r, sel) ==
    IF tool = "selection" THEN <<Cardinality({q \in Runs[sel] : q < r})>>
    ELSE <<Offset[r], RunEnd(r, sel)>>

Workers == 2    \* TRAINING_DOWNLOAD_WORKERS
Chunk == (RunSize(Current, planned) + Workers - 1) \div Workers
PartRange(k) == <<Offset[Current] + k * Chunk, Least(RunEnd(Current, planned), Offset[Current] + (k + 1) * Chunk - 1)>>
PartNo(k) == BlockName(Current, planned) \o <<k, "part">>
PartNos == {k \in 0 .. Workers - 1 : PartRange(k)[1] <= RunEnd(Current, planned)}

Size(range) == (range[2] + 1) - range[1]
In(files, name) == IF name \in DOMAIN files THEN files[name] ELSE <<>>
Held(name) == In(blocks, name)
With(files, name, file) == [n \in DOMAIN files \cup {name} |-> IF n = name THEN file ELSE files[n]]
Without(files, names) == [n \in DOMAIN files \ names |-> files[n]]

\* A block of another size becomes the first part, if there is none and it is not too long.
Adopted ==
    LET name == BlockName(Current, planned) IN
    IF Held(name) = <<>> \/ Held(PartNo(0)) # <<>> THEN blocks
    ELSE IF Len(Held(name)) <= Size(PartRange(0)) THEN With(Without(blocks, {name}), PartNo(0), Held(name))
    ELSE Without(blocks, {name})

\* A part once it has n bytes, after the adoption: what it held is taken for their
\* beginning unless it is too long.
Grown(adopted, k, n) ==
    LET held == In(adopted, PartNo(k))
        existing == IF Len(held) > Size(PartRange(k)) THEN <<>> ELSE held
    IN  existing \o Span(PartRange(k)[1] + Len(existing), PartRange(k)[1] + n - 1)

Assembled(adopted) ==
    Grown(adopted, 0, Size(PartRange(0)))
        \o (IF 1 \in PartNos THEN Grown(adopted, 1, Size(PartRange(1))) ELSE <<>>)

\* _download_http_block_parallel: a block of the right size is taken as it is.
DownloadBlock ==
    /\ zipPhase = "downloading" /\ plan # {}
    /\ LET name == BlockName(Current, planned) IN
        blocks' = IF Len(Held(name)) = RunSize(Current, planned) THEN blocks
                  ELSE With(Without(Adopted, {PartNo(k) : k \in PartNos}), name, Assembled(Adopted))
    /\ zipPhase' = "extracting"
    /\ Unselected /\ UNCHANGED <<plan, planned, tree, receiptOf, returned, cuts>>

\* The call dies with its parts as far as they came.
CutDownload ==
    /\ zipPhase = "downloading" /\ plan # {} /\ cuts < MaxCuts
    /\ Len(Held(BlockName(Current, planned))) # RunSize(Current, planned)
    /\ \E adopted \in {Adopted}, n \in [PartNos -> 0 .. Size(PartRange(0))] :
        /\ \A k \in PartNos : n[k] <= Size(PartRange(k))
        /\ \E part \in {[k \in PartNos |-> Grown(adopted, k, n[k])]} :
            LET grown == {k \in PartNos : part[k] # <<>>}
                filled == [k \in grown |-> PartNo(k)]
                others == [p \in DOMAIN adopted \ {filled[k] : k \in grown} |-> adopted[p]]
            IN  blocks' = [p \in DOMAIN others \cup {filled[k] : k \in grown} |->
                              IF p \in DOMAIN others THEN others[p] ELSE part[p[Len(p) - 1]]]
    /\ cuts' = cuts + 1
    /\ EndCall
    /\ Unselected /\ UNCHANGED <<tree, receiptOf, returned>>

\* The bytes that the block has where the entry's record should be.
Record(e) ==
    SubSeq(Held(BlockName(Current, planned)), (Offset[e] + 1) - Offset[Current], (RecordEnd(e) + 1) - Offset[Current])

Good(e) == tree[e] = "right" \/ Record(e) = Span(Offset[e], RecordEnd(e))
GoodUpTo(last) == {e \in RunEntries[planned][Current] : e <= last /\ \A q \in RunEntries[planned][Current] : q <= e => Good(q)}
TreeWith(es) == [e \in Entries |-> IF e \in es THEN "right" ELSE tree[e]]

\* Mutant: size and checksum are not compared.
ExtractRun_Unverified ==
    /\ zipPhase = "extracting"
    /\ tree' = [e \in Entries |-> IF e \notin RunEntries[planned][Current] THEN tree[e]
                                 ELSE IF Good(e) THEN "right" ELSE "wrong"]
    /\ blocks' = Without(blocks, {BlockName(Current, planned)})
    /\ plan' = plan \ {Current}
    /\ zipPhase' = "downloading"
    /\ Unselected /\ UNCHANGED <<planned, receiptOf, returned, cuts>>

\* _extract_remote_zip_entry for each entry of the run, and the block is removed;
\* other bytes than the entry's are refused, and the call fails.
ExtractRun ==
    /\ zipPhase = "extracting"
    /\ LET run == RunEntries[planned][Current]
           good == GoodUpTo(Largest(run)) IN
        /\ tree' = TreeWith(good)
        /\ IF good = run
           THEN /\ blocks' = Without(blocks, {BlockName(Current, planned)})
                /\ plan' = plan \ {Current}
                /\ zipPhase' = "downloading"
                /\ UNCHANGED planned
           ELSE EndCall /\ UNCHANGED blocks
    /\ Unselected /\ UNCHANGED <<receiptOf, returned, cuts>>

CutExtraction ==
    /\ zipPhase \in {"extracting", "pruned"} /\ cuts < MaxCuts
    /\ \E last \in {0} \cup Entries : tree' = IF zipPhase = "pruned" THEN tree ELSE TreeWith(GoodUpTo(last))
    /\ cuts' = cuts + 1
    /\ EndCall
    /\ Unselected /\ UNCHANGED <<blocks, receiptOf, returned>>

\* _prune_selection_root, of a manifest only, after every entry was verified again.
PruneSelectionRoot ==
    /\ zipPhase = "downloading" /\ plan = {} /\ tool = "manifest"
    /\ \A e \in wanted : tree[e] = "right"
    /\ tree' = [e \in Entries |-> IF e \in wanted THEN tree[e] ELSE "absent"]
    /\ zipPhase' = "pruned"
    /\ Unselected /\ UNCHANGED <<plan, planned, blocks, receiptOf, returned, cuts>>

\* A manifest's call removes stale blocks and then their directory; a selection's call
\* fails at the directory if there are any.
WriteReceipt ==
    /\ \/ zipPhase = "pruned"
       \/ zipPhase = "downloading" /\ plan = {} /\ tool = "selection"
    /\ IF tool = "manifest" \/ blocks = <<>>
       THEN receiptOf' = wanted /\ returned' = wanted /\ blocks' = <<>>
       ELSE UNCHANGED <<receiptOf, returned, blocks>>
    /\ EndCall
    /\ Unselected /\ UNCHANGED <<tree, cuts>>

ZipStep ==
    \/ ReturnPrior \/ PlanRuns \/ DownloadBlock \/ ExtractRun
    \/ PruneSelectionRoot \/ WriteReceipt

ZipNext == ZipStep \/ ReviseSelection \/ CutDownload \/ CutExtraction

ZipSpec == ZipInit /\ [][ZipNext]_zipVars /\ WF_zipVars(ZipStep)

-----------------------------------------------------------------------------

\* A call that returns has every entry it was asked for, with the archive's bytes,
\* whatever older calls and other selections of the name left in the block files; a
\* manifest's tree has nothing else (acquire_remote_zip_selection, _manifest).
SelectedWhole ==
    [][returned' # returned =>
        /\ \A e \in returned' : tree'[e] = "right"
        /\ tool = "manifest" => \A e \in Entries \ returned' : tree'[e] = "absent"]_zipVars

\* A manifest that is not revised any more is acquired however often calls were cut
\* short: none of what they left stops the next call.  This is not so of a selection,
\* whose block files are named by their place.
ManifestAcquired == tool = "manifest" => <>[](returned = wanted)

=============================================================================
