--------------------------- MODULE RangeDownload ---------------------------
(***************************************************************************)
(* The parallel download of a large training archive                       *)
(* (src/splitter/training_data_acquisition.py, _download_http_ranges): its *)
(* ranges go to part files, what is left of a part may be split once more  *)
(* into resume files, and whatever an interrupted call left behind is the  *)
(* prefix the next call starts from.  A file is the sequence of the        *)
(* archive's bytes it holds, by position; an empty file counts as none.    *)
(* Each call splits the archive for as many workers as the environment     *)
(* then says.                                                              *)
(***************************************************************************)
EXTENDS Naturals, Sequences, FiniteSets

CONSTANTS
    SIZE,             \* size_bytes of the archive, in units
    WORKERS,          \* bound: the largest TRAINING_DOWNLOAD_WORKERS of a call
    MaxInterruptions  \* bound: calls that are cut short

math_ceil_div(value, divisor) == (value + divisor - 1) \div divisor

\* An archive of a block for each worker but one leaves no range empty.
ASSUME RangeAssumption ==
    /\ {SIZE, WORKERS, MaxInterruptions} \subseteq Nat /\ WORKERS > 1
    /\ \A n \in 2 .. WORKERS : (n - 1) * math_ceil_div(SIZE, n) < SIZE

VARIABLES
    checksummed,    \* whether the provider states a checksum
    configured,     \* the workers of this call
    rangePhase,     \* the statement the call has reached
    partFiles,          \* the hidden files beside the target
    jobsPlanned,    \* download_jobs: the range each file is to hold
    target,         \* the target file
    rangeReceipt,   \* whether a receipt was written
    interruptions   \* how many calls were cut short

rangeVars == <<checksummed, configured, rangePhase, partFiles, jobsPlanned, target, rangeReceipt, interruptions>>

Parts == 0 .. WORKERS - 1
Partial == <<>>                     \* .part
Part(k) == <<k>>                    \* .part.00k
Resume(k, i) == <<k, i>>            \* .part.00k.resume.00i
Paths == {Partial} \cup {Part(k) : k \in Parts} \cup {Resume(k, i) : k \in Parts, i \in Parts}

Smaller(m, n) == IF m < n THEN m ELSE n

Bytes(first, last) == [i \in 1 .. (last + 1) - first |-> first + i - 1]
Archive == Bytes(1, SIZE)

\* chunk_size and ranges for n workers.
PartFirst(n, k) == k * math_ceil_div(SIZE, n) + 1
PartLast(n, k) == Smaller(SIZE, (k + 1) * math_ceil_div(SIZE, n))
PartSize(n, k) == (PartLast(n, k) + 1) - PartFirst(n, k)

RangeInit ==
    /\ checksummed \in BOOLEAN
    /\ configured = WORKERS
    /\ rangePhase = "called"
    /\ partFiles = [p \in Paths |-> <<>>]
    /\ jobsPlanned = <<>>
    /\ target = <<>>
    /\ rangeReceipt = FALSE
    /\ interruptions = 0

Emptied(fs, paths) == [p \in Paths |-> IF p \in paths THEN <<>> ELSE fs[p]]

-----------------------------------------------------------------------------

\* A single partial file of an earlier call becomes the first part if it fits there;
\* parts that are too long are dropped.
Inherited(n) ==
    LET moved == IF partFiles[Partial] # <<>> /\ partFiles[Part(0)] = <<>>
                    /\ Len(partFiles[Partial]) <= math_ceil_div(SIZE, n)
                 THEN [partFiles EXCEPT ![Part(0)] = partFiles[Partial], ![Partial] = <<>>]
                 ELSE IF partFiles[Part(0)] = <<>> THEN Emptied(partFiles, {Partial}) ELSE partFiles
    IN  Emptied(moved, {Part(k) : k \in {x \in 0 .. n - 1 : Len(moved[Part(x)]) > PartSize(n, x)}})

\* The idle workers go one by one to the part with most left for each of its workers.
WorkersOf(n, incomplete, remaining) ==
    LET neediest(w) == CHOOSE k \in incomplete : \A x \in incomplete :
            \/ remaining[k] * w[x] > remaining[x] * w[k]
            \/ remaining[k] * w[x] = remaining[x] * w[k] /\ k <= x
        dealt[m \in Nat] == IF m = 0 THEN [k \in incomplete |-> 1]
                            ELSE [dealt[m - 1] EXCEPT ![neediest(dealt[m - 1])] = @ + 1]
    IN  IF incomplete = {} THEN <<>> ELSE dealt[n - Cardinality(incomplete)]

\* The range of each file that a worker is to fill.
JobRanges(n, fs) ==
    LET remaining == [k \in 0 .. n - 1 |-> PartSize(n, k) - Len(fs[Part(k)])]
        incomplete == {k \in 0 .. n - 1 : remaining[k] > 0}
        workers == WorkersOf(n, incomplete, remaining)
        piece(k) == math_ceil_div(remaining[k], workers[k])
        from(k, i) == PartFirst(n, k) + Len(fs[Part(k)]) + i * piece(k)
        alone == {Part(k) : k \in {x \in incomplete : workers[x] = 1}}
        split == {Resume(k, i) : k \in {x \in incomplete : workers[x] > 1}, i \in Parts}
        wanted == {p \in split : p[2] < workers[p[1]] /\ from(p[1], p[2]) <= PartLast(n, p[1])}
    IN  [p \in alone \cup wanted |->
            IF Len(p) = 1 THEN <<PartFirst(n, p[1]), PartLast(n, p[1])>>
            ELSE <<from(p[1], p[2]), Smaller(PartLast(n, p[1]), from(p[1], p[2]) + piece(p[1]) - 1)>>]

\* Whatever split the files come from.
PlanRanges ==
    /\ rangePhase = "called"
    /\ \E n \in 2 .. WORKERS :
        /\ configured' = n
        /\ partFiles' = Inherited(n)
        /\ jobsPlanned' = JobRanges(n, partFiles')
    /\ rangePhase' = "downloading"
    /\ UNCHANGED <<checksummed, target, rangeReceipt, interruptions>>

\* What a file holds once n bytes of its range are there: what it held is taken for
\* the beginning of the range, unless it is too long.
Received(p, n) ==
    LET first == jobsPlanned[p][1]
        expected == (jobsPlanned[p][2] + 1) - first
        existing == IF Len(partFiles[p]) > expected THEN <<>> ELSE partFiles[p]
    IN  existing \o Bytes(first + Len(existing), first + n - 1)

DownloadRanges ==
    /\ rangePhase = "downloading"
    /\ partFiles' = [p \in Paths |-> IF p \in DOMAIN jobsPlanned
                                 THEN Received(p, (jobsPlanned[p][2] + 1) - jobsPlanned[p][1]) ELSE partFiles[p]]
    /\ rangePhase' = "merging"
    /\ UNCHANGED <<checksummed, configured, jobsPlanned, target, rangeReceipt, interruptions>>

CutShort(phase) ==
    /\ rangePhase = phase
    /\ interruptions < MaxInterruptions
    /\ interruptions' = interruptions + 1
    /\ rangePhase' = "called"
    /\ jobsPlanned' = <<>>
    /\ UNCHANGED <<checksummed, configured, rangeReceipt>>

\* Each job is left as far as it came.
InterruptDownload ==
    /\ CutShort("downloading")
    /\ \E came \in [DOMAIN jobsPlanned -> 0 .. SIZE] :
        /\ \A p \in DOMAIN jobsPlanned : came[p] <= (jobsPlanned[p][2] + 1) - jobsPlanned[p][1]
        /\ partFiles' = [p \in Paths |-> IF p \in DOMAIN jobsPlanned THEN Received(p, came[p]) ELSE partFiles[p]]
    /\ UNCHANGED target

\* The parts and resume files that this call's split names.
OwnPaths == {p \in Paths : p # Partial /\ p[1] < configured}

\* _download_http_single streams what the partial file lacks, or all of it if the
\* provider ignores the range.
Streamed(prefix, n) == {prefix \o Bytes(Len(prefix) + 1, n), Bytes(1, n)}

\* _RangeDownloadUnsupported, as far as the other ranges came: the first part becomes the
\* partial file of one stream and this split's other files go.
FirstPartSoFar ==
    IF Part(0) \in DOMAIN jobsPlanned THEN {Received(Part(0), n) : n \in 0 .. PartSize(configured, 0)}
    ELSE {partFiles[Part(0)]}

DownloadSingle ==
    /\ rangePhase = "downloading"
    /\ \E prefix \in FirstPartSoFar : target' \in Streamed(prefix, SIZE)
    /\ partFiles' = Emptied(partFiles, OwnPaths \cup {Partial})
    /\ rangePhase' = "verifying"
    /\ UNCHANGED <<checksummed, configured, jobsPlanned, rangeReceipt, interruptions>>

InterruptSingle ==
    /\ CutShort("downloading")
    /\ \E prefix \in FirstPartSoFar, n \in 1 .. SIZE : \E streamed \in Streamed(prefix, n) :
        partFiles' = [Emptied(partFiles, OwnPaths) EXCEPT ![Partial] = streamed]
    /\ UNCHANGED target

\* A call with one worker goes on with the partial file; if that is whole already, the
\* provider refuses the empty range, at every such call.
DownloadAlone ==
    /\ rangePhase = "called" /\ Len(partFiles[Partial]) < SIZE
    /\ configured' = 1
    /\ target' \in Streamed(partFiles[Partial], SIZE)
    /\ partFiles' = Emptied(partFiles, {Partial})
    /\ rangePhase' = "verifying"
    /\ UNCHANGED <<checksummed, jobsPlanned, rangeReceipt, interruptions>>

InterruptAlone ==
    /\ CutShort("called") /\ Len(partFiles[Partial]) < SIZE
    /\ \E n \in 1 .. SIZE : \E streamed \in Streamed(partFiles[Partial], n) :
        partFiles' = [partFiles EXCEPT ![Partial] = streamed]
    /\ UNCHANGED target

Groups == {p \in DOMAIN jobsPlanned : Len(p) = 2}
NextResume == {p \in Groups : partFiles[p] # <<>> /\ \A q \in Groups : q[1] = p[1] /\ partFiles[q] # <<>> => p[2] <= q[2]}

MergeResume ==
    /\ rangePhase = "merging"
    /\ \E p \in NextResume :
        partFiles' = [partFiles EXCEPT ![Part(p[1])] = @ \o partFiles[p], ![p] = <<>>]
    /\ UNCHANGED <<checksummed, configured, rangePhase, jobsPlanned, target, rangeReceipt, interruptions>>

\* Cut short while it appends, or before it removes what it has appended.
InterruptMerge ==
    /\ CutShort("merging")
    /\ \E p \in NextResume, n \in 1 .. SIZE :
        /\ n <= Len(partFiles[p])
        /\ partFiles' = [partFiles EXCEPT ![Part(p[1])] = @ \o SubSeq(partFiles[p], 1, n)]
    /\ UNCHANGED target

Combined ==
    LET upTo[k \in Nat] == IF k = 0 THEN <<>> ELSE upTo[k - 1] \o partFiles[Part(k - 1)]
    IN  upTo[configured]

CombineParts ==
    /\ rangePhase = "merging" /\ NextResume = {}
    /\ \A k \in 0 .. configured - 1 : Len(partFiles[Part(k)]) = PartSize(configured, k)
    /\ partFiles' = [partFiles EXCEPT ![Partial] = Combined]
    /\ rangePhase' = "combined"
    /\ UNCHANGED <<checksummed, configured, jobsPlanned, target, rangeReceipt, interruptions>>

InterruptCombine ==
    /\ CutShort("merging") /\ NextResume = {}
    /\ \E n \in 1 .. SIZE : partFiles' = [partFiles EXCEPT ![Partial] = SubSeq(Combined, 1, n)]
    /\ UNCHANGED target

\* Mutant: the parts stay for the next call.
ReplaceTarget_KeepsParts ==
    /\ rangePhase = "combined"
    /\ target' = partFiles[Partial]
    /\ partFiles' = Emptied(partFiles, {Partial})
    /\ rangePhase' = "verifying"
    /\ UNCHANGED <<checksummed, configured, jobsPlanned, rangeReceipt, interruptions>>

ReplaceTarget ==
    /\ rangePhase = "combined"
    /\ target' = partFiles[Partial]
    /\ partFiles' = Emptied(partFiles, OwnPaths \cup {Partial})
    /\ rangePhase' = "verifying"
    /\ UNCHANGED <<checksummed, configured, jobsPlanned, rangeReceipt, interruptions>>

\* Cut short between two removals.
InterruptCleanup ==
    /\ CutShort("combined")
    /\ \E k \in 0 .. configured - 1 : partFiles' = Emptied(partFiles, {p \in OwnPaths : p[1] <= k})
    /\ UNCHANGED target

\* acquire_source_file: size and, if the provider states one, checksum; then the receipt.
\* A target that fails stays, and the next call downloads it again.
VerifyDownload ==
    /\ rangePhase = "verifying"
    /\ LET verified == IF checksummed THEN target = Archive ELSE Len(target) = SIZE
       IN  /\ rangePhase' = IF verified THEN "acquired" ELSE "called"
           /\ rangeReceipt' = verified
    /\ UNCHANGED <<checksummed, configured, partFiles, jobsPlanned, target, interruptions>>

RangeStep ==
    PlanRanges \/ DownloadRanges \/ MergeResume \/ CombineParts \/ ReplaceTarget \/ VerifyDownload

RangeNext ==
    \/ RangeStep \/ DownloadSingle \/ DownloadAlone
    \/ InterruptDownload \/ InterruptSingle \/ InterruptAlone \/ InterruptMerge \/ InterruptCombine \/ InterruptCleanup

RangeSpec == RangeInit /\ [][RangeNext]_rangeVars /\ WF_rangeVars(RangeStep)

-----------------------------------------------------------------------------

\* A mixture is not assembled for ever, whatever splits the calls came with: once they
\* are not cut short any more and have workers for ranges, one of them acquires an archive
\* (_download_http_ranges removes every part it combined).  A single call may well assemble
\* a mixture; without a provider's checksum it is accepted, for it has the right size.
EventuallyAcquired == <>rangeReceipt

=============================================================================
