---------------------------- MODULE ModalVolume ----------------------------
(***************************************************************************)
(* A Modal volume and the functions that work on it                        *)
(* (src/workers/specialist_training_modal.py).  A container sees the       *)
(* volume as it was when it started, with its own writes; its writes       *)
(* become visible when it commits, or whenever Modal commits for it; it    *)
(* may die at any statement.                                               *)
(***************************************************************************)
EXTENDS Naturals, FiniteSets

CONSTANTS
    Touched,       \* Touched[f]: the files that function f reads or writes
    MaxCalls,      \* bound: functions that run at a time
    MaxDeaths      \* bound: containers that die

ASSUME VolumeAssumption == {MaxCalls, MaxDeaths} \subseteq Nat

VARIABLES
    called,      \* the functions that are called at all
    volume,      \* what is committed
    view,        \* view[f]: the files of f as its container sees them
    dirty,       \* dirty[f]: the files it has written since the last commit
    reached,     \* reached[f]: the statement of f
    deaths

volumeVars == <<called, volume, view, dirty, reached, deaths>>

Functions == DOMAIN Touched
VolumePaths == UNION {Touched[f] : f \in Functions}

Missing == 0   \* no file
Broken == 99   \* a file, or a tree, that is not whole

Running == {f \in Functions : reached[f] # "idle"}

\* The view of a function that does not run.
NoView(f) == [p \in Touched[f] |-> Missing]

VolumeInit(functions, files) ==
    /\ called = functions
    /\ volume = files
    /\ view = [f \in Functions |-> NoView(f)]
    /\ dirty = [f \in Functions |-> {}]
    /\ reached = [f \in Functions |-> "idle"]
    /\ deaths = 0

\* The volume with the files that a container has written.
Merged(f) == [p \in VolumePaths |-> IF p \in dirty[f] THEN view[f][p] ELSE volume[p]]

\* A function starts if what it needs is there; it raises at once otherwise.
Start(f, needs, first) ==
    /\ f \in called /\ reached[f] = "idle" /\ Cardinality(Running) < MaxCalls
    /\ \A p \in needs : volume[p] # Missing
    /\ view' = [view EXCEPT ![f] = [p \in Touched[f] |-> volume[p]]]
    /\ reached' = [reached EXCEPT ![f] = first]
    /\ UNCHANGED <<called, volume, dirty, deaths>>

\* One statement of f: it writes files of its view.
Statement(f, from, to, written) ==
    /\ reached[f] = from
    /\ reached' = [reached EXCEPT ![f] = to]
    /\ view' = [view EXCEPT ![f] = [p \in Touched[f] |-> IF p \in DOMAIN written THEN written[p] ELSE @[p]]]
    /\ dirty' = [dirty EXCEPT ![f] = @ \cup DOMAIN written]
    /\ UNCHANGED <<called, volume, deaths>>

Put(p, value) == [q \in {p} |-> value]
Remove(ps) == [q \in ps |-> Missing]
Nothing == Remove({})

\* The function is over and what it wrote is on the volume.
Over(f) ==
    /\ reached' = [reached EXCEPT ![f] = "idle"]
    /\ volume' = Merged(f)
    /\ dirty' = [dirty EXCEPT ![f] = {}]
    /\ view' = [view EXCEPT ![f] = NoView(f)]
    /\ UNCHANGED <<called, deaths>>

\* An exception; the container's files outlive it.
Raise(f, from) == reached[f] = from /\ Over(f)

\* training_volume.commit, and the return.
CommitAndReturn(f) == reached[f] = "committing" /\ Over(f)

BackgroundVolumeCommit(f) ==
    /\ f \in Running /\ dirty[f] # {}
    /\ volume' = Merged(f)
    /\ dirty' = [dirty EXCEPT ![f] = {}]
    /\ UNCHANGED <<called, view, reached, deaths>>

ContainerDies(f) ==
    /\ f \in Running /\ deaths < MaxDeaths
    /\ deaths' = deaths + 1
    /\ reached' = [reached EXCEPT ![f] = "idle"]
    /\ dirty' = [dirty EXCEPT ![f] = {}]
    /\ view' = [view EXCEPT ![f] = NoView(f)]
    /\ UNCHANGED <<called, volume>>

ModalStep == \E f \in Functions : BackgroundVolumeCommit(f) \/ ContainerDies(f)

=============================================================================
