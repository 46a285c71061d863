----------------------------- MODULE ConfigStore ------------------------------
(* Settings of the engine (config/config.go behind httpapi/routes_config.go):   *)
(* defaults, overrides in memory and in config.json, set and removed one path   *)
(* at a time under a mutex, written by way of a temporary file that is renamed, *)
(* with steps that fail and an engine that stops anywhere.                     *)
EXTENDS Integers

CONSTANTS
    Marks,          \* values of the watermarks, in tenths, valid and invalid ones
    DefaultHigh, DefaultLow,
    MaxConfigStops  \* bound

ASSUME ConfigConstants ==
    /\ Marks \subseteq Nat
    /\ DefaultHigh \in 1..10 /\ DefaultLow \in 1..10 /\ DefaultLow < DefaultHigh

NoMark == -1        \* no override
Null == -2          \* null, which validateValue accepts
Leaves == {"highWatermark", "lowWatermark"}
Torn == [x \in Leaves |-> -3]   \* a file that is not valid JSON

VARIABLES
    cfDisk, cfDurable,               \* config.json and whether its content is synced
    cfTempDurable,                   \* whether the temporary file is
    cfSynced,     \* what the directory entry is after a power failure
    cfMem,        \* overrides of the running engine
    cfNext, cfPc, \* the change under way
    cfUp,         \* the engine runs
    cfStops,
    cfUnchecked,  \* history: a change whose constraint nobody checks
    cfStray       \* history: the file was replaced and the change reported as failed

configVars == <<cfDisk, cfDurable, cfTempDurable, cfSynced, cfMem, cfNext, cfPc, cfUp, cfStops, cfUnchecked, cfStray>>
cfFiles == <<cfDisk, cfDurable, cfTempDurable, cfSynced>>
cfRest == <<cfUp, cfStops, cfUnchecked, cfStray>>

NoOverrides == [x \in Leaves |-> NoMark]

ConfigInit ==
    /\ cfDisk = NoOverrides /\ cfDurable = TRUE /\ cfTempDurable = TRUE /\ cfSynced = NoOverrides
    /\ cfMem = NoOverrides /\ cfNext = NoOverrides /\ cfPc = "idle" /\ cfUp = TRUE
    /\ cfStops = 0 /\ cfUnchecked = FALSE /\ cfStray = FALSE

\* mergeMaps of the defaults and the overrides; null overrides a default with null.
Effective(o) ==
    [x \in Leaves |-> IF o[x] # NoMark THEN o[x] ELSE IF x = "highWatermark" THEN DefaultHigh ELSE DefaultLow]

validateValue(v) == v = Null \/ (v > 0 /\ v <= 10)

\* Mutant of validateCacheConstraints.
ConstraintsOfLow(x, o) ==
    x = "lowWatermark" => Effective(o)["lowWatermark"] < Effective(o)["highWatermark"] \/ Null \in {o[y] : y \in Leaves}

\* The low watermark is below the high one; a null high counts as the default, a
\* null low is not compared.
validateCacheConstraints(x, o) ==
    LET e == Effective(o)
        high == IF e["highWatermark"] = Null THEN DefaultHigh ELSE e["highWatermark"] IN
    validateValue(high) /\ (e["lowWatermark"] # Null => validateValue(e["lowWatermark"]) /\ e["lowWatermark"] < high)

BeginChange(o) == cfNext' = o /\ cfPc' = "temp"

\* Set of one watermark under its own path.
SetMark(x, v) ==
    /\ cfUp /\ cfPc = "idle"
    /\ validateValue(v)
    /\ validateCacheConstraints(x, [cfMem EXCEPT ![x] = v])
    /\ BeginChange([cfMem EXCEPT ![x] = v])
    /\ UNCHANGED <<cfFiles, cfMem, cfRest>>

\* Set of one watermark under another spelling of its path: parsePath drops blanks
\* around it and a dot behind it, validateValue and the constraint compare it as sent.
SetMarkRespelled(x, v) ==
    /\ cfUp /\ cfPc = "idle"
    /\ BeginChange([cfMem EXCEPT ![x] = v])
    /\ cfUnchecked' = TRUE
    /\ UNCHANGED <<cfFiles, cfMem, cfUp, cfStops, cfStray>>

\* Set of the object that holds both: validateValue and the constraint go by the
\* path and do not look into it.
SetCapacity(h, l) ==
    /\ cfUp /\ cfPc = "idle"
    /\ BeginChange([cfMem EXCEPT !["highWatermark"] = h, !["lowWatermark"] = l])
    /\ cfUnchecked' = TRUE
    /\ UNCHANGED <<cfFiles, cfMem, cfUp, cfStops, cfStray>>

\* Remove brings back the default, without a check.
RemoveMark(x) ==
    /\ cfUp /\ cfPc = "idle" /\ cfMem[x] # NoMark
    /\ BeginChange([cfMem EXCEPT ![x] = NoMark])
    /\ cfUnchecked' = TRUE
    /\ UNCHANGED <<cfFiles, cfMem, cfUp, cfStops, cfStray>>

-----------------------------------------------------------------------------
(* atomicWriteFile.                                                           *)

WriteTemp ==
    /\ cfPc = "temp"
    /\ cfTempDurable' = FALSE /\ cfPc' = "sync"
    /\ UNCHANGED <<cfDisk, cfDurable, cfSynced, cfMem, cfNext, cfRest>>

\* Mutant of SyncTemp.
SyncTempSkipped ==
    /\ cfPc = "sync"
    /\ cfPc' = "rename"
    /\ UNCHANGED <<cfFiles, cfMem, cfNext, cfRest>>

SyncTemp ==
    /\ cfPc = "sync"
    /\ cfTempDurable' = TRUE /\ cfPc' = "rename"
    /\ UNCHANGED <<cfDisk, cfDurable, cfSynced, cfMem, cfNext, cfRest>>

RenameTemp ==
    /\ cfPc = "rename"
    /\ cfDisk' = cfNext /\ cfDurable' = cfTempDurable /\ cfPc' = "dir"
    /\ UNCHANGED <<cfTempDurable, cfSynced, cfMem, cfNext, cfRest>>

\* syncDir, which does not report a sync that fails, then the overrides of the
\* manager change and the answer is sent.
AdoptConfig ==
    /\ cfPc = "dir"
    /\ cfSynced' \in {cfSynced, cfDisk} /\ cfMem' = cfNext /\ cfPc' = "idle"
    /\ cfNext' = NoOverrides /\ cfTempDurable' = TRUE
    /\ UNCHANGED <<cfDisk, cfDurable, cfRest>>

\* A step fails: the temporary file is removed, the overrides stay.  If it is the
\* directory that cannot be opened the file has been replaced already.
WriteFails ==
    /\ cfPc \in {"temp", "sync", "rename", "dir"}
    /\ cfStray' = (cfStray \/ cfPc = "dir")
    /\ cfTempDurable' = TRUE /\ cfNext' = NoOverrides /\ cfPc' = "idle"
    /\ UNCHANGED <<cfDisk, cfDurable, cfSynced, cfMem, cfUp, cfStops, cfUnchecked>>

\* The machine stops: the rename may or may not be on disk, and a file that was
\* not synced has any content.
PowerFailure ==
    /\ cfUp /\ cfStops < MaxConfigStops
    /\ cfStops' = cfStops + 1 /\ cfUp' = FALSE
    /\ cfDisk' \in {cfSynced, IF cfDurable THEN cfDisk ELSE Torn}
    /\ cfSynced' = cfDisk' /\ cfDurable' = TRUE
    /\ cfTempDurable' = TRUE /\ cfNext' = NoOverrides /\ cfPc' = "idle"
    /\ UNCHANGED <<cfMem, cfUnchecked, cfStray>>

\* loadOverrides; a file that cannot be parsed keeps the engine from starting.
loadOverrides ==
    /\ ~cfUp /\ cfDisk # Torn
    /\ cfMem' = cfDisk /\ cfUp' = TRUE
    /\ cfStray' = FALSE
    /\ UNCHANGED <<cfFiles, cfNext, cfPc, cfStops, cfUnchecked>>

ConfigNext ==
    \/ \E x \in Leaves, v \in Marks \cup {Null} : SetMark(x, v) \/ SetMarkRespelled(x, v)
    \/ \E h, l \in Marks : SetCapacity(h, l)
    \/ \E x \in Leaves : RemoveMark(x)
    \/ WriteTemp \/ SyncTemp \/ RenameTemp \/ AdoptConfig \/ WriteFails
    \/ PowerFailure \/ loadOverrides

ConfigSpec == ConfigInit /\ [][ConfigNext]_configVars

-----------------------------------------------------------------------------
(* Properties.                                                                *)

\* The file can always be read; memory and file agree whenever no change is under
\* way, unless one failed after the rename; and as long as every change is a Set of
\* one watermark under exactly its own path, the only one whose constraint is
\* checked, eviction never sees a low watermark that is not below the high one,
\* whichever of them was set or nulled last.
ConfigSafe ==
    /\ cfDisk # Torn
    /\ cfUp /\ cfPc = "idle" /\ ~cfStray => cfMem = cfDisk
    /\ ~cfUnchecked /\ cfUp =>
         LET e == Effective(cfMem) IN
         e["highWatermark"] # Null /\ e["lowWatermark"] # Null => e["lowWatermark"] < e["highWatermark"]

\* No run checks this, which does not hold: the order survives every change that Set
\* and Remove accept (a Set of another spelling or of the whole object, and a Remove,
\* are not checked).
ConfigOrdered ==
    cfUp => LET e == Effective(cfMem) IN
        e["highWatermark"] # Null /\ e["lowWatermark"] # Null => e["lowWatermark"] < e["highWatermark"]
=============================================================================
