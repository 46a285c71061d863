------------------------------ MODULE Eviction ------------------------------
(* The cache budget of the engine, prepare/capacity.go: ensureCacheCapacity     *)
(* with the settings it derives, the eviction lock and its staleness, the      *)
(* choice of the victims and their removal.  Several jobs of one engine        *)
(* enforce the budget at the same time.  A size is a small number of bytes, a  *)
(* watermark a percentage, a time a small number.                              *)
EXTENDS Integers, FiniteSets, FiniteSetsExt

CONSTANTS
    EvictJobs,        \* the goroutines that enforce the budget
    EvictStates,      \* state ids, numbers: ties are broken by id
    EvictParent,      \* the parent of every state, 0 if none
    EvictEntries,     \* the possible sizes, last uses and exemptions of them
    EvictTotal,       \* size of the file system
    EvictOther,       \* bytes of it that do not belong to the cache
    EvictConfigs,     \* the configurations the engine may be given
    MinReserve,       \* defaultReserveMinBytes, scaled
    MaxEvictCrashes   \* bound: restarts of the engine

\* The bytes the files of some states take.
bytesOf(entry, dirs) == MapThenSumSet(LAMBDA x : entry[x].size, dirs)

\* Sizes are not negative, so that a state never takes more without than with
\* the files of another; a parent is a state.
ASSUME EvictAssumption ==
    /\ \A x \in EvictStates : EvictParent[x] = 0 \/ EvictParent[x] \in EvictStates
    /\ \A e \in EvictEntries : \A dirs \in SUBSET EvictStates :
         /\ bytesOf(e, dirs) \in Nat
         /\ \A x \in dirs : bytesOf(e, dirs \ {x}) <= bytesOf(e, dirs)
    /\ EvictTotal \in Nat /\ EvictOther \in Nat /\ MinReserve \in Nat
    /\ EvictConfigs \subseteq [max : Int, reserve : Int, high : Int, low : Int]

VARIABLES
    evConfig,         \* values of cache.capacity.* in force
    evEntry,          \* size, last use and exemption of every state
    evRows,           \* states that have a row
    evDirs,           \* states whose files exist
    evLock,           \* the lock file: "none", "fresh" or "old"
    evPc,             \* where every job is in ensureCacheCapacity
    evSeen,           \* what a job measured and listed
    evPlan,           \* candidates a pass has still to visit; sorting them fixes the order
    evResult,         \* what ensureCacheCapacity returned
    evExcess,         \* history: states a pass evicted below the low watermark
    evKept,           \* history: states whose row survived their files
    evCrashes

evictVars == <<evConfig, evEntry, evRows, evDirs, evLock, evPc, evSeen, evPlan,
               evResult, evExcess, evKept, evCrashes>>
evStore == <<evConfig, evEntry, evRows, evDirs, evExcess>>

-----------------------------------------------------------------------------
(* Settings.                                                                  *)

NoSettings == [valid |-> FALSE]

defaultReserveBytes(total) ==
    IF total <= 0 THEN MinReserve ELSE Max({total \div 10, MinReserve})

Positive(n) == Max({n, 0})

\* Unset values (maxBytes 0, reserve -1) take their defaults; a value out of
\* its range makes the budget unenforceable.
loadCapacitySettings(c, total) ==
    LET reserve == IF c.reserve = -1 THEN defaultReserveBytes(total) ELSE c.reserve
        fromStore == Positive(Positive(total) - reserve)
    IN  IF \/ c.max < 0 \/ c.reserve < -1
           \/ c.high <= 0 \/ c.high > 100
           \/ c.low <= 0 \/ c.low >= c.high
        THEN NoSettings
        ELSE [valid |-> TRUE, reserve |-> reserve, high |-> c.high, low |-> c.low,
              max |-> IF c.max > 0 THEN Min({c.max, fromStore}) ELSE fromStore]

EvictSettings == loadCapacitySettings(evConfig, EvictTotal)

isCapacityPressure(usage, free, s) ==
    usage > (s.max * s.high) \div 100 \/ free < s.reserve
Relieved(usage, free, s) ==
    usage <= (s.max * s.low) \div 100 /\ free >= s.reserve

\* The files below the states directories are counted; the rest of the file
\* system is taken by other data.
measureCacheUsage(dirs) == bytesOf(evEntry, dirs)
filesystemFree(dirs) == EvictTotal - EvictOther - measureCacheUsage(dirs)

RealPressure ==
    isCapacityPressure(measureCacheUsage(evDirs), filesystemFree(evDirs), EvictSettings)
RealRelief ==
    Relieved(measureCacheUsage(evDirs), filesystemFree(evDirs), EvictSettings)

Pass == {"list", "evict", "row", "remeasure", "release"}

-----------------------------------------------------------------------------
(* The victims: states without reference, child, retention or youth, the      *)
(* least recently used first, then the largest, then the smallest id.         *)

\* Mutant of Evictable.
EvictableWithChildren(rows) == {x \in rows : ~evEntry[x].exempt}

Evictable(rows) ==
    {x \in rows : ~evEntry[x].exempt /\ \A y \in rows : EvictParent[y] # x}

EvictsBefore(x, y) ==
    LET ex == evEntry[x]  ey == evEntry[y] IN
    \/ ex.used < ey.used
    \/ ex.used = ey.used /\ ex.size > ey.size
    \/ ex.used = ey.used /\ ex.size = ey.size /\ x < y

\* The first candidate of the sorted list.
NextVictim(x, plan) == x \in plan /\ \A y \in plan \ {x} : EvictsBefore(x, y)

evMeasured(j) == [evSeen EXCEPT ![j].usage = measureCacheUsage(evDirs),
                                ![j].free = filesystemFree(evDirs)]

NothingSeen == [usage |-> 0, free |-> 0, blocked |-> 0, reclaimable |-> 0]

EvictInit ==
    /\ evConfig \in EvictConfigs
    /\ evEntry \in EvictEntries
    /\ evRows = EvictStates /\ evDirs = EvictStates
    /\ evLock = "none"
    /\ evPc = [j \in EvictJobs |-> "measure"]
    /\ evSeen = [j \in EvictJobs |-> NothingSeen]
    /\ evPlan = [j \in EvictJobs |-> {}]
    /\ evResult = [j \in EvictJobs |-> "none"]
    /\ evExcess = [j \in EvictJobs |-> 0] /\ evKept = {} /\ evCrashes = 0

EvictReturns(j, r) ==
    /\ evPc' = [evPc EXCEPT ![j] = "done"]
    /\ evResult' = [evResult EXCEPT ![j] = r]
    /\ evSeen' = [evSeen EXCEPT ![j] = NothingSeen]
    /\ evPlan' = [evPlan EXCEPT ![j] = {}]

EvictGoes(j, l) == evPc' = [evPc EXCEPT ![j] = l] /\ UNCHANGED evResult

\* Everything before the lock: file system, settings, usage, pressure.
EvictMeasure(j) ==
    /\ evPc[j] = "measure"
    /\ IF ~EvictSettings.valid THEN EvictReturns(j, "unavailable")
       ELSE IF EvictSettings.max <= 0 THEN EvictReturns(j, "too_small")
       ELSE IF ~RealPressure THEN EvictReturns(j, "ok")
       ELSE EvictGoes(j, "lock") /\ evSeen' = evMeasured(j) /\ UNCHANGED evPlan
    /\ UNCHANGED <<evStore, evLock, evKept, evCrashes>>

\* O_CREATE|O_EXCL: the file is created or found.
TakeEvictLock(j) ==
    /\ evPc[j] = "lock"
    /\ IF evLock = "none"
       THEN evLock' = "fresh" /\ EvictGoes(j, "list")
       ELSE EvictGoes(j, "stat") /\ UNCHANGED evLock
    /\ UNCHANGED <<evStore, evSeen, evPlan, evKept, evCrashes>>

\* Mutant of StatEvictLock.
StatEvictLockFresh(j) ==
    /\ evPc[j] = "stat"
    /\ EvictGoes(j, "lock")
    /\ UNCHANGED <<evStore, evLock, evSeen, evPlan, evKept, evCrashes>>

\* removeStaleEvictLock looks at the age of the file it finds ...
StatEvictLock(j) ==
    /\ evPc[j] = "stat"
    /\ EvictGoes(j, IF evLock = "old" THEN "unlink" ELSE "lock")
    /\ UNCHANGED <<evStore, evLock, evSeen, evPlan, evKept, evCrashes>>

\* ... and removes the file it finds then.
RemoveStaleEvictLock(j) ==
    /\ evPc[j] = "unlink"
    /\ evLock' = "none"
    /\ EvictGoes(j, "lock")
    /\ UNCHANGED <<evStore, evSeen, evPlan, evKept, evCrashes>>

\* Everything the victims depend on is read here.  Left out is what other requests
\* add between this and the removal: a new state, or an instance of a candidate.
listEvictionCandidates(j) ==
    /\ evPc[j] = "list"
    /\ LET found == Evictable(evRows) IN
       /\ evPlan' = [evPlan EXCEPT ![j] = found]
       /\ evSeen' = [evSeen EXCEPT ![j].blocked = Cardinality(evRows \ found),
                        ![j].reclaimable = bytesOf(evEntry, found)]
    /\ EvictGoes(j, "evict")
    /\ UNCHANGED <<evStore, evLock, evKept, evCrashes>>

\* The pass ends below the low watermark or at the end of the list; else the
\* files of the next candidate go.  A failure moves on to the one after it.
EvictNextCandidate(j) ==
    /\ evPc[j] = "evict"
    /\ IF evPlan[j] = {} \/ Relieved(evSeen[j].usage, evSeen[j].free, EvictSettings)
       THEN /\ EvictGoes(j, "release")
            /\ UNCHANGED <<evDirs, evPlan, evExcess>>
       ELSE \E x \in evPlan[j] : NextVictim(x, evPlan[j]) /\
            \/ /\ evExcess' = [evExcess EXCEPT ![j] = IF RealRelief /\ x \in evDirs THEN @ + 1 ELSE @]
               /\ evDirs' = evDirs \ {x}
               /\ EvictGoes(j, "row") /\ UNCHANGED evPlan
            \/ /\ evPlan' = [evPlan EXCEPT ![j] = @ \ {x}]
               /\ UNCHANGED <<evDirs, evExcess, evPc, evResult>>
    /\ UNCHANGED <<evConfig, evEntry, evRows, evLock, evSeen, evKept, evCrashes>>

\* The row goes after the files.  When it does not, the loop continues without
\* measuring what the removal of the files has freed.
EvictRow(j) ==
    /\ evPc[j] = "row"
    /\ \E x \in evPlan[j] :
         /\ NextVictim(x, evPlan[j])
         /\ evPlan' = [evPlan EXCEPT ![j] = @ \ {x}]
         /\ \/ /\ evRows' = evRows \ {x}
               /\ EvictGoes(j, "remeasure") /\ UNCHANGED evKept
            \/ /\ evKept' = evKept \cup {x}
               /\ EvictGoes(j, "evict") /\ UNCHANGED evRows
    /\ UNCHANGED <<evConfig, evEntry, evDirs, evLock, evSeen, evExcess, evCrashes>>

\* Mutant of RemeasureUsage.
RemeasureUsageSkipped(j) ==
    /\ evPc[j] = "remeasure"
    /\ EvictGoes(j, "evict")
    /\ UNCHANGED <<evStore, evLock, evSeen, evPlan, evKept, evCrashes>>

RemeasureUsage(j) ==
    /\ evPc[j] = "remeasure"
    /\ evSeen' = evMeasured(j)
    /\ EvictGoes(j, "evict")
    /\ UNCHANGED <<evStore, evLock, evPlan, evKept, evCrashes>>

\* The deferred os.Remove of the lock file, whoever created it.
ReleaseEvictLock(j) ==
    /\ evPc[j] = "release"
    /\ evLock' = "none"
    /\ EvictGoes(j, "after")
    /\ UNCHANGED <<evStore, evSeen, evPlan, evKept, evCrashes>>

\* A measurement, a listing or the context fails: the pass ends with an error.
EvictFails(j) ==
    /\ evPc[j] \in {"measure", "lock", "list", "remeasure", "after"}
    /\ EvictReturns(j, "unavailable")
    /\ evLock' = IF evPc[j] \in Pass THEN "none" ELSE evLock
    /\ UNCHANGED <<evStore, evKept, evCrashes>>

observedMinStateBytes(rows) ==
    IF rows = {} THEN 0 ELSE Min({evEntry[x].size : x \in rows})

\* Mutant of EvictOutcome.
EvictOutcomeUnmeasured(j) ==
    /\ evPc[j] = "after"
    /\ EvictReturns(j, IF evSeen[j].reclaimable > 0 THEN "ok" ELSE "full")
    /\ UNCHANGED <<evStore, evLock, evKept, evCrashes>>

EvictOutcome(j) ==
    /\ evPc[j] = "after"
    /\ EvictReturns(j,
          IF ~RealPressure THEN "ok"
          ELSE IF \/ EvictSettings.max < observedMinStateBytes(evRows)
                  \/ evSeen[j].reclaimable = 0 /\ evSeen[j].blocked = 0
               THEN "too_small" ELSE "full")
    /\ UNCHANGED <<evStore, evLock, evKept, evCrashes>>

\* Five minutes pass.
EvictLockAges ==
    /\ evLock = "fresh"
    /\ evLock' = "old"
    /\ UNCHANGED <<evStore, evPc, evSeen, evPlan, evResult, evKept, evCrashes>>

\* The engine stops and its jobs start again after recovery; the lock file stays.
EvictCrash ==
    /\ evCrashes < MaxEvictCrashes
    /\ evCrashes' = evCrashes + 1
    /\ evPc' = [j \in EvictJobs |-> "measure"]
    /\ evSeen' = [j \in EvictJobs |-> NothingSeen]
    /\ evPlan' = [j \in EvictJobs |-> {}]
    /\ evResult' = [j \in EvictJobs |-> "none"]
    /\ UNCHANGED <<evStore, evLock, evKept>>

EvictStep(j) ==
    \/ EvictMeasure(j) \/ TakeEvictLock(j) \/ StatEvictLock(j) \/ RemoveStaleEvictLock(j)
    \/ listEvictionCandidates(j) \/ EvictNextCandidate(j) \/ EvictRow(j)
    \/ RemeasureUsage(j) \/ ReleaseEvictLock(j) \/ EvictOutcome(j)

EvictNext ==
    \/ \E j \in EvictJobs : EvictStep(j) \/ EvictFails(j)
    \/ EvictLockAges \/ EvictCrash
    \/ (\A j \in EvictJobs : evPc[j] = "done") /\ UNCHANGED evictVars

EvictFairness == (\A j \in EvictJobs : WF_evictVars(EvictStep(j))) /\ WF_evictVars(EvictLockAges)

-----------------------------------------------------------------------------
(* Properties.                                                                *)

EvictTypeOK ==
    /\ evRows \subseteq EvictStates /\ evDirs \subseteq EvictStates
    /\ evLock \in {"none", "fresh", "old"}
    /\ evPc \in [EvictJobs -> Pass \cup {"measure", "lock", "stat", "unlink", "after", "done"}]
    /\ evResult \in [EvictJobs -> {"none", "ok", "unavailable", "too_small", "full"}]

\* A pass measures again after every victim (runEviction), so that it evicts at
\* most one state more than the low watermark asks for: the first one, chosen
\* with the figures from before the wait for the lock.  Two passes at work at once,
\* because a lock was judged stale, change nothing in this; exempt is a row that
\* survived its files, after which the loop goes on with the old figures.
EvictionMeasured == evKept = {} => \A j \in EvictJobs : evExcess[j] <= 1

\* Eviction takes leaves only: a state that is exempt keeps its row and its
\* files, and a row never loses the row of its parent, with any number of
\* passes at work, interrupted or not (listEvictionCandidates).
EvictionSpares ==
    /\ \A x \in EvictStates : evEntry[x].exempt => x \in evRows \cap evDirs
    /\ \A x \in evRows : EvictParent[x] # 0 => EvictParent[x] \in evRows

\* ensureCacheCapacity reports success only when the cache is within its budget,
\* for every configuration: what a pass stops at is never pressure again.
EvictedToBudget == \A j \in EvictJobs : evResult[j] = "ok" => ~RealPressure

\* Every enforcement returns, also after a restart that left the lock file
\* behind: the file becomes stale and is removed (removeStaleEvictLock).
EvictorHome(j) == evPc[j] \in {"done", "measure"}
EvictorsReturn == \A j \in EvictJobs : []<>EvictorHome(j)
=============================================================================
