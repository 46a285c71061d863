------------------------------ MODULE WslStore ------------------------------
(* `sqlrs init local` on Windows: app/init.go over app/init_wsl*.go provisions *)
(* an engine and a btrfs disk inside WSL and writes config.yaml last; then     *)
(* daemon/orchestrator.go (ensureWSLStoreMount) and the engine (ensureWSLMount) *)
(* bring the mount up before serving.  Commands may fail or be interrupted,    *)
(* WSL may be shut down, and another disk of the same size may be attached.    *)
EXTENDS Integers

CONSTANTS
    MaxWslInits,      \* bound: runs of init
    MaxShutdowns      \* bound: wsl.exe --shutdown

VARIABLES
    wsConfig,   \* "none", "copy", "wsl": what config.yaml selects
    wsEngine,   \* the engine in the distribution: "none", "good", "bad"
    wsVhdx,     \* [there, part, fs, data]
    wsAttached, \* the VHDX is attached to WSL
    wsForeign,  \* "none" or the file system of another attached disk of that size
    wsUnit,     \* mount unit: "none", or the disk it mounts
    wsMounted,  \* disk mounted on the state directory, or "none"
    wsServing,
    wsPc, wsOpt, wsDisk, wsCreated, wsInits, wsShutdowns,
    wsCut,      \* history: a --reinit run did not end well
    wsLost      \* history: data of the VHDX destroyed without --reinit

wslDisks == <<wsVhdx, wsAttached, wsForeign>>
wslMounts == <<wsUnit, wsMounted>>
wslRun == <<wsOpt, wsDisk, wsCreated>>
wslCounts == <<wsInits, wsShutdowns>>
wslVars == <<wsConfig, wsEngine, wslDisks, wslMounts, wsServing, wsPc, wslRun, wslCounts, wsCut, wsLost>>

NoVhdx == [there |-> FALSE, part |-> FALSE, fs |-> "raw", data |-> FALSE]
NoOpt == [reinit |-> FALSE, update |-> FALSE, require |-> FALSE]
FSOf(disk) == IF disk = "ours" THEN wsVhdx.fs ELSE wsForeign

WslInit ==
    /\ wsConfig = "none" /\ wsEngine = "none" /\ wsVhdx = NoVhdx /\ wsAttached = FALSE
    /\ wsForeign \in {"none", "ext4"} /\ wsUnit = "none" /\ wsMounted = "none"
    /\ wsServing = FALSE /\ wsPc = "idle" /\ wsOpt = NoOpt /\ wsDisk = "none"
    /\ wsCreated = FALSE /\ wsInits = 0 /\ wsShutdowns = 0 /\ wsCut = FALSE /\ wsLost = FALSE

WslGo(l) == wsPc' = l
\* What the steps between bootstrap and commit leave alone.
WslFrame == UNCHANGED <<wsConfig, wsServing, wsOpt, wslCounts>>

\* runInit up to the WSL part: an initialised workspace without --update only
\* has its engine repaired.
runInit ==
    /\ wsPc = "idle" /\ wsInits < MaxWslInits
    /\ wsInits' = wsInits + 1
    /\ \E r, u, q \in BOOLEAN : wsOpt' = [reinit |-> r, update |-> u, require |-> q]
    /\ wsDisk' = "none" /\ wsCreated' = FALSE
    /\ WslGo(IF wsConfig = "none" \/ wsOpt'.update THEN "install"
             ELSE IF wsConfig = "wsl" THEN "repair" ELSE "done")
    /\ UNCHANGED <<wsConfig, wsEngine, wslDisks, wslMounts, wsServing, wsShutdowns, wsCut, wsLost>>

\* A valid copy is left alone; else it is installed again at the configured path.
repairExistingWSLEngine ==
    /\ wsPc = "repair" /\ wsEngine' = "good" /\ WslGo("done")
    /\ WslFrame /\ UNCHANGED <<wslDisks, wslMounts, wsDisk, wsCreated, wsCut, wsLost>>

\* Into a temporary file, checked, then moved: never half a binary.
installWSLEngine ==
    /\ wsPc = "install" /\ wsEngine' = "good"
    /\ WslGo(IF wsOpt.reinit THEN "reinit" ELSE "vhdx")
    /\ WslFrame /\ UNCHANGED <<wslDisks, wslMounts, wsDisk, wsCreated, wsCut, wsLost>>

\* reinitWSLStore: the unit goes first, whatever systemctl says.
removeSystemdMountUnit ==
    /\ wsPc = "reinit" /\ wsUnit' = "none"
    /\ wsMounted' \in {"none", wsMounted} /\ (wsServing => wsMounted' = wsMounted)
    /\ wsCut' = TRUE /\ WslGo("umount")
    /\ WslFrame /\ UNCHANGED <<wsEngine, wslDisks, wsDisk, wsCreated, wsLost>>

\* Then the mount, the two attachments (failures ignored) and the file, which
\* cannot be removed while it is attached.
reinitWSLStore ==
    /\ wsPc = "umount"
    /\ ~wsServing /\ wsMounted' = "none"
    /\ wsAttached' \in {FALSE, wsAttached}
    /\ IF wsAttached' THEN WslGo("fail") /\ UNCHANGED wsVhdx
       ELSE WslGo("vhdx") /\ wsVhdx' = NoVhdx
    /\ WslFrame /\ UNCHANGED <<wsEngine, wsForeign, wsUnit, wsDisk, wsCreated, wsCut, wsLost>>

ensureHostVHDX ==
    /\ wsPc = "vhdx" /\ wsCreated' = ~wsVhdx.there
    /\ wsVhdx' = IF wsVhdx.there THEN wsVhdx ELSE [NoVhdx EXCEPT !.there = TRUE]
    /\ WslGo("find")
    /\ WslFrame /\ UNCHANGED <<wsEngine, wsAttached, wsForeign, wslMounts, wsDisk, wsCut, wsLost>>

\* The attached disks whose size is near enough.
selectDiskBySize ==
    (IF wsAttached THEN {"ours"} ELSE {}) \cup (IF wsForeign # "none" THEN {"foreign"} ELSE {})

findWSLDisk ==
    /\ wsPc = "find"
    /\ IF selectDiskBySize = {} THEN WslGo("attach") /\ UNCHANGED wsDisk
       ELSE IF selectDiskBySize = {"ours", "foreign"} THEN WslGo("fail") /\ UNCHANGED wsDisk
       ELSE wsDisk' = (CHOOSE d \in selectDiskBySize : TRUE) /\ WslGo("format")
    /\ WslFrame /\ UNCHANGED <<wsEngine, wslDisks, wslMounts, wsCreated, wsCut, wsLost>>

\* ensureHostGPTPartition, attachVHDXToWSL, and the disk is looked for again.
AttachVhdx ==
    /\ wsPc = "attach"
    /\ wsVhdx' = [wsVhdx EXCEPT !.part = TRUE]
    /\ \/ wsAttached' = TRUE /\ wsDisk' = "ours" /\ WslGo("format")
       \/ UNCHANGED <<wsAttached, wsDisk>> /\ WslGo("fail")
    /\ WslFrame /\ UNCHANGED <<wsEngine, wsForeign, wslMounts, wsCreated, wsCut, wsLost>>

allowFormat == wsCreated \/ wsOpt.reinit

\* Mutant of ensureBtrfsOnPartition.
ensureBtrfsOnPartitionAgain ==
    /\ wsPc = "format"
    /\ WslGo("unit")
    /\ wsVhdx' = IF wsDisk = "ours" THEN [wsVhdx EXCEPT !.fs = "btrfs", !.data = FALSE] ELSE wsVhdx
    /\ wsForeign' = IF wsDisk = "foreign" THEN "btrfs" ELSE wsForeign
    /\ wsLost' = (wsLost \/ (wsDisk = "ours" /\ wsVhdx.data /\ ~wsOpt.reinit))
    /\ WslFrame /\ UNCHANGED <<wsEngine, wsAttached, wslMounts, wsDisk, wsCreated, wsCut>>

\* On a partition without a file system blkid fails or prints nothing.
mayFormat == allowFormat \/ FSOf(wsDisk) = "raw"

\* A mounted partition is only looked at; an empty answer of blkid, unlike a failure,
\* allows the formatting.
ensureBtrfsOnPartition ==
    /\ wsPc = "format"
    /\ IF (wsDisk = "ours" /\ ~wsVhdx.part) \/ (wsMounted = wsDisk /\ FSOf(wsDisk) # "btrfs")
       THEN WslGo("fail") /\ UNCHANGED <<wsVhdx, wsForeign, wsLost>>
       ELSE IF FSOf(wsDisk) = "btrfs" THEN WslGo("unit") /\ UNCHANGED <<wsVhdx, wsForeign, wsLost>>
       ELSE \/ ~allowFormat /\ WslGo("fail") /\ UNCHANGED <<wsVhdx, wsForeign, wsLost>>
            \/ /\ mayFormat /\ WslGo("unit")
               /\ wsVhdx' = IF wsDisk = "ours" THEN [wsVhdx EXCEPT !.fs = "btrfs", !.data = FALSE] ELSE wsVhdx
               /\ wsForeign' = IF wsDisk = "foreign" THEN "btrfs" ELSE wsForeign
               /\ wsLost' = (wsLost \/ (wsDisk = "ours" /\ wsVhdx.data /\ ~wsOpt.reinit))
    /\ WslFrame /\ UNCHANGED <<wsEngine, wsAttached, wslMounts, wsDisk, wsCreated, wsCut>>

\* The unit names the partition by its UUID; daemon-reload, enable.
installSystemdMountUnit ==
    /\ wsPc = "unit" /\ wsUnit' = wsDisk /\ WslGo("activate")
    /\ WslFrame /\ UNCHANGED <<wsEngine, wslDisks, wsMounted, wsDisk, wsCreated, wsCut, wsLost>>

AttachedDisk(disk) == IF disk = "ours" THEN wsAttached ELSE disk = "foreign" /\ wsForeign # "none"

\* is-active, start, is-active, and five looks at findmnt.
ensureSystemdMountUnitActive ==
    /\ wsPc = "activate"
    /\ wsMounted' = IF wsMounted = "none" /\ AttachedDisk(wsUnit) THEN wsUnit ELSE wsMounted
    /\ WslGo(IF wsMounted' # "none" /\ FSOf(wsMounted') = "btrfs" THEN "commit" ELSE "fail")
    /\ WslFrame /\ UNCHANGED <<wsEngine, wslDisks, wsUnit, wsDisk, wsCreated, wsCut, wsLost>>

\* Subvolumes and ownership, then config.yaml is replaced atomically.
CommitConfig ==
    /\ wsPc = "commit" /\ wsConfig' = "wsl" /\ wsCut' = FALSE /\ WslGo("done")
    /\ UNCHANGED <<wsEngine, wslDisks, wslMounts, wsServing, wslRun, wslCounts, wsLost>>

\* wslUnavailable: required fails the run, else the copy engine is configured;
\* an update keeps the WSL part of the old file.
wslUnavailable ==
    /\ wsPc = "fail"
    /\ wsConfig' = IF wsOpt.require \/ wsConfig = "wsl" THEN wsConfig ELSE "copy"
    /\ WslGo("idle")
    /\ UNCHANGED <<wsEngine, wslDisks, wslMounts, wsServing, wslRun, wslCounts, wsCut, wsLost>>

\* A command of a step fails.
WslCommandFails ==
    /\ wsPc \notin {"idle", "done", "fail"} /\ WslGo("fail")
    /\ UNCHANGED <<wsConfig, wsEngine, wslDisks, wslMounts, wsServing, wslRun, wslCounts, wsCut, wsLost>>

\* The run is over, or killed between two steps.
WslInitEnds ==
    /\ wsPc # "idle" /\ WslGo("idle")
    /\ UNCHANGED <<wsConfig, wsEngine, wslDisks, wslMounts, wsServing, wslRun, wslCounts, wsCut, wsLost>>

\* ensureWSLStoreMount: start the unit, attach the VHDX, start it once more, and
\* look at the file system; a transient failure of findmnt is let through.
ensureWSLStoreMount ==
    /\ wsConfig = "wsl" /\ ~wsServing /\ wsPc = "idle"
    /\ \E attached \in {wsAttached, wsVhdx.there} :
         /\ wsAttached' = attached
         /\ LET device == (wsUnit = "ours" /\ attached) \/ (wsUnit = "foreign" /\ wsForeign # "none")
                mounted == IF wsMounted = "none" /\ device THEN wsUnit ELSE wsMounted
            IN  /\ wsMounted' = mounted
                /\ \/ mounted # "none" /\ FSOf(mounted) = "btrfs"
                   \/ mounted # "none"     \* transient error while the unit is active
    /\ WslGo("start")
    /\ UNCHANGED <<wsConfig, wsEngine, wsVhdx, wsForeign, wsUnit, wsServing, wslRun, wslCounts, wsCut, wsLost>>

\* The engine checks unit and file system itself before it listens; then it is used.
ensureWSLMount ==
    /\ wsPc = "start" /\ wsEngine = "good"
    /\ wsMounted # "none" /\ FSOf(wsMounted) = "btrfs"
    /\ wsServing' = TRUE /\ WslGo("idle")
    /\ wsVhdx' = IF wsMounted = "ours" THEN [wsVhdx EXCEPT !.data = TRUE] ELSE wsVhdx
    /\ UNCHANGED <<wsConfig, wsEngine, wsAttached, wsForeign, wslMounts, wslRun, wslCounts, wsCut, wsLost>>

WslEngineStops ==
    /\ wsServing /\ wsServing' = FALSE
    /\ UNCHANGED <<wsConfig, wsEngine, wslDisks, wslMounts, wsPc, wslRun, wslCounts, wsCut, wsLost>>

\* Everything attached or mounted is gone; the distribution may be reset too.
ShutdownWsl ==
    /\ wsPc = "idle" /\ wsShutdowns < MaxShutdowns
    /\ wsShutdowns' = wsShutdowns + 1
    /\ wsServing' = FALSE /\ wsMounted' = "none" /\ wsAttached' = FALSE
    /\ wsEngine' \in {wsEngine, "bad"} /\ wsForeign' \in {wsForeign, "none"}
    /\ UNCHANGED <<wsConfig, wsVhdx, wsUnit, wsPc, wslRun, wsInits, wsCut, wsLost>>

WslOver == wsPc = "idle" /\ UNCHANGED wslVars

WslNext ==
    \/ runInit \/ repairExistingWSLEngine \/ installWSLEngine \/ removeSystemdMountUnit
    \/ reinitWSLStore \/ ensureHostVHDX \/ findWSLDisk \/ AttachVhdx \/ ensureBtrfsOnPartition
    \/ installSystemdMountUnit \/ ensureSystemdMountUnitActive \/ CommitConfig \/ wslUnavailable
    \/ WslCommandFails \/ WslInitEnds \/ ensureWSLStoreMount \/ ensureWSLMount \/ WslEngineStops
    \/ ShutdownWsl \/ WslOver

(* The data of the VHDX is destroyed only by a run with --reinit, whichever    *)
(* runs were interrupted before it (ensureHostVHDX, ensureBtrfsOnPartition).   *)
VhdxKept == ~wsLost
(* An engine inside WSL serves only while btrfs is mounted on its store: WSL   *)
(* may have been shut down, or init run again, since the last start.           *)
ServedOnBtrfs == wsServing => wsMounted # "none" /\ FSOf(wsMounted) = "btrfs"
(* config.yaml selects WSL only with a unit that mounts a formatted disk,      *)
(* unless a --reinit was cut short: it is written after everything else.       *)
ConfigBacked ==
    wsConfig = "wsl" /\ ~wsCut =>
        /\ wsUnit # "none" /\ wsEngine # "none"
        /\ wsUnit = "ours" => wsVhdx.there /\ wsVhdx.fs = "btrfs"

(* WSL provisioning: the three parts above.                                    *)
WslStoreSafe == VhdxKept /\ ServedOnBtrfs /\ ConfigBacked
=============================================================================
