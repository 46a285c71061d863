----------------------------- MODULE LinuxStore -----------------------------
(* Provisioning the btrfs store of `sqlrs init local --snapshot btrfs` on      *)
(* Linux (app/init_btrfs_linux.go): a loop-back image or a block device is     *)
(* created, formatted and mounted by commands that may each fail or be         *)
(* interrupted, and the command is run again, with --reinit or without.        *)
EXTENDS Integers

CONSTANTS
    MaxInits,         \* bound: runs of the command
    MaxReboots        \* bound: the host restarts and forgets its mounts

VARIABLES
    lsKind,     \* "image" or "device": what planLocalBtrfsStore derived
    lsHost,     \* file system that holds the store directory
    lsMedium,   \* [fs, data]: the image or device; fs "absent", "raw", "ext4", "btrfs"
    lsMount,    \* [at, what]: at "none", "store", "elsewhere"; what "medium", "foreign"
    lsPc, lsReinit, lsReadable, lsCreated, lsAt,
    lsInits, lsReboots,
    lsLost      \* history: data destroyed without --reinit by a user who may read the medium

lsDisk == <<lsMedium, lsMount>>
lsArgs == <<lsKind, lsHost, lsReinit, lsReadable, lsInits, lsReboots>>
linuxVars == <<lsDisk, lsArgs, lsPc, lsCreated, lsAt, lsLost>>

NoMount == [at |-> "none", what |-> "medium"]
MountedFS == IF lsMount.what = "medium" THEN lsMedium.fs ELSE "ext4"
PathFS == IF lsMount.at = "store" THEN MountedFS ELSE lsHost

LinuxInit ==
    /\ lsKind \in {"image", "device"} /\ lsHost \in {"ext4", "btrfs"}
    /\ lsMedium \in IF lsKind = "image" THEN {[fs |-> "absent", data |-> FALSE]}
                    ELSE {[fs |-> "raw", data |-> FALSE], [fs |-> "ext4", data |-> TRUE],
                          [fs |-> "btrfs", data |-> TRUE]}
    /\ lsMount \in {NoMount, [at |-> "store", what |-> "foreign"]} \cup
                   IF lsMedium.fs \in {"ext4", "btrfs"}
                   THEN {[at |-> "elsewhere", what |-> "medium"]} ELSE {}
    /\ lsPc = "idle" /\ lsReinit = FALSE /\ lsReadable = TRUE /\ lsCreated = FALSE
    /\ lsAt = "none" /\ lsInits = 0 /\ lsReboots = 0 /\ lsLost = FALSE

LinuxGo(l) == lsPc' = l
LinuxStay == UNCHANGED <<lsArgs, lsCreated, lsAt, lsLost>>

\* The command starts, as root or as a user who may not read the device.
StartLinuxInit ==
    /\ lsPc = "idle" /\ lsInits < MaxInits
    /\ lsInits' = lsInits + 1 /\ lsReinit' \in BOOLEAN
    /\ lsReadable' \in IF lsKind = "image" THEN {TRUE} ELSE BOOLEAN
    /\ lsCreated' = FALSE /\ lsAt' = "none" /\ LinuxGo("plan")
    /\ UNCHANGED <<lsDisk, lsKind, lsHost, lsReboots, lsLost>>

initLocalBtrfsStore ==
    /\ lsPc = "plan"
    /\ IF PathFS = "btrfs" THEN lsAt' = "store" /\ LinuxGo("done")
       ELSE UNCHANGED lsAt /\ LinuxGo(IF lsKind = "device" THEN "source"
                                      ELSE IF lsReinit THEN "unmount" ELSE "create")
    /\ UNCHANGED <<lsDisk, lsArgs, lsCreated, lsLost>>

\* umount, then umount -l; status 32 (not mounted, but also busy) ends it well.
tryUnmountStore(at) ==
    \/ lsMount' = IF lsMount.at = at THEN NoMount ELSE lsMount
    \/ UNCHANGED lsMount

Destroyed(medium) ==
    /\ lsMedium' = medium
    /\ lsLost' = (lsLost \/ (lsMedium.data /\ ~lsReinit /\ lsReadable))

ReinitImage ==
    /\ lsPc = "unmount" /\ tryUnmountStore("store") /\ LinuxGo("remove")
    /\ UNCHANGED lsMedium /\ LinuxStay

RemoveImage ==
    /\ lsPc = "remove" /\ Destroyed([fs |-> "absent", data |-> FALSE]) /\ LinuxGo("create")
    /\ UNCHANGED <<lsMount, lsArgs, lsCreated, lsAt>>

ensureLoopImage ==
    /\ lsPc = "create" /\ lsCreated' = (lsMedium.fs = "absent")
    /\ lsMedium' = IF lsMedium.fs = "absent" THEN [fs |-> "raw", data |-> FALSE] ELSE lsMedium
    /\ LinuxGo("format")
    /\ UNCHANGED <<lsMount, lsArgs, lsAt, lsLost>>

\* blkid runs as the user and prints nothing for a device it may not read.
detectBlockFSType == IF lsReadable THEN lsMedium.fs ELSE "raw"

\* mkfs.btrfs -f refuses a mounted medium.
mkfs == lsMount.what = "foreign" \/ lsMount.at = "none"

MayFormat == lsCreated \/ lsReinit

\* Mutant of FormatMedium.
FormatMediumAlways ==
    /\ lsPc = "format"
    /\ IF detectBlockFSType = "btrfs" THEN LinuxGo("mounts") /\ UNCHANGED <<lsMedium, lsLost>>
       ELSE mkfs /\ Destroyed([fs |-> "btrfs", data |-> FALSE]) /\ LinuxGo("mounts")
    /\ UNCHANGED <<lsMount, lsArgs, lsCreated, lsAt>>

FormatMedium ==
    /\ lsPc = "format"
    /\ IF detectBlockFSType = "btrfs" THEN LinuxGo("mounts") /\ UNCHANGED <<lsMedium, lsLost>>
       ELSE IF detectBlockFSType # "raw" /\ ~MayFormat
            THEN LinuxGo("refused") /\ UNCHANGED <<lsMedium, lsLost>>
       ELSE mkfs /\ Destroyed([fs |-> "btrfs", data |-> FALSE]) /\ LinuxGo("mounts")
    /\ UNCHANGED <<lsMount, lsArgs, lsCreated, lsAt>>

\* The image: what is mounted on the store directory by now.
detectMountFSType ==
    /\ lsPc = "mounts"
    /\ IF lsKind = "device" \/ lsMount.at # "store" THEN LinuxGo("mount") /\ UNCHANGED <<lsMount, lsAt>>
       ELSE IF MountedFS = "btrfs" THEN lsAt' = "store" /\ LinuxGo("done") /\ UNCHANGED lsMount
       ELSE IF ~lsReinit THEN LinuxGo("refused") /\ UNCHANGED <<lsMount, lsAt>>
       ELSE tryUnmountStore("store") /\ LinuxGo("mount") /\ UNCHANGED lsAt
    /\ UNCHANGED <<lsMedium, lsArgs, lsCreated, lsLost>>

\* The device: where it is mounted already.
ensureDeviceBackedBtrfsStore ==
    /\ lsPc = "source"
    /\ IF lsMount.at = "none" \/ lsMount.what # "medium"
       THEN LinuxGo("format") /\ UNCHANGED <<lsMount, lsAt>>
       ELSE IF MountedFS = "btrfs" THEN lsAt' = lsMount.at /\ LinuxGo("done") /\ UNCHANGED lsMount
       ELSE IF ~lsReinit THEN LinuxGo("refused") /\ UNCHANGED <<lsMount, lsAt>>
       ELSE tryUnmountStore(lsMount.at) /\ LinuxGo("format") /\ UNCHANGED lsAt
    /\ UNCHANGED <<lsMedium, lsArgs, lsCreated, lsLost>>

MountMedium ==
    /\ lsPc = "mount"
    /\ lsMount' = [at |-> "store", what |-> "medium"] /\ LinuxGo("verify")
    /\ UNCHANGED lsMedium /\ LinuxStay

\* chown, then isBtrfsPath.
VerifyStore ==
    /\ lsPc = "verify"
    /\ IF PathFS = "btrfs" THEN lsAt' = "store" /\ LinuxGo("done")
       ELSE LinuxGo("refused") /\ UNCHANGED lsAt
    /\ UNCHANGED <<lsDisk, lsArgs, lsCreated, lsLost>>

\* A command fails, or the process is killed between two of them.
LinuxInitStops ==
    /\ lsPc \notin {"idle", "done", "refused"} /\ LinuxGo("idle")
    /\ UNCHANGED lsDisk /\ LinuxStay

\* The run ends; a store that was provisioned is used.
LinuxInitEnds ==
    /\ lsPc \in {"done", "refused"} /\ LinuxGo("idle")
    /\ lsMedium' = IF lsPc = "done" /\ lsMount.at # "none" /\ lsMount.what = "medium"
                   THEN [lsMedium EXCEPT !.data = TRUE] ELSE lsMedium
    /\ UNCHANGED lsMount /\ LinuxStay

Reboot ==
    /\ lsPc = "idle" /\ lsReboots < MaxReboots
    /\ lsReboots' = lsReboots + 1 /\ lsMount' = NoMount
    /\ UNCHANGED <<lsMedium, lsKind, lsHost, lsReinit, lsReadable, lsInits, lsPc, lsCreated, lsAt, lsLost>>

LinuxOver == lsPc = "idle" /\ UNCHANGED linuxVars

LinuxNext ==
    \/ StartLinuxInit \/ initLocalBtrfsStore \/ ReinitImage \/ RemoveImage \/ ensureLoopImage
    \/ FormatMedium \/ detectMountFSType \/ ensureDeviceBackedBtrfsStore \/ MountMedium
    \/ VerifyStore \/ LinuxInitStops \/ LinuxInitEnds \/ Reboot \/ LinuxOver

(* Data on the medium is destroyed only by a run with --reinit, as long as     *)
(* blkid may read it, and in whatever order runs stop and start again          *)
(* (allowFormat of ensureLoopbackBtrfsStore and ensureDeviceBackedBtrfsStore). *)
MediumKept == ~lsLost
(* A run that succeeds names a directory on btrfs.                             *)
ProvisionedOnBtrfs ==
    lsPc = "done" =>
        IF lsAt = "store" THEN PathFS = "btrfs" ELSE lsMount.at = lsAt /\ MountedFS = "btrfs"
(* A run is refused only because of a file system that is not ours: what an    *)
(* interrupted run leaves behind never needs --reinit.                         *)
InterruptedResumes ==
    lsPc = "refused" => lsMedium.fs = "ext4" \/ lsMount.what = "foreign" \/ MountedFS = "ext4"

(* Provisioning keeps data, ends on btrfs and can be resumed: the three parts  *)
(* above, over runs that stop anywhere, reboots and reruns.                    *)
LinuxStoreSafe == MediumKept /\ ProvisionedOnBtrfs /\ InterruptedResumes
=============================================================================
