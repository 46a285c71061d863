----------------------------- MODULE StateFiles -----------------------------
(***************************************************************************)
(* The directories of a cached state and the snapshot back ends: statefs,  *)
(* snapshot (copy, overlay, btrfs), the PostgreSQL connector that stops    *)
(* and starts the server around a snapshot, and the unmanaged start of a   *)
(* runtime in prepare/execution.go.                                        *)
(*                                                                         *)
(* One job at a time builds the state from the base, or uses it.  The back *)
(* end is chosen when the engine starts, from the configuration and from   *)
(* what the host offers then: a restart may find the files of another back *)
(* end.  Contention for one state is the subject of StateBuild.            *)
(***************************************************************************)
EXTENDS Integers

CONSTANTS Preferences,    \* configured back ends
          MaxStateBoots,  \* bound: engine restarts and host reboots
          MaxDirt         \* bound: foreign writes to the published state

VARIABLES
  backend,   \* the back end of this engine process
  node,      \* node[p]: what is at the path of the base, state or runtime
  server,    \* PostgreSQL runs in the container of the runtime
  row,       \* the states row exists
  task,      \* where the job is
  source,    \* "base" or "state": what the job's runtime is cloned from
  leftover,  \* the state's directory holds files of an attempt before the last
  halved,    \* a removal of the published state, or of the base, got halfway
  boots, dirt

stateFileVars == <<backend, node, server, row, task, source, leftover, halved, boots, dirt>>

(* Contents of a data directory. *)
Absent == -2      \* no PG_VERSION, whether or not other files are there
Torn == -1        \* PG_VERSION, but files are missing
Fresh == 0        \* as initdb made it
Applied == 1      \* with the prepare step

Node(kind, data) == [kind |-> kind, data |-> data, pid |-> FALSE]
NoNode == Node("none", Absent)
IsSubvolume(n) == n.kind \in {"subvol", "rosubvol"}

(* btrfsSupported and overlaySupported look at the host of this start. *)
NewManager(preference, btrfs, overlay) ==
  CASE preference = "overlay" -> IF overlay THEN "overlay" ELSE "copy"
    [] preference = "btrfs" -> IF btrfs THEN "btrfs" ELSE "copy"
    [] preference = "auto" -> IF btrfs THEN "btrfs" ELSE IF overlay THEN "overlay" ELSE "copy"
    [] OTHER -> "copy"
Backends == {NewManager(p, b, o) : p \in Preferences, b \in BOOLEAN, o \in BOOLEAN}

StateFilesInit ==
  /\ backend \in Backends
  /\ node = [p \in {"base", "state", "runtime"} |-> NoNode]
  /\ server = FALSE /\ row = FALSE /\ task = "idle" /\ source = "base"
  /\ leftover = FALSE /\ halved = FALSE /\ boots = 0 /\ dirt = 0

(* A directory some of whose files are gone. *)
Cut(n, d) == [n EXCEPT !.data = IF n.data = Absent THEN Absent ELSE d]

(* os.RemoveAll: what it leaves and whether it succeeds.  It cannot change *)
(* a read-only subvolume; below a mounted overlay it empties the merged    *)
(* view, whose lower directory stays, and cannot remove the mount point.   *)
removeAll(n) ==
  CASE n.kind = "none" -> {<<NoNode, TRUE>>}
    [] n.kind = "rosubvol" -> {<<n, FALSE>>}
    [] n.kind = "overlay" -> {<<Node("overlay", Absent), FALSE>>}
    [] OTHER -> {<<NoNode, TRUE>>, <<n, FALSE>>} \cup {<<Cut(n, d), FALSE>> : d \in {Torn, Absent}}

(* overlayManager.Destroy unmounts, whether or not that succeeds, and      *)
(* removes the directory.                                                  *)
overlayDestroy(n) ==
  IF n.kind = "overlay" THEN {<<NoNode, TRUE>>} \cup removeAll(n) ELSE removeAll(n)

(* Manager.Destroy of the back end. *)
destroy(n) ==
  CASE backend = "btrfs" -> IF IsSubvolume(n) THEN {<<NoNode, TRUE>>, <<n, FALSE>>} ELSE {<<n, FALSE>>}
    [] backend = "overlay" -> overlayDestroy(n)
    [] OTHER -> removeAll(n)

(* RemovePath of statefs. *)
RemovePath(n) ==
  IF backend = "btrfs" /\ IsSubvolume(n) THEN destroy(n)
  ELSE {r \in removeAll(n) : r[2]}
         \cup UNION {destroy(r[1]) : r \in {x \in removeAll(n) : ~x[2]}}

Go(next) == task' = next
Put(p, n) == node' = [node EXCEPT ![p] = n]
EndTask == Go("idle")
sfOther == <<backend, halved, boots, dirt>>

(* What a removal leaves at the path of the state is left over.            *)
RemovedState(r) ==
  /\ Put("state", r[1])
  /\ leftover' = (r[1].kind # "none" /\ (leftover \/ r[1] # node["state"]))

-----------------------------------------------------------------------------
(* executeStateTask takes a cached state on the word of its row and seal;  *)
(* its files are looked at when a runtime is started from it.              *)
UseCached ==
  /\ task = "idle" /\ row
  /\ Go("inspect") /\ source' = "state"
  /\ UNCHANGED <<node, server, row, leftover, sfOther>>

(* The eviction and the deletion of a state remove its files, then its     *)
(* row, unless either fails.  A job that is about to clone the state is    *)
(* not in their way; one that has cloned it counts as its user.            *)
RemovePublished ==
  /\ row /\ task \in {"idle", "inspect", "clear", "clone"}
  /\ \E r \in RemovePath(node["state"]) :
       /\ RemovedState(r)
       /\ row' \in (IF r[2] THEN BOOLEAN ELSE {TRUE})
       /\ halved' = (halved \/ (row' /\ r[1] # node["state"]))
  /\ UNCHANGED <<backend, server, task, source, boots, dirt>>

(* startRuntime: no clone of a state with a postmaster.pid or without      *)
(* PG_VERSION.                                                             *)
InspectInput ==
  /\ task = "inspect"
  /\ Go(IF node["state"].pid \/ node["state"].data = Absent THEN "idle" ELSE "clear")
  /\ UNCHANGED <<node, server, row, source, leftover, sfOther>>

BuildMissing ==
  /\ task = "idle" /\ ~row
  /\ Go("ensure")
  /\ UNCHANGED <<node, server, row, source, leftover, sfOther>>

(* EnsureStateDir: btrfs makes the parent only. *)
EnsureStateDir ==
  /\ task = "ensure"
  /\ IF backend # "btrfs" /\ node["state"].kind = "none"
       THEN Put("state", Node("dir", Absent)) ELSE UNCHANGED node
  /\ Go("reset")
  /\ UNCHANGED <<server, row, source, leftover, sfOther>>

(* The path holds files of an earlier attempt. *)
HasFiles == node["state"].data # Absent \/ leftover

(* resetStateDir: RemovePath, then EnsureStateDir. *)
ResetPath ==
  \E r \in RemovePath(node["state"]) :
    IF r[2] /\ backend # "btrfs"
      THEN Put("state", Node("dir", Absent)) /\ leftover' = FALSE /\ Go("base")
      ELSE RemovedState(r) /\ Go(IF r[2] THEN "base" ELSE "idle")

(* Mutant of ResetState: only what is a subvolume is reset. *)
ResetStateSubvolume ==
  /\ task = "reset" /\ source' = "base"
  /\ IF backend = "btrfs" /\ IsSubvolume(node["state"]) THEN ResetPath
     ELSE Go("base") /\ UNCHANGED <<node, leftover>>
  /\ UNCHANGED <<server, row, sfOther>>

(* With btrfs whatever is at the path goes before the state is built; the  *)
(* other back ends reset it only when a marker lies among the files there. *)
ResetState ==
  /\ task = "reset" /\ source' = "base"
  /\ \/ (backend = "btrfs" \/ HasFiles) /\ ResetPath
     \/ backend # "btrfs" /\ Go("base") /\ UNCHANGED <<node, leftover>>
  /\ UNCHANGED <<server, row, sfOther>>

(* EnsureBaseDir and the initialisation of a new base (module BaseDir).    *)
(* EnsureSubvolume removes a base that is a plain directory; one without   *)
(* PG_VERSION is emptied and made again, unless its marker is still there. *)
EnsureSubvolume ==
  /\ task = "base"
  /\ LET n == node["base"] IN
     \/ /\ n.kind = "none"
        /\ Put("base", Node(IF backend = "btrfs" THEN "subvol" ELSE "dir", Fresh))
        /\ Go("clear") /\ UNCHANGED halved
     \/ /\ backend = "btrfs" /\ n.kind = "dir"
        /\ \E r \in removeAll(n) :
             /\ Put("base", IF r[2] THEN Node("subvol", Fresh) ELSE r[1])
             /\ halved' = (halved \/ (~r[2] /\ r[1] # n))
             /\ Go(IF r[2] THEN "clear" ELSE "idle")
     \/ /\ n.kind # "none" /\ (backend = "btrfs" => IsSubvolume(n))
        /\ \/ UNCHANGED node
           \/ n.data = Absent /\ Put("base", Node(n.kind, Fresh))
        /\ UNCHANGED halved /\ Go("clear")
  /\ UNCHANGED <<backend, server, row, source, leftover, boots, dirt>>

(* startRuntime clears the runtime directory, by renaming it if it must;   *)
(* the container of an earlier attempt loses its files.                    *)
ClearRuntime ==
  /\ task = "clear"
  /\ Put("runtime", NoNode) /\ server' = FALSE
  /\ Go("clone")
  /\ UNCHANGED <<row, source, leftover, sfOther>>

(* overlayManager.Clone makes the directories and mounts the overlay over  *)
(* the source; a failed mount leaves the empty directories.                *)
overlayClone(n) ==
  {<<Node("dir", Absent), FALSE>>}
    \cup (IF n.kind = "none" THEN {} ELSE {<<[n EXCEPT !.kind = "overlay"], TRUE>>})

(* Clone: a btrfs snapshot needs a subvolume, an overlay is mounted, a     *)
(* copy is made file by file and may be cut short.  A source that is gone  *)
(* cannot be cloned.                                                       *)
Clone ==
  /\ task = "clone"
  /\ LET n == node[source] IN
     CASE backend = "btrfs" ->
            IF IsSubvolume(n) THEN Put("runtime", [n EXCEPT !.kind = "subvol"]) /\ Go("check")
            ELSE UNCHANGED node /\ Go("idle")
       [] backend = "overlay" ->
            \E r \in overlayClone(n) : Put("runtime", r[1]) /\ Go(IF r[2] THEN "check" ELSE "idle")
       [] OTHER -> \/ n.kind # "none" /\ Put("runtime", [n EXCEPT !.kind = "dir"]) /\ Go("check")
                   \/ n.kind # "none" /\ Put("runtime", Node("dir", Torn)) /\ Go("idle")
                   \/ UNCHANGED node /\ Go("idle")
  /\ UNCHANGED <<server, row, source, leftover, sfOther>>

(* The clone is looked at like the state; then the container starts.  A    *)
(* failed start cleans the clone up.                                       *)
StartServer ==
  /\ task = "check"
  /\ LET n == node["runtime"] IN
     \/ /\ n.pid \/ (source = "state" /\ n.data = Absent)
        /\ Go("idle") /\ UNCHANGED <<node, server>>
     \/ /\ ~n.pid
        /\ Put("runtime", [n EXCEPT !.pid = TRUE]) /\ server' = TRUE
        /\ Go(IF source = "state" THEN "instance" ELSE "step")
     \/ /\ ~n.pid
        /\ \E r \in destroy(n) : Put("runtime", r[1])
        /\ server' = FALSE /\ Go("idle")
  /\ UNCHANGED <<row, source, leftover, sfOther>>

(* executePrepareStep writes through the server, or fails. *)
RunStep ==
  /\ task = "step"
  /\ \/ /\ Put("runtime", [node["runtime"] EXCEPT !.data = IF @ = Fresh THEN Applied ELSE @])
        /\ Go("stop")
     \/ UNCHANGED node /\ Go("cleanup")
  /\ UNCHANGED <<server, row, source, leftover, sfOther>>

(* pg_ctl stop: it may fail, and it may say so or not while the server is  *)
(* still there.                                                            *)
StopOutcomes ==
  {[says |-> s, up |-> u] : s \in BOOLEAN, u \in BOOLEAN}

(* Mutant of verifyStopped: what pg_ctl stop says is taken for true. *)
verifyStoppedSkipped(up) == TRUE

(* pg_ctl status says that there is no server. *)
verifyStopped(up) == ~up

PrepareSnapshot ==
  /\ task = "stop"
  /\ \E o \in StopOutcomes :
       /\ server' = o.up
       /\ Put("runtime", [node["runtime"] EXCEPT !.pid = o.up])
       /\ Go(IF o.says /\ verifyStopped(o.up) THEN "snapshot" ELSE "cleanup")
  /\ UNCHANGED <<row, source, leftover, sfOther>>

(* copyDir merges: it writes over the files of the same name, so what an   *)
(* earlier attempt left besides them, a postmaster.pid too, stays; it may  *)
(* be cut short.                                                           *)
copyDir(n, d) ==
  LET kind == IF d.kind = "none" THEN "dir" ELSE d.kind
  IN \/ Put("state", [n EXCEPT !.kind = kind, !.pid = d.pid]) /\ leftover' = HasFiles /\ Go("publish")
     \/ \E data \in {d.data, Torn} :
          Put("state", [d EXCEPT !.kind = kind, !.data = data]) /\ leftover' = TRUE /\ Go("resume")

(* Snapshot.  `btrfs subvolume snapshot` onto an existing directory puts   *)
(* the snapshot inside it; onto a subvolume the precheck refuses it.       *)
Snapshot ==
  /\ task = "snapshot"
  /\ LET n == node["runtime"]
         d == node["state"]
     IN CASE backend = "btrfs" ->
               /\ UNCHANGED leftover
               /\ IF IsSubvolume(d) \/ ~IsSubvolume(n) THEN UNCHANGED node /\ Go("resume")
                  ELSE /\ IF d.kind = "none" THEN Put("state", [n EXCEPT !.kind = "rosubvol"]) ELSE UNCHANGED node
                       /\ Go("publish")
          [] backend # "btrfs" /\ d.kind = "rosubvol" -> UNCHANGED <<node, leftover>> /\ Go("resume")
          [] OTHER -> copyDir(n, d)
  /\ UNCHANGED <<server, row, source, sfOther>>

(* ResumeSnapshot starts the server again, after a failure too. *)
ResumeServer(next) ==
  \/ /\ server' = TRUE /\ Put("runtime", [node["runtime"] EXCEPT !.pid = TRUE]) /\ Go(next)
  \/ UNCHANGED <<server, node>> /\ Go("cleanup")

ResumeSnapshot ==
  /\ task = "resume"
  /\ ResumeServer("cleanup")
  /\ UNCHANGED <<row, source, leftover, sfOther>>

ResumeAndPublish ==
  /\ task = "publish"
  /\ ResumeServer("row")
  /\ UNCHANGED <<row, source, leftover, sfOther>>

(* CreateState.  A state whose row is refused is removed, unless the job   *)
(* is cancelled or its size cannot be measured; one whose marker or whose  *)
(* capacity check fails stays published although the job fails.            *)
CreateState ==
  /\ task = "row"
  /\ \/ row' = TRUE /\ task' \in {"instance", "cleanup"} /\ UNCHANGED <<node, leftover>>
     \/ /\ \E r \in RemovePath(node["state"]) : RemovedState(r)
        /\ Go("cleanup") /\ UNCHANGED row
     \/ Go("cleanup") /\ UNCHANGED <<row, node, leftover>>
  /\ UNCHANGED <<server, source, sfOther>>

(* cleanupRuntime stops the container, tries it once more if that fails,   *)
(* and calls the clone's cleanup whether or not the container is gone.     *)
CleanupRuntime ==
  /\ task \in {"cleanup", "instance"}
  /\ \E up \in {FALSE, server} :
       /\ server' = up
       /\ \E r \in destroy([node["runtime"] EXCEPT !.pid = @ /\ up]) : Put("runtime", r[1])
  /\ EndTask
  /\ UNCHANGED <<row, source, leftover, sfOther>>

(* The engine restarts, possibly with another back end; containers and     *)
(* mounts outlive it.  A reboot of the host ends both.                     *)
RestartStateEngine ==
  /\ boots < MaxStateBoots /\ boots' = boots + 1
  /\ backend' \in Backends
  /\ task' = "idle"
  /\ \/ UNCHANGED <<node, server>>
     \/ /\ server' = FALSE
        /\ node' = [node EXCEPT !["runtime"] =
                      IF @.kind = "overlay" THEN Node("dir", Absent) ELSE @]
  /\ UNCHANGED <<row, source, leftover, halved, dirt>>

(* Somebody starts a server in the directory of the published state. *)
DirtyState ==
  /\ dirt < MaxDirt /\ dirt' = dirt + 1
  /\ row /\ task = "idle" /\ node["state"].kind = "dir"
  /\ Put("state", [node["state"] EXCEPT !.pid = TRUE])
  /\ UNCHANGED <<backend, server, row, task, source, leftover, halved, boots>>

StateFilesNext ==
  \/ UseCached \/ RemovePublished \/ InspectInput \/ BuildMissing \/ EnsureStateDir \/ ResetState
  \/ EnsureSubvolume \/ ClearRuntime \/ Clone \/ StartServer \/ RunStep
  \/ PrepareSnapshot \/ Snapshot \/ ResumeSnapshot \/ ResumeAndPublish
  \/ CreateState \/ CleanupRuntime \/ RestartStateEngine \/ DirtyState

-----------------------------------------------------------------------------
(* A published state holds the whole step, taken from a stopped server,    *)
(* whichever back end made it and whatever was at its path before; with    *)
(* btrfs it holds nothing else.  Only a removal that got halfway, or a     *)
(* foreign write, can change that.                                         *)
PublishedWhole ==
  row /\ ~halved =>
    /\ node["state"].data = Applied
    /\ node["state"].pid => dirt > 0
    /\ node["state"].kind = "rosubvol" => ~leftover

(* On every back end it holds nothing else.  This does not hold: copyDir   *)
(* merges the snapshot into what an aborted attempt left.                  *)
PublishedExact == row /\ ~halved => ~leftover

(* A server that serves the state runs on exactly that content, and what   *)
(* it and the clean-up of its directory do never reaches the base, which   *)
(* only a removal that got halfway can change.                             *)
ServedIsPublished ==
  /\ task = "instance" /\ ~halved => node["runtime"].data = Applied /\ server
  /\ node["base"].kind # "none" =>
       IF halved THEN node["base"].data # Applied ELSE node["base"].data = Fresh

(* A snapshot is never taken from under a running server. *)
SnapshotOfStopped == task = "snapshot" => ~server /\ ~node["runtime"].pid

StateFilesSafe == PublishedWhole /\ ServedIsPublished /\ SnapshotOfStopped
=============================================================================
