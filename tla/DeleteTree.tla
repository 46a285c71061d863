------------------------------ MODULE DeleteTree ------------------------------
(* Deletion of states and of their trees (deletion/manager.go): the tree is     *)
(* listed node by node, judged as a whole and then removed bottom up, container *)
(* before directory before row, while prepare jobs add states and instances,    *)
(* clients connect, steps fail and the engine restarts.                        *)
EXTENDS Integers, Sequences, FiniteSets, SequencesExt

CONSTANTS
    Deleters,         \* clients that ask for deletions
    TreeStates,       \* states, numbered
    TreeParent,       \* parent of every state, 0 for none
    TreeInstances, InstanceOf,   \* instances and the state of each
    LateStates, LateInstances,   \* those that appear during the run
    MaxDeletes        \* bound on the requests

\* There are finitely many of both; a state that is there has its parent.
ASSUME TreeAssumption ==
    /\ IsFiniteSet(TreeStates) /\ IsFiniteSet(TreeInstances)
    /\ \A s \in TreeStates \ LateStates :
         TreeParent[s] = 0 \/ TreeParent[s] \in TreeStates \ LateStates

VARIABLES
    dtRow, dtFiles,                 \* states: rows and directories
    dtInst, dtUp, dtDirs,           \* instances: rows, containers, directories at their paths
    dtAside,                        \* instances whose directory was renamed and left
    dtStage, dtILock,               \* access stage and lock of every instance
    dtConn,                         \* instances with connections
    dtReq,                          \* the request of every deleter
    dtAsked, dtSeen, dtLate         \* bound; histories, see the properties

treeVars == <<dtRow, dtFiles, dtInst, dtUp, dtDirs, dtAside, dtStage, dtILock, dtConn, dtReq, dtAsked, dtSeen, dtLate>>
dtStates == <<dtRow, dtFiles>>
dtInstances == <<dtInst, dtUp, dtDirs, dtStage>>
dtRest == <<dtConn, dtAside, dtAsked, dtSeen, dtLate>>

NoRequest == [pc |-> "idle", plan |-> <<>>, recurse |-> FALSE, force |-> FALSE, blocked |-> FALSE]

\* A node of the tree; a state is open until its children have been listed.
StateNode(s, o) == [kind |-> "state", id |-> s, open |-> o]
InstanceNode(i) == [kind |-> "instance", id |-> i, open |-> FALSE]

TreeInit ==
    /\ dtRow = TreeStates \ LateStates /\ dtFiles = dtRow
    /\ dtInst = TreeInstances \ LateInstances /\ dtUp = dtInst /\ dtDirs = dtInst
    /\ dtStage = [i \in TreeInstances |-> IF i \in dtInst THEN "bound" ELSE "none"]
    /\ dtILock = [i \in TreeInstances |-> {}]
    /\ dtConn = {} /\ dtAside = {} /\ dtAsked = 0 /\ dtLate = {}
    /\ dtReq = [d \in Deleters |-> NoRequest] /\ dtSeen = [d \in Deleters |-> {}]

Children(s) == {c \in dtRow : TreeParent[c] = s}
InstancesOf(s) == {i \in dtInst : InstanceOf[i] = s}
SetReq(d, r) == dtReq' = [dtReq EXCEPT ![d] = r]
GoReq(d, l) == dtReq' = [dtReq EXCEPT ![d].pc = l]
EndReq(d, l) == dtReq' = [dtReq EXCEPT ![d] = [NoRequest EXCEPT !.pc = l]]
DropNode(d) == dtReq' = [dtReq EXCEPT ![d].pc = "delete", ![d].plan = Tail(@)]
Head1(d) == dtReq[d].plan[1]
ReqAt(d, l) == dtReq[d].pc = l /\ dtReq[d].plan # <<>>

\* DeleteState or DeleteInstance finds its row.
AskDelete(d) ==
    /\ dtReq[d].pc \in {"idle", "ended", "error"} /\ dtAsked < MaxDeletes
    /\ \E rec, f \in BOOLEAN :
         \/ \E s \in dtRow :
              SetReq(d, [NoRequest EXCEPT !.pc = IF rec THEN "list" ELSE "check", !.plan = <<StateNode(s, rec)>>,
                                  !.recurse = rec, !.force = f])
         \/ \E i \in dtInst :
              SetReq(d, [NoRequest EXCEPT !.pc = "judge", !.plan = <<InstanceNode(i)>>, !.force = f,
                                  !.blocked = i \in dtConn /\ ~f])
    /\ dtAsked' = dtAsked + 1
    /\ dtSeen' = [dtSeen EXCEPT ![d] = dtConn \cap {n.id : n \in {m \in ToSet(dtReq'[d].plan) : m.kind = "instance"}}]
    /\ UNCHANGED <<dtStates, dtInstances, dtILock, dtConn, dtAside, dtLate>>

\* Mutant of CheckDescendants.
CheckInstancesOnly(d) ==
    /\ ReqAt(d, "check")
    /\ SetReq(d, [dtReq[d] EXCEPT !.pc = "judge", !.blocked = InstancesOf(Head1(d).id) # {}])
    /\ UNCHANGED <<dtStates, dtInstances, dtILock, dtRest>>

\* hasDescendants.
CheckDescendants(d) ==
    /\ ReqAt(d, "check")
    /\ LET s == Head1(d).id IN
       SetReq(d, [dtReq[d] EXCEPT !.pc = "judge", !.blocked = InstancesOf(s) \cup Children(s) # {}])
    /\ UNCHANGED <<dtStates, dtInstances, dtILock, dtRest>>

\* The first node whose children have not been listed, 0 if there is none.
FirstOpen(p) == SelectInSeq(p, LAMBDA n : n.open)

\* A listed state: its instances and its children, to be removed before it.
Unfolded(s) ==
    SetToSeq({InstanceNode(i) : i \in InstancesOf(s)})
      \o SetToSeq({StateNode(c, TRUE) : c \in Children(s)}) \o <<StateNode(s, FALSE)>>

\* Mutant of ListNode.
ListNodeShallow(d) ==
    /\ dtReq[d].pc = "list"
    /\ LET p == dtReq[d].plan
           k == FirstOpen(p)
           s == p[k].id
           seen == InstancesOf(s) \cap dtConn IN
       IF k = 0 THEN GoReq(d, "judge") /\ UNCHANGED dtSeen
       ELSE IF s \notin dtRow THEN EndReq(d, "error") /\ UNCHANGED dtSeen
       ELSE /\ SetReq(d, [dtReq[d] EXCEPT
                 !.plan = SubSeq(p, 1, k - 1) \o Unfolded(s) \o SubSeq(p, k + 1, Len(p)),
                 !.blocked = seen # {} /\ ~dtReq[d].force])
            /\ dtSeen' = [dtSeen EXCEPT ![d] = @ \cup seen]
    /\ UNCHANGED <<dtStates, dtInstances, dtILock, dtConn, dtAside, dtAsked, dtLate>>

\* buildStateNode visits the next state: its row, its instances with their
\* connections, its child states.  A row that is gone meanwhile is an error.
ListNode(d) ==
    /\ dtReq[d].pc = "list"
    /\ LET p == dtReq[d].plan
           k == FirstOpen(p)
           s == p[k].id
           seen == InstancesOf(s) \cap dtConn IN
       IF k = 0 THEN GoReq(d, "judge") /\ UNCHANGED dtSeen
       ELSE IF s \notin dtRow THEN EndReq(d, "error") /\ UNCHANGED dtSeen
       ELSE /\ SetReq(d, [dtReq[d] EXCEPT
                 !.plan = SubSeq(p, 1, k - 1) \o Unfolded(s) \o SubSeq(p, k + 1, Len(p)),
                 !.blocked = @ \/ (seen # {} /\ ~dtReq[d].force)])
            /\ dtSeen' = [dtSeen EXCEPT ![d] = @ \cup seen]
    /\ UNCHANGED <<dtStates, dtInstances, dtILock, dtConn, dtAside, dtAsked, dtLate>>

\* outcomeFor: a blocked node anywhere ends the request; so does a dry run, which
\* any request may be.
Judge(d) ==
    /\ dtReq[d].pc = "judge"
    /\ EndReq(d, "ended") \/ (~dtReq[d].blocked /\ GoReq(d, "delete"))
    /\ UNCHANGED <<dtStates, dtInstances, dtILock, dtRest>>

\* deleteTree is through.
Deleted(d) ==
    /\ dtReq[d].pc = "delete" /\ dtReq[d].plan = <<>>
    /\ EndReq(d, "ended")
    /\ UNCHANGED <<dtStates, dtInstances, dtILock, dtRest>>

\* RetireBound under the lock of the instance.
BeginRetire(d) ==
    /\ ReqAt(d, "delete") /\ Head1(d).kind = "instance"
    /\ LET i == Head1(d).id IN
       /\ dtILock[i] = {}
       /\ IF dtStage[i] = "retired" THEN DropNode(d) /\ UNCHANGED <<dtStage, dtILock>>
          ELSE /\ dtStage' = [dtStage EXCEPT ![i] = "retiring"]
               /\ dtILock' = [dtILock EXCEPT ![i] = {d}] /\ GoReq(d, "stop")
    /\ UNCHANGED <<dtStates, dtInst, dtUp, dtDirs, dtRest>>

StopInstance(d) ==
    /\ ReqAt(d, "stop")
    /\ dtUp' = dtUp \ {Head1(d).id} /\ GoReq(d, "rmdir")
    /\ UNCHANGED <<dtStates, dtInst, dtDirs, dtStage, dtILock, dtRest>>

\* removeRuntimeDir: removed, or, when that fails, renamed to <dir>.stale-N, which
\* nobody looks at again; that the renamed directory is removed is not required.
removeRuntimeDir(d) ==
    /\ ReqAt(d, "rmdir")
    /\ LET i == Head1(d).id IN
       /\ dtDirs' = dtDirs \ {i} /\ GoReq(d, "rmrow")
       /\ dtAside' \in {dtAside, dtAside \cup ({i} \cap dtDirs)}
    /\ UNCHANGED <<dtStates, dtInst, dtUp, dtStage, dtILock, dtConn, dtAsked, dtSeen, dtLate>>

DeleteInstanceRow(d) ==
    /\ ReqAt(d, "rmrow")
    /\ dtInst' = dtInst \ {Head1(d).id} /\ GoReq(d, "retire")
    /\ UNCHANGED <<dtStates, dtUp, dtDirs, dtStage, dtILock, dtRest>>

EndRetire(d) ==
    /\ ReqAt(d, "retire")
    /\ LET i == Head1(d).id IN
       dtStage' = [dtStage EXCEPT ![i] = "retired"] /\ dtILock' = [dtILock EXCEPT ![i] = {}]
    /\ DropNode(d)
    /\ UNCHANGED <<dtStates, dtInst, dtUp, dtDirs, dtRest>>

\* Mutant of removeStateDir.
RemoveStateDirLater(d) ==
    /\ ReqAt(d, "delete") /\ Head1(d).kind = "state"
    /\ LET s == Head1(d).id IN
       IF InstancesOf(s) # {} THEN EndReq(d, "error") /\ UNCHANGED dtRow
       ELSE dtRow' = dtRow \ {s} /\ GoReq(d, "staterow")
    /\ UNCHANGED <<dtFiles, dtInstances, dtILock, dtRest>>

removeStateDir(d) ==
    /\ ReqAt(d, "delete") /\ Head1(d).kind = "state"
    /\ dtFiles' = dtFiles \ {Head1(d).id} /\ GoReq(d, "staterow")
    /\ UNCHANGED <<dtRow, dtInstances, dtILock, dtRest>>

\* DELETE FROM states; instances refer to their state with a foreign key.
DeleteStateRow(d) ==
    /\ ReqAt(d, "staterow")
    /\ LET s == Head1(d).id IN
       IF InstancesOf(s) # {} THEN EndReq(d, "error") /\ UNCHANGED dtRow
       ELSE dtRow' = dtRow \ {s} /\ DropNode(d)
    /\ UNCHANGED <<dtFiles, dtInstances, dtILock, dtRest>>

\* Mutant of DeleteFails.
DeleteFailsLocked(d) ==
    /\ dtReq[d].pc \in {"check", "list", "delete", "stop", "rmdir", "rmrow", "retire", "staterow"}
    /\ EndReq(d, "error")
    /\ UNCHANGED <<dtStates, dtInstances, dtILock, dtRest>>

\* Any step may report an error, which ends the whole deletion; the lock of the
\* instance is released on the way out.
DeleteFails(d) ==
    /\ dtReq[d].pc \in {"check", "list", "delete", "stop", "rmdir", "rmrow", "retire", "staterow"}
    /\ EndReq(d, "error")
    /\ dtILock' = [i \in TreeInstances |-> IF dtILock[i] = {d} THEN {} ELSE dtILock[i]]
    /\ UNCHANGED <<dtStates, dtInstances, dtRest>>

-----------------------------------------------------------------------------
(* The rest of the engine.                                                    *)

\* A deletion has listed the children of the parent, or is removing the state.
Listed(s) == \E d \in Deleters :
    /\ dtReq[d].pc # "check"
    /\ {StateNode(TreeParent[s], FALSE), StateNode(s, FALSE)} \cap ToSet(dtReq[d].plan) # {}

\* A prepare job publishes a state; its row needs the row of its parent.
PublishChild(s) ==
    /\ s \in LateStates \ dtRow /\ s \notin dtLate /\ TreeParent[s] \in dtRow
    /\ dtRow' = dtRow \cup {s} /\ dtFiles' = dtFiles \cup {s}
    /\ dtLate' = IF Listed(s) THEN dtLate \cup {s} ELSE dtLate
    /\ UNCHANGED <<dtInstances, dtILock, dtConn, dtAside, dtReq, dtAsked, dtSeen>>

\* Or creates an instance.
AddInstance(i) ==
    /\ i \in LateInstances /\ dtStage[i] = "none" /\ InstanceOf[i] \in dtRow
    /\ dtInst' = dtInst \cup {i} /\ dtUp' = dtUp \cup {i} /\ dtDirs' = dtDirs \cup {i}
    /\ dtStage' = [dtStage EXCEPT ![i] = "bound"]
    /\ UNCHANGED <<dtStates, dtILock, dtReq, dtRest>>

ConnectTo(i) ==
    /\ i \in dtUp \ dtConn
    /\ dtConn' = dtConn \cup {i}
    /\ UNCHANGED <<dtStates, dtInstances, dtILock, dtAside, dtReq, dtAsked, dtSeen, dtLate>>

\* The engine restarts: the requests are lost, what they did is not.
RestartDuringDelete ==
    /\ \E d \in Deleters : dtReq[d].pc \notin {"idle", "ended", "error"}
    /\ dtReq' = [d \in Deleters |-> [NoRequest EXCEPT !.pc = "error"]]
    /\ dtILock' = [i \in TreeInstances |-> {}]
    /\ UNCHANGED <<dtStates, dtInstances, dtRest>>

DeleteStep(d) ==
    \/ CheckDescendants(d) \/ ListNode(d) \/ Judge(d) \/ Deleted(d) \/ BeginRetire(d)
    \/ StopInstance(d) \/ removeRuntimeDir(d) \/ DeleteInstanceRow(d) \/ EndRetire(d)
    \/ removeStateDir(d) \/ DeleteStateRow(d)

TreeNext ==
    \/ \E d \in Deleters : AskDelete(d) \/ DeleteStep(d) \/ DeleteFails(d)
    \/ \E s \in TreeStates : PublishChild(s)
    \/ \E i \in TreeInstances : AddInstance(i) \/ ConnectTo(i)
    \/ RestartDuringDelete
    \/ (\A d \in Deleters : dtReq[d].pc \in {"idle", "ended", "error"})
         /\ UNCHANGED treeVars

TreeFairness == \A d \in Deleters : WF_treeVars(DeleteStep(d))

-----------------------------------------------------------------------------
(* Properties.                                                                *)

\* Nothing is lost sight of: a state directory always has its row, a container
\* and a runtime directory at its path always have the row of their instance,
\* whatever step of a deletion fails or is cut off (deleteTree removes rows last).
\* A state that is published again under a deletion which is about to remove its
\* row is excepted, and so is what removeRuntimeDir renamed and left (see
\* NothingAside, which does not hold).
NothingUnlisted ==
    /\ dtFiles \ dtLate \subseteq dtRow
    /\ dtUp \cup dtDirs \subseteq dtInst

\* No run checks this: a retired instance may leave its renamed directory on disk,
\* with no row that says so (removeRuntimeDir).
NothingAside == dtAside \subseteq dtInst

\* Without force, no instance that the request saw with a connection, however
\* deep in the tree, is retired by it.
ConnectedSpared ==
    \A d \in Deleters : \A i \in dtSeen[d] :
        ~dtReq[d].force => d \notin dtILock[i]

\* A state row loses its parent only if it was published after a deletion had
\* listed the children of that parent (states have no foreign key to their
\* parent): a deletion that stops midway leaves no orphan of its own.
OrphansAreLate ==
    \A s \in dtRow : TreeParent[s] = 0 \/ TreeParent[s] \in dtRow \/ s \in dtLate

\* Every deletion ends: a failed one leaves no lock another waits for.
DeletionOver(d) == dtReq[d].pc \in {"idle", "ended", "error"}
DeletionEnds == \A d \in Deleters : []<>DeletionOver(d)
=============================================================================
