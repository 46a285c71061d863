----------------------------- MODULE RemoteSource -----------------------------
(* Synchronisation of source files with a remote engine (remotesource/sync.go): *)
(* the server names what it lacks, the client adds hashes and listings, uploads *)
(* blobs and asks again, while files are edited, uploads fail and the server    *)
(* may drop blobs.                                                             *)
EXTENDS Integers, FiniteSets

CONSTANTS
    SyncFiles, SyncDirs,    \* paths the server may ask for
    SyncRoot,               \* the file the request names
    Contents,               \* contents of files and listings, 1 .. n
    SyncIncludes,           \* content of a file -> the paths it refers to
    MaxRounds,              \* bound of the code, DefaultMaxRounds
    MaxEdits, MaxDrops      \* bounds

VARIABLES
    rsDisk,       \* the workspace: content of every path
    rsManifest,   \* files and directories of the round state; 0: not there
    rsUploaded,   \* digests this client has uploaded
    rsBlobs,      \* server: digest -> the content stored under it; 0: none
    rsPc, rsRound, rsChanged,
    rsTodo,       \* what the last answer named and is not yet handled
    rsRead,       \* content read for the upload under way
    rsSent,       \* history: the manifest of the last request
    rsEdits, rsDrops

syncVars == <<rsDisk, rsManifest, rsUploaded, rsBlobs, rsPc, rsRound, rsChanged,
              rsTodo, rsRead, rsSent, rsEdits, rsDrops>>
rsWorld == <<rsDisk, rsEdits, rsDrops>>
Paths == SyncFiles \cup SyncDirs

SyncInit ==
    /\ rsDisk \in [Paths -> {1}] /\ rsManifest = [p \in Paths |-> 0] /\ rsUploaded = {}
    /\ rsBlobs \in [Contents -> {0}] \cup {[c \in Contents |-> IF c = 1 THEN 1 ELSE 0]}
    /\ rsPc = "call" /\ rsRound = 1 /\ rsChanged = FALSE /\ rsTodo = {} /\ rsRead = 0
    /\ rsSent = rsManifest /\ rsEdits = 0 /\ rsDrops = 0

\* What the server can see it needs: the root, and what the contents it holds refer to.
Known(p) == p \in SyncFiles /\ rsManifest[p] # 0 /\ rsBlobs[rsManifest[p]] # 0
Needed == {SyncRoot} \cup (IF Known(SyncRoot) THEN SyncIncludes[rsManifest[SyncRoot]] ELSE {})

\* source_inputs_missing: manifest entries first seen, blobs that are not stored.
Missing ==
    {[kind |-> "entry", path |-> p, hash |-> 0] : p \in {q \in Needed : rsManifest[q] = 0}}
      \cup {[kind |-> "blob", path |-> p, hash |-> rsManifest[p]] :
              p \in {q \in Needed \cap SyncFiles : rsManifest[q] # 0 /\ rsBlobs[rsManifest[q]] = 0}}

GoSync(l) == rsPc' = l

\* One request; an answer that names missing inputs begins a round.
ExecuteRequest ==
    /\ rsPc = "call"
    /\ rsSent' = rsManifest
    /\ IF Missing = {} THEN GoSync("done") /\ UNCHANGED rsTodo
       ELSE IF rsRound > MaxRounds THEN GoSync("maxRounds") /\ UNCHANGED rsTodo
       ELSE /\ GoSync("apply")
            /\ rsTodo' \in (SUBSET Missing) \ {{}}
    /\ rsChanged' = FALSE
    /\ UNCHANGED <<rsWorld, rsManifest, rsUploaded, rsBlobs, rsRound, rsRead>>

\* Entries come before blobs, each sorted by path; the order within is not kept.
FirstOf(t) ==
    CHOOSE e \in t : e.kind = "entry" \/ \A f \in t : f.kind = "blob"

\* addFileHash and addDirectoryListing: what is on disk now; an entry that is in
\* the manifest already must not have changed.
AddEntry ==
    /\ rsPc = "apply" /\ rsTodo # {} /\ FirstOf(rsTodo).kind = "entry"
    /\ LET e == FirstOf(rsTodo) IN
       /\ rsTodo' = rsTodo \ {e}
       /\ IF rsManifest[e.path] # 0
            THEN /\ GoSync(IF rsManifest[e.path] = rsDisk[e.path] THEN "apply" ELSE "changed")
                 /\ UNCHANGED <<rsManifest, rsChanged>>
            ELSE /\ rsManifest' = [rsManifest EXCEPT ![e.path] = rsDisk[e.path]]
                 /\ rsChanged' = TRUE /\ UNCHANGED rsPc
    /\ UNCHANGED <<rsWorld, rsUploaded, rsBlobs, rsRound, rsRead, rsSent>>

\* uploadBlob reads the file once, and compares with what the server expects and
\* with the manifest.  A file that can no longer be read ends the upload as any
\* failure does.
ReadBlob ==
    /\ rsPc = "apply" /\ rsTodo # {} /\ FirstOf(rsTodo).kind = "blob"
    /\ LET e == FirstOf(rsTodo) IN
       /\ IF rsDisk[e.path] # e.hash THEN GoSync("changed") /\ UNCHANGED <<rsTodo, rsRead>>
          ELSE IF e.hash \in rsUploaded THEN rsTodo' = rsTodo \ {e} /\ UNCHANGED <<rsPc, rsRead>>
          ELSE GoSync("put") /\ rsRead' = rsDisk[e.path] /\ UNCHANGED rsTodo
    /\ UNCHANGED <<rsWorld, rsManifest, rsUploaded, rsBlobs, rsRound, rsChanged, rsSent>>

\* Mutant of PutBlob.
PutBlobRereads ==
    /\ rsPc = "put"
    /\ LET e == FirstOf(rsTodo) IN
       /\ rsBlobs' = [rsBlobs EXCEPT ![e.hash] = rsDisk[e.path]]
       /\ rsUploaded' = rsUploaded \cup {e.hash}
       /\ rsTodo' = rsTodo \ {e}
    /\ rsChanged' = TRUE /\ rsRead' = 0 /\ GoSync("apply")
    /\ UNCHANGED <<rsWorld, rsManifest, rsRound, rsSent>>

\* PutSourceBlob under the digest, with the content that was read.
PutBlob ==
    /\ rsPc = "put"
    /\ LET e == FirstOf(rsTodo) IN
       /\ rsBlobs' = [rsBlobs EXCEPT ![e.hash] = rsRead]
       /\ rsUploaded' = rsUploaded \cup {e.hash}
       /\ rsTodo' = rsTodo \ {e}
    /\ rsChanged' = TRUE /\ rsRead' = 0 /\ GoSync("apply")
    /\ UNCHANGED <<rsWorld, rsManifest, rsRound, rsSent>>

\* A file that cannot be read, a path outside the workspace, an upload that fails.
SyncFails ==
    /\ rsPc \in {"call", "apply", "put"}
    /\ GoSync("failed")
    /\ UNCHANGED <<rsWorld, rsManifest, rsUploaded, rsBlobs, rsRound, rsChanged, rsTodo, rsRead, rsSent>>

\* Mutant of EndRound.
EndRoundAlways ==
    /\ rsPc = "apply" /\ rsTodo = {}
    /\ GoSync("call") /\ rsRound' = IF rsChanged THEN rsRound + 1 ELSE rsRound
    /\ UNCHANGED <<rsWorld, rsManifest, rsUploaded, rsBlobs, rsChanged, rsTodo, rsRead, rsSent>>

\* The round is through: without progress another request would get the same answer.
EndRound ==
    /\ rsPc = "apply" /\ rsTodo = {}
    /\ IF rsChanged THEN GoSync("call") /\ rsRound' = rsRound + 1
       ELSE GoSync("noProgress") /\ UNCHANGED rsRound
    /\ UNCHANGED <<rsWorld, rsManifest, rsUploaded, rsBlobs, rsChanged, rsTodo, rsRead, rsSent>>

\* The workspace is edited, the server drops a blob.
EditSource ==
    /\ rsEdits < MaxEdits
    /\ \E p \in Paths, c \in Contents : rsDisk' = [rsDisk EXCEPT ![p] = c]
    /\ rsEdits' = rsEdits + 1
    /\ UNCHANGED <<rsManifest, rsUploaded, rsBlobs, rsPc, rsRound, rsChanged, rsTodo, rsRead, rsSent, rsDrops>>

DropBlob ==
    /\ rsDrops < MaxDrops
    /\ \E c \in Contents : rsBlobs' = [rsBlobs EXCEPT ![c] = 0]
    /\ rsDrops' = rsDrops + 1
    /\ UNCHANGED <<rsDisk, rsManifest, rsUploaded, rsPc, rsRound, rsChanged, rsTodo, rsRead, rsSent, rsEdits>>

SyncStep == ExecuteRequest \/ AddEntry \/ ReadBlob \/ PutBlob \/ EndRound
SyncOver == rsPc \in {"done", "maxRounds", "noProgress", "changed", "failed"}

SyncNext == SyncStep \/ SyncFails \/ EditSource \/ DropBlob \/ (SyncOver /\ UNCHANGED syncVars)

SyncFairness == WF_syncVars(SyncStep)

-----------------------------------------------------------------------------
(* Properties.                                                                *)

\* However files are edited between and during the rounds: a blob of the server is
\* the content of its digest, and what a request said of a path is never taken back
\* by a later one, so that the server never mixes two versions of one file.
SyncTruthful ==
    /\ \A c \in Contents : rsBlobs[c] \in {0, c}
    /\ \A p \in Paths : rsSent[p] \in {0, rsManifest[p]}

\* The loop ends, also against a server that names the same inputs again.
SyncEnds == []<>SyncOver
=============================================================================
