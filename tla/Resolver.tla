------------------------------ MODULE Resolver ------------------------------
(***************************************************************************)
(* Resolving a workspace file to the digest of its content (the runtime    *)
(* contract library, package resolver): a cached resolution is taken when  *)
(* the file system proves that the file has not changed since, otherwise   *)
(* the file is read twice under the same descriptor and cached again;      *)
(* Acquire then copies the content to a store addressed by digest.         *)
(*                                                                         *)
(* Several processes resolve the same declaration with one cache and one   *)
(* artifact store, while the file is edited, replaced, removed and given   *)
(* back an old modification time.  A file is a pair of halves read one     *)
(* after the other, so that a read can be torn; all contents have one      *)
(* size, the case in which the size tells nothing.                         *)
(***************************************************************************)
EXTENDS Naturals

CONSTANTS
  Resolvers,       \* the processes
  Acquirers,       \* those that go on to acquire the content
  Halves,          \* the values of half a file
  Replacements,    \* the contents of a file that takes the place of another
  StrongFS,        \* does the file system give a change time and a file id
  FineStamps,      \* does every change get a change time of its own
  MaxFileEdits,    \* changes of the file
  MaxDamages       \* damages of a cache record or of a stored artifact

(* What replaces a file is a content like any other.                       *)
ASSUME ResolverAssumption ==
  /\ MaxFileEdits \in Nat /\ MaxDamages \in Nat
  /\ Replacements \subseteq Halves \X Halves

VARIABLES
  files,      \* the inodes: content, modification and change time
  entry,      \* the inode the path names, 0 when it is missing
  clock,      \* the file system's clock
  edits,      \* changes so far
  cached,     \* the cache record
  store,      \* the artifact store: the content found under each digest
  damages,    \* damages so far
  call        \* what each process is doing

resolverVars == <<files, entry, clock, edits, cached, store, damages, call>>
diskVars == <<files, entry, clock, edits>>

Digests == Halves \X Halves
NoContent == <<>>
BadContent == <<0, 0>>
Inodes == 1..(MaxFileEdits + 1)

(* What stat says of an inode, and what the resolver keeps of it: a change *)
(* time and file id only from a file system whose evidence is enabled.     *)
nativeContinuityEvidence(i) ==
  IF StrongFS THEN [id |-> i, change |-> files[i].change, strong |-> TRUE]
              ELSE [id |-> 0, change |-> 0, strong |-> FALSE]

NoRecord == [kind |-> "none"]

(* What a damaged record can be: bytes that fail the envelope's checks, an *)
(* envelope of another version, a record of another key, a resolution the  *)
(* provider does not accept.                                               *)
Damaged == {"corrupt", "format", "foreign", "invalid"}

(* The envelope: syntax, spelling, checksum and key digest are checked     *)
(* before anything in it is used.                                          *)
decodeCacheEnvelope(rec) == rec.kind \notin {"corrupt", "format"}

Matches(rec) == rec.kind # "foreign"
ValidateResolution(rec) == rec.kind # "invalid"

(* DirectoryCache.Load and the check of what it loaded; every failure is a *)
(* miss that falls back to reading the file.                               *)
LoadHit(rec) ==
  /\ rec.kind # "none"
  /\ decodeCacheEnvelope(rec) /\ Matches(rec) /\ ValidateResolution(rec)

NewCacheRecord(c) == [kind |-> "record", digest |-> c.digest, evidence |-> c.evidence]

NoEvidence == [id |-> 0, change |-> 0, strong |-> FALSE, modified |-> 0]

NewCall ==
  [at |-> "idle", seen |-> {}, purpose |-> "none", observed |-> 0, inode |-> 0,
   before |-> NoEvidence, modified |-> 0, first |-> NoContent, second |-> NoContent,
   half |-> 0, digest |-> NoContent, evidence |-> NoEvidence, got |-> NoContent]

ResolverInit ==
  /\ files = [i \in Inodes |-> [content |-> <<CHOOSE h \in Halves : TRUE, CHOOSE h \in Halves : TRUE>>,
                                modified |-> 0, change |-> 0]]
  /\ entry = 1 /\ clock = 0 /\ edits = 0
  /\ cached = NoRecord
  /\ store = [d \in Digests |-> NoContent]
  /\ damages = 0
  /\ call = [r \in Resolvers |-> NewCall]

-----------------------------------------------------------------------------
(* The user of the workspace.  Every change is seen by the calls under     *)
(* way: "seen" is what the path held since the call began.                 *)
Stamp(t) == IF FineStamps THEN t = clock + 1 ELSE t \in {clock, clock + 1}

Changed(new) ==
  call' = [r \in Resolvers |->
             IF call[r].at \in {"idle", "resolved", "done", "failed"} \/ call[r].purpose = "acquire"
             THEN call[r]
             ELSE [call[r] EXCEPT !.seen = @ \cup {new}]]

EditHalf(k, h) ==
  /\ edits < MaxFileEdits /\ entry # 0
  /\ files[entry].content[k] # h
  /\ \E t \in {clock, clock + 1}, m \in {clock + 1, files[entry].modified} :
       /\ Stamp(t)
       /\ clock' = t
       /\ files' = [files EXCEPT ![entry] =
            [content |-> [@.content EXCEPT ![k] = h], modified |-> m, change |-> t]]
  /\ edits' = edits + 1
  /\ Changed(files'[entry].content)
  /\ UNCHANGED <<entry, cached, store, damages>>

ReplaceFile(c) ==
  /\ edits < MaxFileEdits
  /\ LET i == edits + 2 IN
       /\ entry' = i
       /\ files' = [files EXCEPT ![i] = [content |-> c, modified |-> clock + 1, change |-> clock + 1]]
  /\ clock' = clock + 1
  /\ edits' = edits + 1
  /\ Changed(c)
  /\ UNCHANGED <<cached, store, damages>>

RemoveFile ==
  /\ edits < MaxFileEdits /\ entry # 0
  /\ entry' = 0
  /\ edits' = edits + 1
  /\ UNCHANGED <<files, clock, cached, store, damages, call>>

-----------------------------------------------------------------------------
Step(r, c) == call' = [call EXCEPT ![r] = c]
To(r, at) == Step(r, [call[r] EXCEPT !.at = at])
ResolveFails(r) == Step(r, [NewCall EXCEPT !.at = "failed"])

(* ResolveCurrent: the cache is asked first; a record that is damaged, of  *)
(* another format or not valid is a miss.                                  *)
ResolveCurrent(r) ==
  /\ call[r].at = "idle"
  /\ Step(r, [NewCall EXCEPT
       !.at = "walk",
       !.seen = IF entry = 0 THEN {} ELSE {files[entry].content},
       !.purpose = IF LoadHit(cached) THEN "revalidate" ELSE "resolve",
       !.digest = IF LoadHit(cached) THEN cached.digest ELSE NoContent,
       !.evidence = IF LoadHit(cached) THEN cached.evidence ELSE NoEvidence])
  /\ UNCHANGED <<diskVars, cached, store, damages>>

(* A revalidation that cannot find the file is STALE and resolves afresh;  *)
(* resolving or acquiring fails.                                           *)
Unopened(r) ==
  IF call[r].purpose = "revalidate"
    THEN Step(r, [NewCall EXCEPT !.at = "walk", !.seen = call[r].seen, !.purpose = "resolve"])
    ELSE ResolveFails(r)

(* openSafeFile: observe the entry, ... *)
WalkPath(r) ==
  /\ call[r].at = "walk"
  /\ IF entry = 0
       THEN Unopened(r)
       ELSE Step(r, [call[r] EXCEPT !.at = "open", !.observed = entry])
  /\ UNCHANGED <<diskVars, cached, store, damages>>

(* ... open it, which must be the file observed, ... *)
OpenFile(r) ==
  /\ call[r].at = "open"
  /\ IF entry # call[r].observed
       THEN Unopened(r)
       ELSE Step(r, [call[r] EXCEPT !.at = "recheck", !.inode = entry,
              !.before = nativeContinuityEvidence(entry),
              !.modified = files[entry].modified])
  /\ UNCHANGED <<diskVars, cached, store, damages>>

(* ... and observe it again. *)
RecheckPath(r) ==
  /\ call[r].at = "recheck"
  /\ IF entry # call[r].observed
       THEN Unopened(r)
       ELSE To(r, CASE call[r].purpose = "revalidate" -> "compare"
                    [] call[r].purpose = "resolve" -> "read1"
                    [] OTHER -> "lookup")
  /\ UNCHANGED <<diskVars, cached, store, damages>>

(* Mutant of Continuous: the modification time is trusted. *)
ContinuousByTime(c) == c.evidence.strong /\ c.modified = c.evidence.modified

(* The evidence of the record and of the file just opened agree. *)
Continuous(c) ==
  /\ c.evidence.strong /\ c.before.strong
  /\ c.before.id = c.evidence.id
  /\ c.before.change = c.evidence.change
  /\ c.modified = c.evidence.modified

(* Revalidate: CURRENT takes the record, UNKNOWN reads the file again. *)
Revalidate(r) ==
  /\ call[r].at = "compare"
  /\ IF Continuous(call[r])
       THEN Step(r, [NewCall EXCEPT !.at = "store", !.seen = call[r].seen,
              !.digest = call[r].digest, !.evidence = call[r].evidence])
       ELSE Step(r, [NewCall EXCEPT !.at = "walk", !.seen = call[r].seen, !.purpose = "resolve"])
  /\ UNCHANGED <<diskVars, cached, store, damages>>

(* stableFileDigest: two reads of the open file, half by half, with a      *)
(* check of the metadata after each.                                       *)
ReadHalf(r) ==
  LET c == call[r] IN
  /\ c.at \in {"read1", "read2", "read3", "read4"}
  /\ Step(r, CASE c.at = "read1" -> [c EXCEPT !.at = "read2", !.half = files[c.inode].content[1]]
               [] c.at = "read2" -> [c EXCEPT !.at = "check1", !.first = <<c.half, files[c.inode].content[2]>>]
               [] c.at = "read3" -> [c EXCEPT !.at = "read4", !.half = files[c.inode].content[1]]
               [] c.at = "read4" -> [c EXCEPT !.at = "check2", !.second = <<c.half, files[c.inode].content[2]>>])
  /\ UNCHANGED <<diskVars, cached, store, damages>>

stableFileDigest(r) ==
  LET c == call[r] IN
  /\ c.at \in {"check1", "check2"}
  /\ IF files[c.inode].modified # c.modified \/ (c.at = "check2" /\ c.first # c.second)
       THEN ResolveFails(r)
       ELSE To(r, IF c.at = "check1" THEN "read3" ELSE "confirm")
  /\ UNCHANGED <<diskVars, cached, store, damages>>

(* Mutant of ConfirmEvidence: the evidence is taken after the read only. *)
ConfirmEvidenceAfter(r) ==
  LET c == call[r]
      after == nativeContinuityEvidence(c.inode)
  IN /\ c.at = "confirm"
     /\ Step(r, [NewCall EXCEPT !.at = "store", !.seen = c.seen, !.digest = c.first,
             !.evidence = [id |-> after.id, change |-> after.change, strong |-> after.strong,
                           modified |-> files[c.inode].modified]])
     /\ UNCHANGED <<diskVars, cached, store, damages>>

(* The evidence after the reads must be the evidence before them. *)
ConfirmEvidence(r) ==
  LET c == call[r]
      after == nativeContinuityEvidence(c.inode)
  IN /\ c.at = "confirm"
     /\ IF (c.before.strong \/ after.strong) /\ c.before # after
          THEN ResolveFails(r)
          ELSE Step(r, [NewCall EXCEPT !.at = "store", !.seen = c.seen, !.digest = c.first,
                 !.evidence = [id |-> after.id, change |-> after.change, strong |-> after.strong,
                               modified |-> files[c.inode].modified]])
     /\ UNCHANGED <<diskVars, cached, store, damages>>

(* DirectoryCache.Store: a temporary file takes the place of the record; a *)
(* failure, or a process that dies, leaves the old one.                    *)
StoreRecord(r) ==
  /\ call[r].at = "store"
  /\ \/ /\ cached' = NewCacheRecord(call[r])
        /\ Step(r, [NewCall EXCEPT !.at = "resolved", !.digest = call[r].digest])
     \/ ResolveFails(r) /\ UNCHANGED cached
  /\ UNCHANGED <<diskVars, store, damages>>

(* Acquire opens the path of the evidence once more. *)
Acquire(r) ==
  /\ call[r].at = "resolved"
  /\ \/ To(r, "done")
     \/ /\ r \in Acquirers
        /\ Step(r, [NewCall EXCEPT !.at = "walk", !.purpose = "acquire", !.digest = call[r].digest])
  /\ UNCHANGED <<diskVars, cached, store, damages>>

(* publishVerified: an artifact that is there and whose bytes verify is    *)
(* taken; one that does not verify is to be removed.                       *)
LookupArtifact(r) ==
  LET c == call[r] IN
  /\ c.at = "lookup"
  /\ CASE store[c.digest] = c.digest ->
            Step(r, [NewCall EXCEPT !.at = "done", !.digest = c.digest, !.got = store[c.digest]])
       [] store[c.digest] = NoContent -> To(r, "copy1")
       [] OTHER -> To(r, "remove")
  /\ UNCHANGED <<diskVars, cached, store, damages>>

RemoveArtifact(r) ==
  /\ call[r].at = "remove"
  /\ store' = [store EXCEPT ![call[r].digest] = NoContent]
  /\ To(r, "copy1")
  /\ UNCHANGED <<diskVars, cached, damages>>

CopyHalf(r) ==
  LET c == call[r] IN
  /\ c.at \in {"copy1", "copy2"}
  /\ Step(r, IF c.at = "copy1"
               THEN [c EXCEPT !.at = "copy2", !.half = files[c.inode].content[1]]
               ELSE [c EXCEPT !.at = "publish", !.first = <<c.half, files[c.inode].content[2]>>])
  /\ UNCHANGED <<diskVars, cached, store, damages>>

(* Mutant of PublishArtifact: what was copied is published. *)
PublishArtifactUnverified(r) ==
  LET c == call[r] IN
  /\ c.at = "publish"
  /\ store' = [store EXCEPT ![c.digest] = c.first]
  /\ Step(r, [NewCall EXCEPT !.at = "done", !.digest = c.digest, !.got = c.first])
  /\ UNCHANGED <<diskVars, cached, damages>>

(* The copy is published only when it has the digest that was resolved. *)
PublishArtifact(r) ==
  LET c == call[r] IN
  /\ c.at = "publish"
  /\ \/ /\ c.first = c.digest
        /\ store' = [store EXCEPT ![c.digest] = c.first]
        /\ To(r, "verify")
     \/ ResolveFails(r) /\ UNCHANGED store
  /\ UNCHANGED <<diskVars, cached, damages>>

openVerifiedArtifact(r) ==
  LET c == call[r] IN
  /\ c.at = "verify"
  /\ IF store[c.digest] = c.digest
       THEN Step(r, [NewCall EXCEPT !.at = "done", !.digest = c.digest, !.got = store[c.digest]])
       ELSE ResolveFails(r)
  /\ UNCHANGED <<diskVars, cached, store, damages>>

(* Every call has returned. *)
ResolversRest ==
  /\ \A r \in Resolvers : call[r].at \in {"done", "failed"}
  /\ UNCHANGED resolverVars

(* Prune takes away a record it can read and whose name is its key; it     *)
(* steps over everything else, temporary files included.                   *)
Prune ==
  /\ cached.kind # "none" /\ decodeCacheEnvelope(cached) /\ Matches(cached)
  /\ cached' = NoRecord
  /\ UNCHANGED <<diskVars, store, damages, call>>

(* A record or an artifact is damaged on disk. *)
DamageRecord ==
  /\ damages < MaxDamages /\ cached.kind = "record"
  /\ \E k \in Damaged : cached' = [kind |-> k]
  /\ damages' = damages + 1
  /\ UNCHANGED <<diskVars, store, call>>

DamageArtifact(d) ==
  /\ damages < MaxDamages /\ store[d] = d
  /\ store' = [store EXCEPT ![d] = BadContent]
  /\ damages' = damages + 1
  /\ UNCHANGED <<diskVars, cached, call>>

ResolverNext ==
  \/ \E r \in Resolvers :
       \/ ResolveCurrent(r) \/ WalkPath(r) \/ OpenFile(r) \/ RecheckPath(r)
       \/ Revalidate(r) \/ ReadHalf(r) \/ stableFileDigest(r) \/ ConfirmEvidence(r)
       \/ StoreRecord(r) \/ Acquire(r) \/ LookupArtifact(r) \/ RemoveArtifact(r)
       \/ CopyHalf(r) \/ PublishArtifact(r) \/ openVerifiedArtifact(r)
  \/ \E k \in 1..2, h \in Halves : EditHalf(k, h)
  \/ \E c \in Replacements : ReplaceFile(c)
  \/ \E d \in Digests : DamageArtifact(d)
  \/ RemoveFile \/ Prune \/ DamageRecord \/ ResolversRest

-----------------------------------------------------------------------------
(* What ResolveCurrent answers was the content of the path at some moment  *)
(* of the call: neither a torn read nor a record of an earlier content.    *)
ResolvedIsSeen ==
  \A r \in Resolvers :
    call[r].at = "store" => call[r].digest \in call[r].seen

(* A record whose evidence the file still shows has the file's digest: it  *)
(* is what makes taking the record without reading the file right.         *)
EvidenceFits ==
  cached.kind = "record" /\ cached.evidence.strong =>
    \A i \in Inodes :
      /\ i = cached.evidence.id
      /\ files[i].change = cached.evidence.change
      /\ files[i].modified = cached.evidence.modified
      => files[i].content = cached.digest

(* An artifact that was handed out has the content that was resolved,      *)
(* whatever happened to the file or to the store meanwhile.                *)
AcquiredIsResolved ==
  \A r \in Resolvers : call[r].got # NoContent => call[r].got = call[r].digest

ResolverSafe == ResolvedIsSeen /\ EvidenceFits /\ AcquiredIsResolved
=============================================================================
