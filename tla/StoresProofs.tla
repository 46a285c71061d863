---------------------------- MODULE StoresProofs ----------------------------
(***************************************************************************)
(* Proofs about what is kept on disk and in stores, for every value of the *)
(* constants: the two ways to set up a btrfs store, the sessions of the    *)
(* CLI, containers, the files of a state, the file resolver and the        *)
(* lineage store.  The components share no state: every one has an         *)
(* invariant of its own, and StoresStep reduces a step of the whole to a   *)
(* step or a stutter of each of them.                                      *)
(***************************************************************************)
EXTENDS MCStores, FiniteSetTheorems, WellFoundedInduction, TLAPS

(* A step of the composition is, for every component, one of its steps or  *)
(* leaves its variables alone.                                             *)
LEMMA StoresStep ==
  [Next]_storeVars => /\ [LinuxNext]_linuxVars /\ [WslNext]_wslVars /\ [AuthNext]_authVars
                      /\ [ContainersNext]_containerVars /\ [StateFilesNext]_stateFileVars
                      /\ [ResolverNext]_resolverVars /\ [LineageNext]_lineageVars
BY DEF Next, storeVars

(* The components start as their own modules say.                          *)
LEMMA StoresInit ==
  Init => /\ LinuxInit /\ WslInit /\ AuthInit
          /\ ContainersInit /\ StateFilesInit /\ ResolverInit /\ LineageInit
BY DEF Init

-----------------------------------------------------------------------------
(* LinuxStore.  What a run has done by the time it is at a step: the data  *)
(* is on a formatted medium only, an image is removed only with --reinit,  *)
(* a medium was created before it is formatted, and is btrfs afterwards.   *)
MediumInv ==
  /\ lsMedium.data => lsMedium.fs \in {"ext4", "btrfs"}
  /\ lsPc \in {"unmount", "remove"} => lsReinit /\ lsKind = "image"
  /\ lsPc \in {"plan", "source", "unmount", "remove", "create"} => ~lsCreated
  /\ lsPc = "create" => lsKind = "image"
  /\ lsPc = "source" => lsKind = "device"
  /\ lsPc = "format" => lsMedium.fs # "absent" /\ (lsCreated => lsMedium.fs = "raw")
  /\ lsPc \in {"mounts", "mount", "verify"} => lsMedium.fs = "btrfs"
  /\ lsPc = "verify" => lsMount = [at |-> "store", what |-> "medium"]
  /\ lsKind = "image" => lsMount.at # "elsewhere"
  /\ lsKind = "device" =>
       /\ lsMedium.fs # "absent"
       /\ lsMount.at # "none" /\ lsMount.what = "medium" => lsMedium.fs \in {"ext4", "btrfs"}

LinuxTyped ==
  /\ lsKind \in {"image", "device"} /\ lsHost \in {"ext4", "btrfs"}
  /\ DOMAIN lsMedium = {"fs", "data"} /\ lsMedium.fs \in {"absent", "raw", "ext4", "btrfs"}
  /\ lsMount \in [at : {"none", "store", "elsewhere"}, what : {"medium", "foreign"}]

LinuxInv == LinuxTyped /\ MediumInv /\ LinuxStoreSafe

(* A fresh image, or a device with or without a file system.               *)
LEMMA LinuxInvInit == LinuxInit => LinuxInv
<1> SUFFICES ASSUME LinuxInit PROVE LinuxInv
  OBVIOUS
<1>1. lsPc = "idle" /\ ~lsLost
  BY DEF LinuxInit
<1>2. LinuxTyped /\ (lsMedium.data => lsMedium.fs \in {"ext4", "btrfs"})
  <2>1. lsMedium \in {[fs |-> "absent", data |-> FALSE], [fs |-> "raw", data |-> FALSE],
                      [fs |-> "ext4", data |-> TRUE], [fs |-> "btrfs", data |-> TRUE]}
    BY DEF LinuxInit
  <2>2. lsMount \in {NoMount, [at |-> "store", what |-> "foreign"], [at |-> "elsewhere", what |-> "medium"]}
    BY DEF LinuxInit
  <2>3. lsKind \in {"image", "device"} /\ lsHost \in {"ext4", "btrfs"}
    BY DEF LinuxInit
  <2>4. /\ DOMAIN lsMedium = {"fs", "data"} /\ lsMedium.fs \in {"absent", "raw", "ext4", "btrfs"}
        /\ lsMedium.data => lsMedium.fs \in {"ext4", "btrfs"}
    BY <2>1
  <2>5. lsMount \in [at : {"none", "store", "elsewhere"}, what : {"medium", "foreign"}]
    BY <2>2 DEF NoMount
  <2>6. QED BY <2>3, <2>4, <2>5 DEF LinuxTyped
<1>3. /\ lsKind = "image" => lsMount.at # "elsewhere"
      /\ lsKind = "device" => /\ lsMedium.fs # "absent"
                              /\ lsMount.at # "none" /\ lsMount.what = "medium" => lsMedium.fs \in {"ext4", "btrfs"}
  BY DEF LinuxInit, NoMount
<1>4. QED
  BY <1>1, <1>2, <1>3 DEF LinuxInv, MediumInv, LinuxStoreSafe, MediumKept, ProvisionedOnBtrfs,
     InterruptedResumes

(* The commands of a run, one by one, and the places where it may stop.    *)
LEMMA LinuxInvStep == LinuxInv /\ [LinuxNext]_linuxVars => LinuxInv'
<1> SUFFICES ASSUME LinuxInv, [LinuxNext]_linuxVars PROVE LinuxInv'
  OBVIOUS
<1> USE DEF LinuxInv, LinuxTyped, MediumInv, LinuxStoreSafe, MediumKept, ProvisionedOnBtrfs,
      InterruptedResumes, PathFS, MountedFS, NoMount, LinuxGo, LinuxStay, lsArgs, lsDisk
<1>1. CASE StartLinuxInit
  BY <1>1 DEF StartLinuxInit
<1>2. CASE initLocalBtrfsStore
  BY <1>2 DEF initLocalBtrfsStore
<1>3. CASE ReinitImage
  BY <1>3 DEF ReinitImage, tryUnmountStore
<1>4. CASE RemoveImage
  BY <1>4 DEF RemoveImage, Destroyed
<1>5. CASE ensureLoopImage
  BY <1>5 DEF ensureLoopImage
<1>6. CASE FormatMedium
  <2> DEFINE fresh == [fs |-> "btrfs", data |-> FALSE]
  <2>1. UNCHANGED <<lsMount, lsArgs, lsCreated, lsAt>> /\ lsPc = "format"
    BY <1>6 DEF FormatMedium
  <2>2. \/ lsPc' = "mounts" /\ UNCHANGED <<lsMedium, lsLost>> /\ lsMedium.fs = "btrfs"
        \/ lsPc' = "refused" /\ UNCHANGED <<lsMedium, lsLost>> /\ lsMedium.fs = "ext4"
        \/ lsPc' = "mounts" /\ lsMedium' = fresh /\ ~lsLost'
    <3>1. CASE detectBlockFSType = "btrfs"
      BY <1>6, <3>1 DEF FormatMedium, detectBlockFSType
    <3>2. CASE detectBlockFSType # "btrfs" /\ detectBlockFSType # "raw" /\ ~MayFormat
      BY <1>6, <3>2 DEF FormatMedium, detectBlockFSType
    <3>3. CASE detectBlockFSType # "btrfs" /\ (detectBlockFSType = "raw" \/ MayFormat)
      <4>1. lsPc' = "mounts" /\ Destroyed(fresh)
        BY <1>6, <3>3 DEF FormatMedium
      <4>2. ~(lsMedium.data /\ ~lsReinit /\ lsReadable)
        BY <2>1, <3>3 DEF detectBlockFSType, MayFormat
      <4>3. QED BY <4>1, <4>2 DEF Destroyed
    <3>4. QED BY <3>1, <3>2, <3>3
  <2>3. CASE lsMedium' = lsMedium
    BY <2>1, <2>2, <2>3
  <2>4. CASE lsPc' = "mounts" /\ lsMedium' = fresh /\ ~lsLost'
    BY <2>1, <2>4
  <2>5. QED BY <2>2, <2>3, <2>4
<1>7. CASE detectMountFSType
  BY <1>7 DEF detectMountFSType, tryUnmountStore
<1>8. CASE ensureDeviceBackedBtrfsStore
  BY <1>8 DEF ensureDeviceBackedBtrfsStore, tryUnmountStore
<1>9. CASE MountMedium
  BY <1>9 DEF MountMedium
<1>10. CASE VerifyStore
  BY <1>10 DEF VerifyStore
<1>11. CASE LinuxInitStops
  BY <1>11 DEF LinuxInitStops
<1>12. CASE LinuxInitEnds
  <2>1. lsMedium'.fs = lsMedium.fs /\ DOMAIN lsMedium' = {"fs", "data"}
    BY <1>12 DEF LinuxInitEnds
  <2>2. UNCHANGED <<lsMount, lsArgs, lsAt, lsLost>> /\ lsPc' = "idle"
    BY <1>12 DEF LinuxInitEnds
  <2>3. lsMedium'.data => lsMedium.fs \in {"ext4", "btrfs"}
    BY <1>12 DEF LinuxInitEnds
  <2>4. QED BY <2>1, <2>2, <2>3
<1>13. CASE Reboot
  BY <1>13 DEF Reboot
<1>14. CASE UNCHANGED linuxVars
  BY <1>14 DEF linuxVars
<1>15. QED
  BY <1>1, <1>2, <1>3, <1>4, <1>5, <1>6, <1>7, <1>8, <1>9, <1>10, <1>11, <1>12, <1>13, <1>14
     DEF LinuxNext, LinuxOver

(* Provisioning on Linux destroys data only when told to, ends on btrfs    *)
(* and can be resumed (initLocalBtrfsStore and the functions it calls),    *)
(* for any number of runs, interruptions and reboots.                      *)
THEOREM LinuxStoreKept == Spec => []LinuxStoreSafe
<1>1. LinuxInv => LinuxStoreSafe
  BY DEF LinuxInv
<1>2. QED BY <1>1, StoresInit, StoresStep, LinuxInvInit, LinuxInvStep, PTL DEF Spec

-----------------------------------------------------------------------------
(* WslStore.  Only a formatted VHDX holds data, and a formatted VHDX is    *)
(* there; from the formatting to the commit the chosen disk is btrfs, and  *)
(* from the unit to the commit the unit mounts it; the old store is        *)
(* removed only after the history recorded that a --reinit is under way.   *)
Provisioning == {"reinit", "umount", "vhdx", "find", "attach", "format", "unit", "activate", "commit"}

WslInv ==
  /\ wsVhdx \in [there : BOOLEAN, part : BOOLEAN, fs : {"raw", "btrfs"}, data : BOOLEAN]
  /\ wsVhdx.data => wsVhdx.fs = "btrfs"
  /\ wsVhdx.fs = "btrfs" => wsVhdx.there
  /\ wsPc \in Provisioning => wsEngine # "none"
  /\ wsPc \in {"find", "attach", "format"} => wsVhdx.there
  /\ wsPc = "format" => wsDisk \in {"ours", "foreign"}
  /\ wsPc \in {"unit", "activate", "commit"} => wsDisk \in {"ours", "foreign"} /\ FSOf(wsDisk) = "btrfs"
  /\ wsPc \in {"activate", "commit"} => wsUnit = wsDisk
  /\ wsPc = "umount" => wsCut
  /\ WslStoreSafe

(* Nothing is installed, attached or served.                               *)
LEMMA WslInvInit == WslInit => WslInv
BY DEF WslInit, WslInv, NoVhdx, Provisioning, WslStoreSafe, VhdxKept, ServedOnBtrfs, ConfigBacked

(* The commands of init, the start of an engine and a shutdown of WSL.     *)
LEMMA WslInvStep == WslInv /\ [WslNext]_wslVars => WslInv'
<1> SUFFICES ASSUME WslInv, [WslNext]_wslVars PROVE WslInv'
  OBVIOUS
<1> USE DEF WslInv, NoVhdx, Provisioning, WslStoreSafe, VhdxKept, ServedOnBtrfs, ConfigBacked,
      FSOf, WslGo, WslFrame, wslDisks, wslMounts, wslRun, wslCounts
<1>1. CASE runInit
  BY <1>1 DEF runInit
<1>2. CASE repairExistingWSLEngine \/ installWSLEngine
  BY <1>2 DEF repairExistingWSLEngine, installWSLEngine
<1>3. CASE removeSystemdMountUnit
  BY <1>3 DEF removeSystemdMountUnit
<1>4. CASE reinitWSLStore
  <2>1. ~wsServing /\ ~wsServing' /\ wsCut /\ wsCut' /\ wsLost' = wsLost /\ wsEngine' = wsEngine
    BY <1>4 DEF reinitWSLStore
  <2>2. \/ wsPc' = "fail" /\ wsVhdx' = wsVhdx
        \/ wsPc' = "vhdx" /\ wsVhdx' = NoVhdx
    BY <1>4 DEF reinitWSLStore
  <2>3. wsPc = "umount"
    BY <1>4 DEF reinitWSLStore
  <2>4. CASE wsPc' = "fail" /\ wsVhdx' = wsVhdx
    BY <2>1, <2>3, <2>4
  <2>5. CASE wsPc' = "vhdx" /\ wsVhdx' = NoVhdx
    BY <2>1, <2>3, <2>5
  <2>6. QED BY <2>2, <2>4, <2>5
<1>5. CASE ensureHostVHDX
  BY <1>5 DEF ensureHostVHDX
<1>6. CASE findWSLDisk
  BY <1>6 DEF findWSLDisk, selectDiskBySize
<1>7. CASE AttachVhdx
  BY <1>7 DEF AttachVhdx
<1>8. CASE ensureBtrfsOnPartition
  <2> DEFINE formatted == [wsVhdx EXCEPT !.fs = "btrfs", !.data = FALSE]
  <2>1. /\ UNCHANGED <<wsConfig, wsServing, wsEngine, wsMounted, wsUnit, wsDisk, wsCut>>
        /\ wsPc = "format" /\ wsDisk \in {"ours", "foreign"}
    BY <1>8 DEF ensureBtrfsOnPartition
  <2>2. \/ wsPc' = "fail" /\ UNCHANGED <<wsVhdx, wsForeign, wsLost>>
        \/ wsPc' = "unit" /\ UNCHANGED <<wsVhdx, wsForeign, wsLost>> /\ FSOf(wsDisk) = "btrfs"
        \/ /\ wsPc' = "unit" /\ FSOf(wsDisk) # "btrfs"
           /\ wsVhdx' = IF wsDisk = "ours" THEN formatted ELSE wsVhdx
           /\ wsForeign' = IF wsDisk = "foreign" THEN "btrfs" ELSE wsForeign
           /\ wsLost' = (wsLost \/ (wsDisk = "ours" /\ wsVhdx.data /\ ~wsOpt.reinit))
    BY <1>8 DEF ensureBtrfsOnPartition, mayFormat
  <2>3. CASE UNCHANGED <<wsVhdx, wsForeign, wsLost>>
    BY <2>1, <2>2, <2>3
  <2>4. CASE wsPc' = "unit" /\ FSOf(wsDisk) # "btrfs" /\ wsDisk = "ours" /\ wsVhdx' = formatted
    <3>1. /\ formatted \in [there : BOOLEAN, part : BOOLEAN, fs : {"raw", "btrfs"}, data : BOOLEAN]
          /\ formatted.fs = "btrfs" /\ formatted.there /\ ~formatted.data
      BY <2>1
    <3>2. wsForeign' = wsForeign /\ ~wsLost'
      BY <2>1, <2>2, <2>4
    <3>3. QED BY <2>1, <2>4, <3>1, <3>2
  <2>5. CASE wsPc' = "unit" /\ FSOf(wsDisk) # "btrfs" /\ wsDisk = "foreign" /\ wsVhdx' = wsVhdx
    BY <2>1, <2>2, <2>5
  <2>6. QED BY <2>1, <2>2, <2>3, <2>4, <2>5
<1>9. CASE installSystemdMountUnit
  BY <1>9 DEF installSystemdMountUnit
<1>10. CASE ensureSystemdMountUnitActive
  BY <1>10 DEF ensureSystemdMountUnitActive
<1>11. CASE CommitConfig
  BY <1>11 DEF CommitConfig
<1>12. CASE wslUnavailable \/ WslCommandFails \/ WslInitEnds
  BY <1>12 DEF wslUnavailable, WslCommandFails, WslInitEnds
<1>13. CASE ensureWSLStoreMount
  BY <1>13 DEF ensureWSLStoreMount
<1>14. CASE ensureWSLMount
  BY <1>14 DEF ensureWSLMount
<1>15. CASE WslEngineStops \/ ShutdownWsl
  BY <1>15 DEF WslEngineStops, ShutdownWsl
<1>16. CASE UNCHANGED wslVars
  BY <1>16 DEF wslVars
<1>17. QED
  BY <1>1, <1>2, <1>3, <1>4, <1>5, <1>6, <1>7, <1>8, <1>9, <1>10, <1>11, <1>12, <1>13, <1>14,
     <1>15, <1>16 DEF WslNext, WslOver

(* An engine inside WSL serves on btrfs only, config.yaml selects WSL only *)
(* when it is backed, and no data is lost without --reinit (init_wsl.go,   *)
(* ensureWSLStoreMount, ensureWSLMount), over any runs and shutdowns.      *)
THEOREM WslStoreKept == Spec => []WslStoreSafe
<1>1. WslInv => WslStoreSafe
  BY DEF WslInv
<1>2. QED BY <1>1, StoresInit, StoresStep, WslInvInit, WslInvStep, PTL DEF Spec

-----------------------------------------------------------------------------
(* AuthSession.  The key of the installation, where a session of LoginOIDC *)
(* is kept; a process holds a new token until it is stored.                 *)
Inst == <<"installation">>
HoldsNew(p) == asPc[p] \in {"storeLogin", "storeRefresh"}
Known == asGrants \cup asLost \cup asRevoked
NextGrant(g) == [g EXCEPT !.gen = @ + 1]

AuthTyped ==
  /\ asStore \in [Keys -> Sessions \cup {NoSession}]
  /\ asCopy \in [AuthClis -> Sessions \cup {NoSession}]
  /\ asKey \in [AuthClis -> Keys]
  /\ asPc = [p \in AuthClis |-> asPc[p]]
  /\ asMode \in {"remoteSession", "oidcSession"} /\ asEndpoint \in {"control", "org"}
  /\ asLogins \in Nat
  /\ asGrants \subseteq [sub : Users, nonce : Nat, gen : Nat]

(* A login and the end of a migration have switched the profile to the     *)
(* installation; once it is, or is about to be, a session nobody gave up   *)
(* is under the key of the installation.                                   *)
ReachInv ==
  /\ \A p \in AuthClis :
       /\ asPc[p] \in {"storeLogin", "reconcile", "erase"} => asMode = "remoteSession"
       /\ asPc[p] \in {"storeLogin", "refresh", "storeRefresh", "revoke", "copy", "verify"} =>
            asCopy[p] # NoSession
       /\ asPc[p] = "commit" /\ asHeld => asStore[Inst] # NoSession
  /\ asMode = "remoteSession" /\ asHeld => asStore[Inst] # NoSession

(* Where the sessions of LoginOIDC are: under the key of the installation, *)
(* never in the hands of a migration, and not of a login to come.          *)
PlaceInv ==
  /\ \A k \in Keys : asStore[k] # NoSession =>
       /\ asStore[k].nonce <= asLogins
       /\ k # Inst => asStore[k].nonce = 0
  /\ \A p \in AuthClis : asCopy[p] # NoSession =>
       /\ asCopy[p].nonce <= asLogins
       /\ asCopy[p].nonce > 0 => asKey[p] = Inst
       /\ asPc[p] \in {"copy", "verify"} => asCopy[p].nonce = 0
  /\ \A g \in asGrants : g.nonce <= asLogins

(* The provider honours one token of a login, and it is the newest.        *)
Newest ==
  /\ \A g, h \in asGrants : g.nonce = h.nonce /\ g.nonce > 0 => g = h
  /\ \A g \in asGrants : g.nonce > 0 =>
       /\ asStore[Inst] # NoSession /\ asStore[Inst].nonce = g.nonce => asStore[Inst].grant.gen <= g.gen
       /\ \A p \in AuthClis :
            asCopy[p] # NoSession /\ asCopy[p].nonce = g.nonce => asCopy[p].grant.gen <= g.gen

(* A token that was just issued is known to the provider, and, when tokens *)
(* are replaced, to nobody but the process it was issued to.               *)
FreshInv ==
  \A p \in AuthClis : HoldsNew(p) /\ asCopy[p].nonce > 0 =>
    /\ asCopy[p].grant \in Known
    /\ asRotates =>
         /\ asStore[Inst] # NoSession => asStore[Inst].grant # asCopy[p].grant
         /\ \A q \in AuthClis : q # p /\ asCopy[q] # NoSession => asCopy[q].grant # asCopy[p].grant

(* The stored token is known, or a process holds the one that replaces it. *)
BackedInv ==
  asStore[Inst] # NoSession /\ asStore[Inst].nonce > 0 =>
    \/ asStore[Inst].grant \in Known
    \/ asRotates /\ \E q \in AuthClis :
         asPc[q] = "storeRefresh" /\ asCopy[q].grant = NextGrant(asStore[Inst].grant)

TokenInv == PlaceInv /\ Newest /\ FreshInv /\ BackedInv
AuthInv == AuthTyped /\ SessionBound /\ ReachInv /\ SessionReachable /\ TokenInv

(* The key of the profile is that of the installation exactly in the mode  *)
(* remoteSession (stableName).                                             *)
LEMMA KeyFacts ==
  ASSUME AuthTyped
  PROVE  /\ Inst \in Keys /\ <<"legacy", "control">> \in Keys /\ <<"legacy", "control">> # Inst
         /\ ProfileKey \in Keys
         /\ asMode = "remoteSession" => ProfileKey = Inst
         /\ asMode = "oidcSession" => ProfileKey # Inst
BY DEF AuthTyped, Inst, Keys, ProfileKey, stableName

(* No session, or the legacy one.                                          *)
LEMMA AuthInvInit == AuthInit => AuthInv
<1> SUFFICES ASSUME AuthInit PROVE AuthInv
  OBVIOUS
<1>1. /\ asPc = [p \in AuthClis |-> "idle"] /\ asKey = [p \in AuthClis |-> Inst]
      /\ asCopy = [p \in AuthClis |-> NoSession] /\ asLogins = 0 /\ asEndpoint = "control"
  BY DEF AuthInit, Inst
<1>2. CASE asMode = "remoteSession" /\ ~asHeld /\ asGrants = {} /\ asStore = [k \in Keys |-> NoSession]
  <2>1. AuthTyped
    BY <1>1, <1>2 DEF AuthTyped, Keys, Inst
  <2>2. SessionBound /\ ReachInv /\ SessionReachable
    BY <1>1, <1>2 DEF SessionBound, ReachInv, SessionReachable
  <2>3. TokenInv
    BY <1>1, <1>2, <2>1, KeyFacts DEF TokenInv, PlaceInv, Newest, FreshInv, BackedInv, HoldsNew
  <2>4. QED BY <2>1, <2>2, <2>3 DEF AuthInv
<1>3. ASSUME NEW u \in Users, asMode = "oidcSession", asGrants = {Grant(u, 0, 0)},
             asStore = [k \in Keys |-> IF k = <<"legacy", "control">>
                                         THEN Session(u, 0, Grant(u, 0, 0), FALSE) ELSE NoSession]
      PROVE  AuthInv
  <2> DEFINE s == Session(u, 0, Grant(u, 0, 0), FALSE)
  <2>1. /\ s \in Sessions /\ s.nonce = 0 /\ s.id = s.sub /\ s.grant.sub = s.sub /\ s.grant.nonce = s.nonce
        /\ Grant(u, 0, 0) \in [sub : Users, nonce : Nat, gen : Nat] /\ Grant(u, 0, 0).nonce = 0
    <3>1. Grant(u, 0, 0) \in [sub : Users, nonce : Nat, gen : Nat] /\ Grant(u, 0, 0).nonce = 0 /\ Grant(u, 0, 0).sub = u
      BY DEF Grant
    <3>2. s.nonce = 0 /\ s.id = s.sub /\ s.sub = u /\ s.grant = Grant(u, 0, 0)
      BY DEF Session
    <3> DEFINE g == Grant(u, 0, 0)
    <3> HIDE DEF g
    <3>3. FALSE \in BOOLEAN /\ 0 \in Nat
      OBVIOUS
    <3>4. [sub |-> u, nonce |-> 0, grant |-> g, id |-> u, fresh |-> FALSE] \in Sessions
      BY <3>1, <3>3, Zenon DEF Sessions, g
    <3>5. QED BY <3>1, <3>2, <3>4 DEF Session, g
  <2> HIDE DEF s
  <2>2. AuthTyped
    BY <1>1, <1>3, <2>1 DEF AuthTyped, Keys, Inst, s
  <2>3. /\ asStore[Inst] = NoSession /\ ProfileKey = <<"legacy", "control">>
        /\ \A k \in Keys : asStore[k] # NoSession => asStore[k] = s
    BY <1>1, <1>3, <2>2, KeyFacts DEF s, ProfileKey, stableName
  <2>4. asStore[ProfileKey] = s /\ s # NoSession
    BY <1>3, <2>1, <2>2, <2>3, KeyFacts, AuthAssumption DEF s
  <2>5. SessionBound /\ ReachInv /\ SessionReachable
    BY <1>1, <1>3, <2>1, <2>3, <2>4 DEF SessionBound, ReachInv, SessionReachable
  <2>6. TokenInv
    <3>1. \A k \in Keys : asStore[k] # NoSession => asStore[k].nonce = 0
      BY <2>1, <2>3
    <3>2. \A g \in asGrants : g.nonce = 0
      BY <1>3, <2>1
    <3>3. PlaceInv
      BY <1>1, <3>1, <3>2 DEF PlaceInv
    <3>4. Newest /\ FreshInv /\ BackedInv
      BY <1>1, <2>3, <3>2 DEF Newest, FreshInv, BackedInv, HoldsNew
    <3>5. QED BY <3>3, <3>4 DEF TokenInv
  <2>7. QED BY <2>2, <2>5, <2>6 DEF AuthInv
<1>4. QED BY <1>2, <1>3 DEF AuthInit

(* How the steps move a process p, the others staying where they are.      *)
Moves(p, l, c, k) ==
  /\ asPc' = [asPc EXCEPT ![p] = l] /\ asCopy' = [asCopy EXCEPT ![p] = c] /\ asKey' = [asKey EXCEPT ![p] = k]

(* What a refresh puts into the session: the same login, a later token.    *)
LEMMA RefreshedSession ==
  ASSUME NEW s \in Sessions, NEW g \in [sub : Users, nonce : Nat, gen : Nat],
         g.sub = s.grant.sub, g.nonce = s.grant.nonce,
         s.id = s.sub, s.grant.sub = s.sub, s.grant.nonce = s.nonce
  PROVE  LET t == [s EXCEPT !.grant = g, !.id = s.sub, !.fresh = TRUE] IN
         /\ t \in Sessions /\ t.nonce = s.nonce /\ t.sub = s.sub /\ t.id = t.sub /\ t.grant = g
<1> DEFINE t == [s EXCEPT !.grant = g, !.id = s.sub, !.fresh = TRUE]
<1>1. t.nonce = s.nonce /\ t.sub = s.sub /\ t.id = t.sub /\ t.grant = g
  BY DEF Sessions
<1>2. t \in Sessions
  BY DEF Sessions
<1>3. QED BY <1>1, <1>2

(* The replacement of a token.                                             *)
LEMMA NextGrantIs ==
  ASSUME NEW g \in [sub : Users, nonce : Nat, gen : Nat]
  PROVE  /\ NextGrant(g) \in [sub : Users, nonce : Nat, gen : Nat]
         /\ NextGrant(g).sub = g.sub /\ NextGrant(g).nonce = g.nonce /\ NextGrant(g).gen = g.gen + 1
         /\ [NextGrant(g) EXCEPT !.gen = @ - 1] = g
<1>1. /\ NextGrant(g) \in [sub : Users, nonce : Nat, gen : Nat]
      /\ NextGrant(g).sub = g.sub /\ NextGrant(g).nonce = g.nonce /\ NextGrant(g).gen = g.gen + 1
  BY DEF NextGrant
<1>2. NextGrant(g).gen - 1 = g.gen
  BY <1>1
<1> DEFINE h == NextGrant(g)
<1> HIDE DEF h
<1>3. [h EXCEPT !.gen = h.gen - 1] = g
  <2>1. [h EXCEPT !.gen = h.gen - 1] = [h EXCEPT !.gen = g.gen]
    BY <1>2 DEF h
  <2>2. [h EXCEPT !.gen = g.gen] = g
    BY <1>1 DEF h
  <2>3. QED BY <2>1, <2>2
<1>4. QED BY <1>1, <1>3 DEF h

(* What SessionBound says of one session.                                  *)
Sound(s) ==
  s = NoSession \/ (s \in Sessions /\ s.id = s.sub /\ s.grant.sub = s.sub /\ s.grant.nonce = s.nonce)

(* SessionBound, session by session.                                       *)
LEMMA SoundIs ==
  ASSUME AuthTyped
  PROVE  SessionBound <=> (\A k \in Keys : Sound(asStore[k])) /\ (\A p \in AuthClis : Sound(asCopy[p]))
<1>1. /\ \A k \in Keys : asStore[k] \in Sessions \cup {NoSession}
      /\ \A p \in AuthClis : asCopy[p] \in Sessions \cup {NoSession}
  BY DEF AuthTyped
<1>2. QED BY <1>1 DEF SessionBound, Sound

(* The same after a step.                                                  *)
LEMMA SoundIsNext ==
  ASSUME AuthTyped'
  PROVE  SessionBound' <=> (\A k \in Keys : Sound(asStore'[k])) /\ (\A p \in AuthClis : Sound(asCopy'[p]))
<1>1. /\ \A k \in Keys : asStore'[k] \in Sessions \cup {NoSession}
      /\ \A p \in AuthClis : asCopy'[p] \in Sessions \cup {NoSession}
  BY DEF AuthTyped
<1>2. QED BY <1>1 DEF SessionBound, Sound

(* A step that gives process p a sound session, and stores at most a sound *)
(* one, keeps types and SessionBound.                                      *)
SoundStep(p) ==
  /\ \E l : asPc' = [asPc EXCEPT ![p] = l]
  /\ \E c : Sound(c) /\ asCopy' = [asCopy EXCEPT ![p] = c]
  /\ \E k \in Keys : asKey' = [asKey EXCEPT ![p] = k]
  /\ asStore' = asStore \/ \E k \in Keys : \E d : Sound(d) /\ asStore' = [asStore EXCEPT ![k] = d]
  /\ asMode' \in {"remoteSession", "oidcSession"} /\ asEndpoint' \in {"control", "org"}
  /\ asLogins' \in Nat /\ asGrants' \subseteq [sub : Users, nonce : Nat, gen : Nat]

(* Types and soundness after such a step.                                  *)
LEMMA SoundStepKeeps ==
  ASSUME NEW p \in AuthClis, AuthTyped, SessionBound, SoundStep(p)
  PROVE  AuthTyped' /\ SessionBound'
<1>1. (\A k \in Keys : Sound(asStore[k])) /\ (\A q \in AuthClis : Sound(asCopy[q]))
  BY SoundIs
<1>2. /\ asCopy' \in [AuthClis -> Sessions \cup {NoSession}]
      /\ \A q \in AuthClis : Sound(asCopy'[q])
  <2>1. PICK c : Sound(c) /\ asCopy' = [asCopy EXCEPT ![p] = c]
    BY DEF SoundStep
  <2>2. c \in Sessions \cup {NoSession}
    BY <2>1 DEF Sound
  <2>3. QED BY <1>1, <2>1, <2>2 DEF AuthTyped
<1>3. /\ asStore' \in [Keys -> Sessions \cup {NoSession}]
      /\ \A k \in Keys : Sound(asStore'[k])
  <2>1. CASE asStore' = asStore
    BY <1>1, <2>1 DEF AuthTyped
  <2>2. CASE asStore' # asStore
    <3>1. PICK k \in Keys : \E d : Sound(d) /\ asStore' = [asStore EXCEPT ![k] = d]
      BY <2>2 DEF SoundStep
    <3>2. PICK d : Sound(d) /\ asStore' = [asStore EXCEPT ![k] = d]
      BY <3>1
    <3>3. d \in Sessions \cup {NoSession}
      BY <3>2 DEF Sound
    <3>4. QED BY <1>1, <3>2, <3>3 DEF AuthTyped
  <2>3. QED BY <2>1, <2>2
<1>4. AuthTyped'
  BY <1>2, <1>3 DEF SoundStep, AuthTyped
<1>5. QED BY <1>2, <1>3, <1>4, SoundIsNext

(* The moves of a process, with the key it works under.                    *)
LEMMA GoAuthMoves ==
  ASSUME NEW p \in AuthClis, NEW l, NEW c, AuthTyped, GoAuth(p, l, c)
  PROVE  /\ asPc' = [asPc EXCEPT ![p] = l] /\ asCopy' = [asCopy EXCEPT ![p] = c]
         /\ \E k \in Keys : /\ asKey' = [asKey EXCEPT ![p] = k]
                            /\ asPc[p] = "idle" => k = ProfileKey
                            /\ asPc[p] # "idle" => k = asKey[p]
BY KeyFacts DEF GoAuth, AuthTyped

(* The end of a command.                                                   *)
LEMMA EndAuthMoves ==
  ASSUME NEW p \in AuthClis, AuthTyped, EndAuth(p)
  PROVE  /\ asPc' = [asPc EXCEPT ![p] = "idle"] /\ asCopy' = [asCopy EXCEPT ![p] = NoSession]
         /\ \E k \in Keys : asKey' = [asKey EXCEPT ![p] = k]
BY KeyFacts DEF EndAuth, Inst

(* A login: a new session of its own subject.                              *)
LEMMA LoginSession ==
  ASSUME NEW u \in Users, NEW n \in Nat
  PROVE  LET g == Grant(u, n, 0) s == Session(u, n, g, TRUE) IN
         /\ g \in [sub : Users, nonce : Nat, gen : Nat] /\ g.nonce = n /\ g.gen = 0
         /\ s \in Sessions /\ s.nonce = n /\ s.grant = g /\ Sound(s)
<1> DEFINE g == Grant(u, n, 0)
<1> DEFINE s == Session(u, n, g, TRUE)
<1>1. g \in [sub : Users, nonce : Nat, gen : Nat] /\ g.nonce = n /\ g.sub = u /\ g.gen = 0
  BY DEF Grant
<1> HIDE DEF g
<1>2. s.nonce = n /\ s.id = s.sub /\ s.sub = u /\ s.grant = g
  BY DEF Session
<1>3. TRUE \in BOOLEAN
  OBVIOUS
<1>4. [sub |-> u, nonce |-> n, grant |-> g, id |-> u, fresh |-> TRUE] \in Sessions
  BY <1>1, <1>3, Zenon DEF Sessions
<1>5. s \in Sessions
  BY <1>4 DEF Session
<1>6. QED BY <1>1, <1>2, <1>5 DEF Sound, g

(* A refresh that the provider answers: p goes on with a session of the    *)
(* same login and the token that replaces its own, or gives up.            *)
Refreshed(p, g) == [asCopy[p] EXCEPT !.grant = g, !.id = asCopy[p].sub, !.fresh = TRUE]

(* RefreshSession, with and without replacement of the token.              *)
LEMMA RefreshMoves ==
  ASSUME NEW p \in AuthClis, AuthTyped, SessionBound, RefreshSession(p), asCopy[p] # NoSession
  PROVE  \E g \in [sub : Users, nonce : Nat, gen : Nat] :
           /\ asCopy[p].grant \in asGrants
           /\ asRotates => g = NextGrant(asCopy[p].grant)
           /\ ~asRotates => g = asCopy[p].grant
           /\ g.nonce = asCopy[p].grant.nonce
           /\ asGrants' = (asGrants \ {asCopy[p].grant}) \cup {g}
           /\ Sound(Refreshed(p, g)) /\ Refreshed(p, g) # NoSession
           /\ Refreshed(p, g).nonce = asCopy[p].nonce /\ Refreshed(p, g).grant = g
           /\ \/ GoAuth(p, "storeRefresh", Refreshed(p, g)) /\ asLost' = asLost
              \/ EndAuth(p) /\ asLost' = IF asRotates THEN asLost \cup {asCopy[p].grant} ELSE asLost
<1> DEFINE s == asCopy[p]
<1> DEFINE g == IF asRotates THEN [s.grant EXCEPT !.gen = @ + 1] ELSE s.grant
<1>1. s \in Sessions /\ Sound(s)
  BY SoundIs DEF AuthTyped
<1>2. s.grant \in [sub : Users, nonce : Nat, gen : Nat]
  BY <1>1 DEF Sessions
<1>3. /\ s.grant \in asGrants /\ asGrants' = (asGrants \ {s.grant}) \cup {g}
      /\ \E u \in Users :
           IF u = s.sub
             THEN GoAuth(p, "storeRefresh", [s EXCEPT !.grant = g, !.id = u, !.fresh = TRUE]) /\ UNCHANGED asLost
             ELSE EndAuth(p) /\ asLost' = IF asRotates THEN asLost \cup {s.grant} ELSE asLost
  BY DEF RefreshSession
<1>4. /\ asRotates => g = NextGrant(s.grant)
      /\ ~asRotates => g = s.grant
  BY DEF NextGrant
<1>5. g \in [sub : Users, nonce : Nat, gen : Nat] /\ g.sub = s.grant.sub /\ g.nonce = s.grant.nonce
  BY <1>2, <1>4, NextGrantIs
<1> HIDE DEF g
<1>6. /\ Refreshed(p, g) \in Sessions /\ Refreshed(p, g).nonce = s.nonce /\ Refreshed(p, g).grant = g
      /\ Sound(Refreshed(p, g)) /\ Refreshed(p, g) # NoSession
  <2>1. s.id = s.sub /\ s.grant.sub = s.sub /\ s.grant.nonce = s.nonce
    BY <1>1 DEF Sound
  <2>2. LET t == Refreshed(p, g) IN
        t \in Sessions /\ t.nonce = s.nonce /\ t.sub = s.sub /\ t.id = t.sub /\ t.grant = g
    BY <1>1, <1>5, <2>1, RefreshedSession DEF Refreshed
  <2>3. QED BY <1>5, <2>1, <2>2, AuthAssumption DEF Sound
<1>7. \/ GoAuth(p, "storeRefresh", Refreshed(p, g)) /\ asLost' = asLost
      \/ EndAuth(p) /\ asLost' = IF asRotates THEN asLost \cup {s.grant} ELSE asLost
  BY <1>3 DEF Refreshed
<1>8. QED BY <1>3, <1>4, <1>5, <1>6, <1>7

(* Types and SessionBound are kept by every step.                          *)
LEMMA AuthSoundStep == AuthTyped /\ SessionBound /\ ReachInv /\ [AuthNext]_authVars => AuthTyped' /\ SessionBound'
<1> SUFFICES ASSUME AuthTyped, SessionBound, ReachInv, [AuthNext]_authVars PROVE AuthTyped' /\ SessionBound'
  OBVIOUS
<1> USE DEF asProfile, asProvider, asHistory, asTokens
<1>a. /\ \A k \in Keys : Sound(asStore[k])
      /\ \A p \in AuthClis : Sound(asCopy[p]) /\ asKey[p] \in Keys
      /\ Sound(NoSession) /\ Inst \in Keys /\ <<"legacy", "control">> \in Keys /\ ProfileKey \in Keys
      /\ asMode \in {"remoteSession", "oidcSession"} /\ asEndpoint \in {"control", "org"}
      /\ asLogins \in Nat /\ asGrants \subseteq [sub : Users, nonce : Nat, gen : Nat]
  <2>1. (\A k \in Keys : Sound(asStore[k])) /\ (\A p \in AuthClis : Sound(asCopy[p]))
    BY SoundIs
  <2>2. Sound(NoSession)
    BY DEF Sound
  <2>3. QED BY <2>1, <2>2, KeyFacts DEF AuthTyped
<1>1. ASSUME NEW p \in AuthClis, NEW u \in Users, LoginOIDC(p, u) PROVE SoundStep(p)
  <2> DEFINE n == asLogins + 1
  <2> DEFINE g == Grant(u, n, 0)
  <2>1. n \in Nat
    BY <1>a
  <2>2. /\ GoAuth(p, "storeLogin", Session(u, n, g, TRUE)) /\ asLogins' = n /\ asGrants' = asGrants \cup {g}
        /\ UNCHANGED <<asStore, asMode, asEndpoint>>
    BY <1>1 DEF LoginOIDC
  <2> HIDE DEF n
  <2>3. g \in [sub : Users, nonce : Nat, gen : Nat] /\ Sound(Session(u, n, g, TRUE))
    BY <2>1, LoginSession
  <2> HIDE DEF g
  <2> DEFINE s == Session(u, n, g, TRUE)
  <2> HIDE DEF s
  <2>4. GoAuth(p, "storeLogin", s) /\ Sound(s)
    BY <2>2, <2>3 DEF s
  <2>5. /\ asPc' = [asPc EXCEPT ![p] = "storeLogin"] /\ asCopy' = [asCopy EXCEPT ![p] = s]
        /\ \E k \in Keys : asKey' = [asKey EXCEPT ![p] = k]
    BY <2>4, GoAuthMoves
  <2>6. asGrants' \subseteq [sub : Users, nonce : Nat, gen : Nat] /\ asLogins' \in Nat
    BY <1>a, <2>1, <2>2, <2>3
  <2>7. QED BY <1>a, <2>2, <2>4, <2>5, <2>6 DEF SoundStep
<1>2. ASSUME NEW p \in AuthClis, StoreLogin(p) PROVE SoundStep(p)
  <2>1. asStore' = [asStore EXCEPT ![Inst] = asCopy[p]]
    BY <1>2 DEF StoreLogin, Inst
  <2>2. QED BY <1>a, <1>2, <2>1, GoAuthMoves DEF SoundStep, StoreLogin
<1>3. ASSUME NEW p \in AuthClis, reconcileLoginEndpoint(p) PROVE SoundStep(p)
  BY <1>a, <1>3, EndAuthMoves DEF SoundStep, reconcileLoginEndpoint
<1>4. ASSUME NEW p \in AuthClis, ReadSession(p) PROVE SoundStep(p)
  BY <1>a, <1>4, GoAuthMoves DEF SoundStep, ReadSession
<1>5. ASSUME NEW p \in AuthClis, RefreshSession(p) PROVE SoundStep(p)
  <2>1. asCopy[p] # NoSession /\ UNCHANGED <<asStore, asMode, asEndpoint, asLogins>>
    BY <1>5 DEF RefreshSession, ReachInv
  <2>2. PICK g \in [sub : Users, nonce : Nat, gen : Nat] :
          /\ asGrants' = (asGrants \ {asCopy[p].grant}) \cup {g} /\ Sound(Refreshed(p, g))
          /\ GoAuth(p, "storeRefresh", Refreshed(p, g)) \/ EndAuth(p)
    BY <1>5, <2>1, RefreshMoves
  <2>3. asGrants' \subseteq [sub : Users, nonce : Nat, gen : Nat]
    BY <1>a, <2>2
  <2>4. CASE GoAuth(p, "storeRefresh", Refreshed(p, g))
    BY <1>a, <2>1, <2>2, <2>3, <2>4, GoAuthMoves DEF SoundStep
  <2>5. CASE EndAuth(p)
    BY <1>a, <2>1, <2>3, <2>5, EndAuthMoves DEF SoundStep
  <2>6. QED BY <2>2, <2>4, <2>5
<1>6. ASSUME NEW p \in AuthClis, RefreshFails(p) \/ StoreRefreshFails(p) PROVE SoundStep(p)
  BY <1>a, <1>6, EndAuthMoves DEF SoundStep, RefreshFails, StoreRefreshFails
<1>7. ASSUME NEW p \in AuthClis, StoreRefresh(p) PROVE SoundStep(p)
  BY <1>a, <1>7, EndAuthMoves DEF SoundStep, StoreRefresh
<1>8. ASSUME NEW p \in AuthClis, BeginLogout(p) PROVE SoundStep(p)
  BY <1>a, <1>8, GoAuthMoves DEF SoundStep, BeginLogout
<1>9. ASSUME NEW p \in AuthClis, Revoke(p) PROVE SoundStep(p)
  <2>1. asGrants' \subseteq asGrants /\ GoAuth(p, "forget", NoSession) /\ UNCHANGED <<asStore, asMode, asEndpoint, asLogins>>
    BY <1>9 DEF Revoke
  <2>2. QED BY <1>a, <2>1, GoAuthMoves DEF SoundStep
<1>10. ASSUME NEW p \in AuthClis, Forget(p) PROVE SoundStep(p)
  BY <1>a, <1>10, EndAuthMoves DEF SoundStep, Forget
<1>11. ASSUME NEW p \in AuthClis, BeginMigration(p) PROVE SoundStep(p)
  BY <1>a, <1>11, GoAuthMoves DEF SoundStep, BeginMigration
<1>12. ASSUME NEW p \in AuthClis, CopyCredential(p) PROVE SoundStep(p)
  <2>1. asStore' = [asStore EXCEPT ![Inst] = asCopy[p]]
    BY <1>12 DEF CopyCredential, Inst
  <2>2. QED BY <1>a, <1>12, <2>1, GoAuthMoves DEF SoundStep, CopyCredential
<1>13. ASSUME NEW p \in AuthClis, VerifyCredential(p) PROVE SoundStep(p)
  BY <1>a, <1>13, GoAuthMoves, EndAuthMoves DEF SoundStep, VerifyCredential
<1>14. ASSUME NEW p \in AuthClis, CommitProfile(p) PROVE SoundStep(p)
  BY <1>a, <1>14, GoAuthMoves, EndAuthMoves DEF SoundStep, CommitProfile
<1>15. ASSUME NEW p \in AuthClis, EraseLegacy(p) PROVE SoundStep(p)
  BY <1>a, <1>15, EndAuthMoves DEF SoundStep, EraseLegacy
<1>16. ASSUME NEW p \in AuthClis, AuthFails(p) PROVE SoundStep(p)
  BY <1>a, <1>16, EndAuthMoves DEF SoundStep, AuthFails
<1>17. CASE ExpireTokens
  <2>1. /\ asStore' = [k \in Keys |-> IF asStore[k] = NoSession THEN NoSession ELSE [asStore[k] EXCEPT !.fresh = FALSE]]
        /\ UNCHANGED <<asMode, asEndpoint, asGrants, asLogins, asPc, asCopy, asKey>>
    BY <1>17 DEF ExpireTokens
  <2>2. ASSUME NEW s \in Sessions, Sound(s) PROVE Sound([s EXCEPT !.fresh = FALSE]) /\ [s EXCEPT !.fresh = FALSE] \in Sessions
    <3> DEFINE t == [s EXCEPT !.fresh = FALSE]
    <3>1. t.sub = s.sub /\ t.id = s.id /\ t.nonce = s.nonce /\ t.grant = s.grant
      BY DEF Sessions
    <3>2. t \in Sessions
      BY DEF Sessions
    <3>3. QED BY <2>2, <3>1, <3>2, AuthAssumption DEF Sound
  <2>3. \A k \in Keys : Sound(asStore'[k]) /\ asStore'[k] \in Sessions \cup {NoSession}
    BY <1>a, <2>1, <2>2 DEF AuthTyped
  <2>4. asStore' \in [Keys -> Sessions \cup {NoSession}]
    BY <2>1, <2>3
  <2>5. AuthTyped'
    BY <2>1, <2>4 DEF AuthTyped
  <2>6. QED BY <1>a, <2>1, <2>3, <2>5, SoundIsNext
<1>18. CASE UNCHANGED authVars
  <2>1. AuthTyped'
    BY <1>18 DEF authVars, AuthTyped
  <2>2. QED BY <1>a, <1>18, <2>1, SoundIsNext DEF authVars
<1>19. QED
  BY <1>1, <1>2, <1>3, <1>4, <1>5, <1>6, <1>7, <1>8, <1>9, <1>10, <1>11, <1>12, <1>13, <1>14,
     <1>15, <1>16, <1>17, <1>18, SoundStepKeeps DEF AuthNext, UseSession

(* A session nobody gave up stays where the profile looks for it.          *)
LEMMA AuthReachStep ==
  AuthTyped /\ ReachInv /\ SessionReachable /\ SessionBound /\ [AuthNext]_authVars => ReachInv' /\ SessionReachable'
<1> SUFFICES ASSUME AuthTyped, ReachInv, SessionReachable, SessionBound, [AuthNext]_authVars
             PROVE  ReachInv' /\ SessionReachable'
  OBVIOUS
<1> DEFINE Legacy == <<"legacy", "control">>
<1>k. /\ Inst \in Keys /\ Legacy \in Keys /\ Legacy # Inst /\ ProfileKey \in Keys
      /\ asMode = "remoteSession" => ProfileKey = Inst
      /\ asMode = "oidcSession" => ProfileKey # Inst
      /\ asMode \in {"remoteSession", "oidcSession"}
  BY KeyFacts DEF AuthTyped
<1>s. /\ asMode' = "remoteSession" => ProfileKey' = Inst
      /\ asMode' = asMode /\ asEndpoint' = asEndpoint => ProfileKey' = ProfileKey
  BY DEF ProfileKey, stableName, Inst
<1> HIDE DEF Legacy
<1> USE DEF asProfile, asProvider, asHistory, asTokens
<1>t. /\ asPc = [p \in AuthClis |-> asPc[p]] /\ asStore = [k \in Keys |-> asStore[k]]
      /\ asCopy = [p \in AuthClis |-> asCopy[p]]
  BY DEF AuthTyped
<1>1. ASSUME NEW p \in AuthClis, NEW u \in Users, LoginOIDC(p, u) PROVE ReachInv' /\ SessionReachable'
  <2> DEFINE s == Session(u, asLogins + 1, Grant(u, asLogins + 1, 0), TRUE)
  <2>1. asLogins + 1 \in Nat
    BY DEF AuthTyped
  <2>2. s # NoSession
    BY <2>1, LoginSession, AuthAssumption
  <2>3. /\ asPc' = [asPc EXCEPT ![p] = "storeLogin"] /\ asCopy' = [asCopy EXCEPT ![p] = s]
        /\ asMode = "remoteSession" /\ UNCHANGED <<asStore, asMode, asEndpoint, asHeld>>
    BY <1>1 DEF LoginOIDC, GoAuth
  <2> HIDE DEF s
  <2>4. QED BY <1>k, <1>s, <1>t, <2>2, <2>3 DEF ReachInv, SessionReachable
<1>2. ASSUME NEW p \in AuthClis, StoreLogin(p) PROVE ReachInv' /\ SessionReachable'
  <2>1. /\ asPc' = [asPc EXCEPT ![p] = "reconcile"] /\ asCopy' = [asCopy EXCEPT ![p] = NoSession]
        /\ asStore' = [asStore EXCEPT ![Inst] = asCopy[p]] /\ asMode = "remoteSession" /\ asMode' = asMode
        /\ asCopy[p] # NoSession
    BY <1>2 DEF StoreLogin, GoAuth, Inst, ReachInv
  <2>2. QED BY <1>k, <1>s, <1>t, <2>1 DEF ReachInv, SessionReachable
<1>3. ASSUME NEW p \in AuthClis, reconcileLoginEndpoint(p) PROVE ReachInv' /\ SessionReachable'
  <2>1. /\ asPc' = [asPc EXCEPT ![p] = "idle"] /\ asCopy' = [asCopy EXCEPT ![p] = NoSession]
        /\ UNCHANGED <<asStore, asMode, asHeld>> /\ asMode = "remoteSession"
    BY <1>3 DEF reconcileLoginEndpoint, EndAuth, ReachInv
  <2>2. QED BY <1>k, <1>s, <1>t, <2>1 DEF ReachInv, SessionReachable
<1>4. ASSUME NEW p \in AuthClis, ReadSession(p) PROVE ReachInv' /\ SessionReachable'
  <2>1. /\ asPc' = [asPc EXCEPT ![p] = "refresh"] /\ asCopy' = [asCopy EXCEPT ![p] = asStore[ProfileKey]]
        /\ UNCHANGED <<asStore, asMode, asEndpoint, asHeld>> /\ asStore[ProfileKey] # NoSession
    BY <1>4 DEF ReadSession, GoAuth
  <2>2. QED BY <1>k, <1>s, <1>t, <2>1 DEF ReachInv, SessionReachable
<1>5. ASSUME NEW p \in AuthClis, RefreshSession(p) PROVE ReachInv' /\ SessionReachable'
  <2>1. asCopy[p] # NoSession /\ UNCHANGED <<asStore, asMode, asEndpoint, asHeld>>
    BY <1>5 DEF RefreshSession, ReachInv
  <2>2. PICK g : /\ Refreshed(p, g) # NoSession
                 /\ GoAuth(p, "storeRefresh", Refreshed(p, g)) \/ EndAuth(p)
    BY <1>5, <2>1, RefreshMoves
  <2>3. \/ /\ asPc' = [asPc EXCEPT ![p] = "storeRefresh"] /\ asCopy' = [asCopy EXCEPT ![p] = Refreshed(p, g)]
        \/ /\ asPc' = [asPc EXCEPT ![p] = "idle"] /\ asCopy' = [asCopy EXCEPT ![p] = NoSession]
    BY <2>2 DEF GoAuth, EndAuth
  <2>4. QED BY <1>k, <1>s, <1>t, <2>1, <2>2, <2>3 DEF ReachInv, SessionReachable
<1>6. ASSUME NEW p \in AuthClis, RefreshFails(p) \/ StoreRefreshFails(p) \/ AuthFails(p)
      PROVE  ReachInv' /\ SessionReachable'
  <2>1. /\ asPc' = [asPc EXCEPT ![p] = "idle"] /\ asCopy' = [asCopy EXCEPT ![p] = NoSession]
        /\ UNCHANGED <<asStore, asMode, asEndpoint, asHeld>>
    BY <1>6 DEF RefreshFails, StoreRefreshFails, AuthFails, EndAuth
  <2>2. QED BY <1>k, <1>s, <1>t, <2>1 DEF ReachInv, SessionReachable
<1>7. ASSUME NEW p \in AuthClis, StoreRefresh(p) PROVE ReachInv' /\ SessionReachable'
  <2>1. /\ asPc' = [asPc EXCEPT ![p] = "idle"] /\ asCopy' = [asCopy EXCEPT ![p] = NoSession]
        /\ asStore' = [asStore EXCEPT ![asKey[p]] = asCopy[p]] /\ asCopy[p] # NoSession
        /\ UNCHANGED <<asMode, asEndpoint, asHeld>>
    BY <1>7 DEF StoreRefresh, EndAuth, ReachInv
  <2>2. QED BY <1>k, <1>s, <1>t, <2>1 DEF ReachInv, SessionReachable
<1>8. ASSUME NEW p \in AuthClis, BeginLogout(p) PROVE ReachInv' /\ SessionReachable'
  <2>1. /\ asPc' = [asPc EXCEPT ![p] = "revoke"] /\ asCopy' = [asCopy EXCEPT ![p] = asStore[ProfileKey]]
        /\ UNCHANGED <<asStore, asMode, asEndpoint>> /\ asStore[ProfileKey] # NoSession /\ ~asHeld'
    BY <1>8 DEF BeginLogout, GoAuth
  <2>2. QED BY <1>k, <1>s, <1>t, <2>1 DEF ReachInv, SessionReachable
<1>9. ASSUME NEW p \in AuthClis, Revoke(p) PROVE ReachInv' /\ SessionReachable'
  <2>1. /\ asPc' = [asPc EXCEPT ![p] = "forget"] /\ asCopy' = [asCopy EXCEPT ![p] = NoSession]
        /\ UNCHANGED <<asStore, asMode, asEndpoint, asHeld>>
    BY <1>9 DEF Revoke, GoAuth
  <2>2. QED BY <1>k, <1>s, <1>t, <2>1 DEF ReachInv, SessionReachable
<1>10. ASSUME NEW p \in AuthClis, Forget(p) PROVE ReachInv' /\ SessionReachable'
  <2>1. /\ asPc' = [asPc EXCEPT ![p] = "idle"] /\ asCopy' = [asCopy EXCEPT ![p] = NoSession]
        /\ UNCHANGED asMode /\ ~asHeld'
    BY <1>10 DEF Forget, EndAuth
  <2>2. QED BY <1>t, <2>1 DEF ReachInv, SessionReachable
<1>11. ASSUME NEW p \in AuthClis, BeginMigration(p) PROVE ReachInv' /\ SessionReachable'
  <2>1. /\ UNCHANGED <<asStore, asMode, asEndpoint>>
        /\ \/ /\ asPc' = [asPc EXCEPT ![p] = "commit"] /\ asHeld' = asHeld /\ asStore[Inst] # NoSession
              /\ asCopy' = [asCopy EXCEPT ![p] = NoSession]
           \/ /\ asPc' = [asPc EXCEPT ![p] = "commit"] /\ ~asHeld'
              /\ asCopy' = [asCopy EXCEPT ![p] = NoSession]
           \/ /\ asPc' = [asPc EXCEPT ![p] = "copy"] /\ asHeld' = asHeld /\ asStore[ProfileKey] # NoSession
              /\ asCopy' = [asCopy EXCEPT ![p] = asStore[ProfileKey]]
    BY <1>11 DEF BeginMigration, GoAuth, Inst
  <2>2. QED BY <1>k, <1>s, <1>t, <2>1 DEF ReachInv, SessionReachable
<1>12. ASSUME NEW p \in AuthClis, CopyCredential(p) PROVE ReachInv' /\ SessionReachable'
  <2>1. /\ asPc' = [asPc EXCEPT ![p] = "verify"] /\ asCopy' = [asCopy EXCEPT ![p] = asCopy[p]]
        /\ asStore' = [asStore EXCEPT ![Inst] = asCopy[p]] /\ asCopy[p] # NoSession
        /\ UNCHANGED <<asMode, asEndpoint, asHeld>>
    BY <1>12 DEF CopyCredential, GoAuth, Inst, ReachInv
  <2>2. QED BY <1>k, <1>s, <1>t, <2>1 DEF ReachInv, SessionReachable
<1>13. ASSUME NEW p \in AuthClis, VerifyCredential(p) PROVE ReachInv' /\ SessionReachable'
  <2>1. /\ UNCHANGED <<asStore, asMode, asEndpoint, asHeld>> /\ asCopy[p] # NoSession
        /\ \/ /\ asPc' = [asPc EXCEPT ![p] = "commit"] /\ asStore[Inst] = asCopy[p]
              /\ asCopy' = [asCopy EXCEPT ![p] = asCopy[p]]
           \/ asPc' = [asPc EXCEPT ![p] = "idle"] /\ asCopy' = [asCopy EXCEPT ![p] = NoSession]
    BY <1>13 DEF VerifyCredential, GoAuth, EndAuth, Inst, ReachInv
  <2>2. QED BY <1>k, <1>s, <1>t, <2>1 DEF ReachInv, SessionReachable
<1>14. ASSUME NEW p \in AuthClis, CommitProfile(p) PROVE ReachInv' /\ SessionReachable'
  <2>1. /\ asMode' = "remoteSession" /\ asPc[p] = "commit" /\ UNCHANGED <<asStore, asHeld>>
        /\ asPc' = [asPc EXCEPT ![p] = "erase"] \/ asPc' = [asPc EXCEPT ![p] = "idle"]
        /\ asCopy' = [asCopy EXCEPT ![p] = NoSession]
    BY <1>14 DEF CommitProfile, GoAuth, EndAuth
  <2>2. QED BY <1>k, <1>s, <1>t, <2>1 DEF ReachInv, SessionReachable
<1>15. ASSUME NEW p \in AuthClis, EraseLegacy(p) PROVE ReachInv' /\ SessionReachable'
  <2>1. /\ asPc' = [asPc EXCEPT ![p] = "idle"] /\ asCopy' = [asCopy EXCEPT ![p] = NoSession]
        /\ asStore' = [asStore EXCEPT ![Legacy] = NoSession] /\ asMode = "remoteSession"
        /\ UNCHANGED <<asMode, asHeld>>
    BY <1>15 DEF EraseLegacy, EndAuth, Legacy, ReachInv
  <2>2. QED BY <1>k, <1>s, <1>t, <2>1 DEF ReachInv, SessionReachable
<1>16. CASE ExpireTokens
  <2>1. ASSUME NEW s \in Sessions PROVE [s EXCEPT !.fresh = FALSE] # NoSession
    <3>1. [s EXCEPT !.fresh = FALSE] \in Sessions
      BY DEF Sessions
    <3>2. QED BY <3>1, AuthAssumption
  <2>2. /\ \A k \in Keys : asStore[k] # NoSession => asStore'[k] # NoSession
        /\ UNCHANGED <<asMode, asEndpoint, asHeld, asPc, asCopy>>
    BY <1>16, <2>1 DEF ExpireTokens, AuthTyped
  <2>3. QED BY <1>k, <1>s, <2>2 DEF ReachInv, SessionReachable
<1>17. CASE UNCHANGED authVars
  BY <1>17 DEF authVars, ReachInv, SessionReachable, ProfileKey
<1>18. QED
  BY <1>1, <1>2, <1>3, <1>4, <1>5, <1>6, <1>7, <1>8, <1>9, <1>10, <1>11, <1>12, <1>13, <1>14,
     <1>15, <1>16, <1>17 DEF AuthNext, UseSession

(* What the types and SessionBound say of every session, in numbers.       *)
LEMMA SessionFacts ==
  ASSUME AuthTyped, SessionBound
  PROVE  /\ \A k \in Keys : asStore[k] # NoSession =>
              /\ asStore[k].nonce \in Nat /\ asStore[k].grant \in [sub : Users, nonce : Nat, gen : Nat]
              /\ asStore[k].grant.nonce = asStore[k].nonce
         /\ \A p \in AuthClis : asCopy[p] # NoSession =>
              /\ asCopy[p].nonce \in Nat /\ asCopy[p].grant \in [sub : Users, nonce : Nat, gen : Nat]
              /\ asCopy[p].grant.nonce = asCopy[p].nonce
<1>1. \A s : Sound(s) /\ s # NoSession =>
        s.nonce \in Nat /\ s.grant \in [sub : Users, nonce : Nat, gen : Nat] /\ s.grant.nonce = s.nonce
  BY DEF Sound, Sessions
<1>2. QED BY <1>1, SoundIs

(* A step that issues and stores no token: a stored session is kept, loses *)
(* its freshness or is removed; a process that moves reads a session under *)
(* its key, keeps or drops the one it has, and was not about to store one. *)
SameLogin(s, t) == t # NoSession /\ s # NoSession /\ t.nonce = s.nonce /\ t.grant = s.grant

StaysPut(q) == asPc'[q] = asPc[q] /\ asCopy'[q] = asCopy[q] /\ asKey'[q] = asKey[q]

Reads(q) ==
  /\ asPc[q] # "storeRefresh" /\ asPc'[q] \notin {"storeLogin", "storeRefresh"}
  /\ \/ asCopy'[q] = NoSession
     \/ asCopy'[q] = asCopy[q] /\ asKey'[q] = asKey[q]
     \/ asKey'[q] \in Keys /\ asCopy'[q] = asStore[asKey'[q]]
  /\ asPc'[q] \in {"copy", "verify"} /\ asCopy'[q] # NoSession => asCopy'[q].nonce = 0

QuietStep ==
  /\ \A k \in Keys : asStore'[k] = NoSession \/ SameLogin(asStore[k], asStore'[k])
  /\ \A q \in AuthClis : StaysPut(q) \/ Reads(q)
  /\ asGrants' \subseteq asGrants /\ Known \subseteq Known'
  /\ asLogins' = asLogins /\ (asRotates' <=> asRotates)

(* Such a step keeps what is known of the tokens.                          *)
LEMMA QuietKeeps ==
  ASSUME AuthTyped, SessionBound, ReachInv, TokenInv, QuietStep
  PROVE  TokenInv'
<1>k. Inst \in Keys
  BY KeyFacts
<1>1. PlaceInv'
  <2>1. ASSUME NEW k \in Keys, asStore'[k] # NoSession
        PROVE  asStore'[k].nonce <= asLogins' /\ (k # Inst => asStore'[k].nonce = 0)
    BY <2>1 DEF QuietStep, SameLogin, TokenInv, PlaceInv
  <2>2. ASSUME NEW q \in AuthClis, asCopy'[q] # NoSession
        PROVE  /\ asCopy'[q].nonce <= asLogins'
               /\ asCopy'[q].nonce > 0 => asKey'[q] = Inst
               /\ asPc'[q] \in {"copy", "verify"} => asCopy'[q].nonce = 0
    <3>1. CASE StaysPut(q)
      BY <2>2, <3>1 DEF QuietStep, StaysPut, TokenInv, PlaceInv
    <3>2. CASE Reads(q) /\ asCopy'[q] = asCopy[q] /\ asKey'[q] = asKey[q]
      BY <2>2, <3>2 DEF QuietStep, Reads, TokenInv, PlaceInv
    <3>3. CASE Reads(q) /\ asKey'[q] \in Keys /\ asCopy'[q] = asStore[asKey'[q]]
      BY <2>2, <3>3 DEF QuietStep, Reads, TokenInv, PlaceInv
    <3>4. QED BY <2>2, <3>1, <3>2, <3>3 DEF QuietStep, Reads
  <2>3. \A g \in asGrants' : g.nonce <= asLogins'
    BY DEF QuietStep, TokenInv, PlaceInv
  <2>4. QED BY <2>1, <2>2, <2>3 DEF PlaceInv
<1>2. ASSUME NEW q \in AuthClis, asCopy'[q] # NoSession
      PROVE  \/ asCopy[q] # NoSession /\ asCopy'[q] = asCopy[q]
             \/ ~HoldsNew(q)' /\ \E k \in Keys : asStore[k] # NoSession /\ asCopy'[q] = asStore[k]
  BY <1>2 DEF QuietStep, StaysPut, Reads, HoldsNew
<1>3. \A k \in Keys, g \in asGrants : asStore[k] # NoSession /\ asStore[k].nonce = g.nonce /\ g.nonce > 0 => k = Inst
  BY DEF TokenInv, PlaceInv
<1>4. Newest'
  <2>1. \A g, h \in asGrants' : g.nonce = h.nonce /\ g.nonce > 0 => g = h
    BY DEF QuietStep, TokenInv, Newest
  <2>2. ASSUME NEW g \in asGrants', g.nonce > 0, asStore'[Inst] # NoSession, asStore'[Inst].nonce = g.nonce
        PROVE  asStore'[Inst].grant.gen <= g.gen
    BY <1>k, <2>2 DEF QuietStep, SameLogin, TokenInv, Newest
  <2>3. ASSUME NEW g \in asGrants', g.nonce > 0, NEW q \in AuthClis, asCopy'[q] # NoSession,
               asCopy'[q].nonce = g.nonce
        PROVE  asCopy'[q].grant.gen <= g.gen
    <3>1. g \in asGrants
      BY DEF QuietStep
    <3>2. QED BY <1>2, <1>3, <2>3, <3>1 DEF TokenInv, Newest
  <2>4. QED BY <2>1, <2>2, <2>3 DEF Newest
<1>5. ASSUME NEW p \in AuthClis, HoldsNew(p)', asCopy'[p].nonce > 0
      PROVE  /\ HoldsNew(p) /\ asCopy'[p] = asCopy[p] /\ asCopy[p] # NoSession /\ asCopy[p].grant \in Known'
             /\ asRotates => \A k \in Keys : asStore[k] # NoSession => asStore[k].grant # asCopy[p].grant
             /\ asRotates => \A q \in AuthClis : q # p /\ asCopy[q] # NoSession => asCopy[q].grant # asCopy[p].grant
  <2>1. HoldsNew(p) /\ asCopy'[p] = asCopy[p] /\ asCopy[p] # NoSession
    BY <1>5 DEF QuietStep, StaysPut, Reads, HoldsNew, ReachInv
  <2>2. asCopy[p].grant \in Known'
    BY <1>5, <2>1 DEF QuietStep, TokenInv, FreshInv
  <2>3. asRotates => \A q \in AuthClis : q # p /\ asCopy[q] # NoSession => asCopy[q].grant # asCopy[p].grant
    BY <1>5, <2>1 DEF TokenInv, FreshInv
  <2>4. ASSUME asRotates, NEW k \in Keys, asStore[k] # NoSession PROVE asStore[k].grant # asCopy[p].grant
    <3>1. CASE k = Inst
      BY <1>5, <2>1, <2>4, <3>1 DEF TokenInv, FreshInv
    <3>2. CASE k # Inst
      <4>1. asStore[k].grant.nonce = 0
        BY <2>4, <3>2, SessionFacts DEF TokenInv, PlaceInv
      <4>2. asCopy[p].grant.nonce > 0
        BY <1>5, <2>1, SessionFacts
      <4>3. QED BY <4>1, <4>2
    <3>3. QED BY <3>1, <3>2
  <2>5. QED BY <2>1, <2>2, <2>3, <2>4
<1>6. FreshInv'
  <2>1. ASSUME NEW p \in AuthClis, HoldsNew(p)', asCopy'[p].nonce > 0, asRotates,
               asStore'[Inst] # NoSession
        PROVE  asStore'[Inst].grant # asCopy'[p].grant
    BY <1>k, <1>5, <2>1 DEF QuietStep, SameLogin
  <2>2. ASSUME NEW p \in AuthClis, HoldsNew(p)', asCopy'[p].nonce > 0, asRotates,
               NEW q \in AuthClis, q # p, asCopy'[q] # NoSession
        PROVE  asCopy'[q].grant # asCopy'[p].grant
    BY <1>2, <1>5, <2>2
  <2>3. asRotates' <=> asRotates
    BY DEF QuietStep
  <2>4. QED BY <1>5, <2>1, <2>2, <2>3 DEF FreshInv
<1>7. BackedInv'
  <2> SUFFICES ASSUME asStore'[Inst] # NoSession, asStore'[Inst].nonce > 0
               PROVE  \/ asStore'[Inst].grant \in Known'
                      \/ asRotates' /\ \E q \in AuthClis :
                           asPc'[q] = "storeRefresh" /\ asCopy'[q].grant = NextGrant(asStore'[Inst].grant)
    BY DEF BackedInv
  <2>1. asStore[Inst] # NoSession /\ asStore[Inst].nonce > 0 /\ asStore'[Inst].grant = asStore[Inst].grant
    BY <1>k DEF QuietStep, SameLogin
  <2>2. CASE asStore[Inst].grant \in Known
    BY <2>1, <2>2 DEF QuietStep
  <2>3. CASE asStore[Inst].grant \notin Known
    <3>1. asRotates
      BY <2>1, <2>3 DEF TokenInv, BackedInv
    <3>2. PICK q \in AuthClis : asPc[q] = "storeRefresh" /\ asCopy[q].grant = NextGrant(asStore[Inst].grant)
      BY <2>1, <2>3 DEF TokenInv, BackedInv
    <3>3. asPc'[q] = asPc[q] /\ asCopy'[q] = asCopy[q]
      BY <3>2 DEF QuietStep, StaysPut, Reads
    <3>4. QED BY <2>1, <3>1, <3>2, <3>3 DEF QuietStep
  <2>4. QED BY <2>2, <2>3
<1>8. QED BY <1>1, <1>4, <1>6, <1>7 DEF TokenInv

(* A process stores the session it holds: a new one, or that of a          *)
(* migration, which no LoginOIDC made.                                     *)
LEMMA StoringKeeps ==
  ASSUME AuthTyped, SessionBound, ReachInv, TokenInv,
         NEW p \in AuthClis, NEW k \in Keys, NEW l, NEW c, NEW j,
         asCopy[p] # NoSession, asCopy[p].nonce > 0 => k = Inst /\ HoldsNew(p),
         asStore' = [asStore EXCEPT ![k] = asCopy[p]],
         asPc' = [asPc EXCEPT ![p] = l], asCopy' = [asCopy EXCEPT ![p] = c], asKey' = [asKey EXCEPT ![p] = j],
         l \notin {"storeLogin", "storeRefresh"},
         c = NoSession \/ (c = asCopy[p] /\ asCopy[p].nonce = 0),
         UNCHANGED <<asGrants, asLost, asRevoked, asLogins, asRotates>>
  PROVE  TokenInv'
<1>k. Inst \in Keys /\ asCopy[p].nonce \in Nat
  BY KeyFacts, SessionFacts
<1>t. /\ asPc = [q \in AuthClis |-> asPc[q]] /\ asStore = [i \in Keys |-> asStore[i]]
      /\ asCopy = [q \in AuthClis |-> asCopy[q]] /\ asKey = [q \in AuthClis |-> asKey[q]]
  BY DEF AuthTyped
<1>1. /\ asStore'[Inst] = asStore[Inst] \/ asStore'[Inst] = asCopy[p]
      /\ asCopy'[p] = NoSession \/ (asCopy'[p] = asCopy[p] /\ asCopy[p].nonce = 0)
      /\ \A q \in AuthClis : q # p => asCopy'[q] = asCopy[q] /\ asPc'[q] = asPc[q] /\ asKey'[q] = asKey[q]
      /\ asPc'[p] = l /\ Known' = Known
  BY <1>k, <1>t DEF Known
<1>2. PlaceInv'
  <2>1. ASSUME NEW i \in Keys, asStore'[i] # NoSession
        PROVE  asStore'[i].nonce <= asLogins /\ (i # Inst => asStore'[i].nonce = 0)
    BY <1>k, <1>t, <2>1 DEF TokenInv, PlaceInv
  <2>2. ASSUME NEW q \in AuthClis, asCopy'[q] # NoSession
        PROVE  /\ asCopy'[q].nonce <= asLogins
               /\ asCopy'[q].nonce > 0 => asKey'[q] = Inst
               /\ asPc'[q] \in {"copy", "verify"} => asCopy'[q].nonce = 0
    BY <1>1, <2>2 DEF TokenInv, PlaceInv
  <2>3. QED BY <2>1, <2>2 DEF TokenInv, PlaceInv
<1>3. Newest'
  BY <1>1 DEF TokenInv, Newest
<1>4. FreshInv'
  <2>1. ASSUME NEW q \in AuthClis, HoldsNew(q)', asCopy'[q].nonce > 0
        PROVE  q # p /\ HoldsNew(q) /\ asCopy'[q] = asCopy[q] /\ asCopy[q].grant \in Known
    BY <1>1, <2>1 DEF HoldsNew, TokenInv, FreshInv
  <2>2. ASSUME NEW q \in AuthClis, HoldsNew(q)', asCopy'[q].nonce > 0, asRotates
        PROVE  /\ asStore'[Inst] # NoSession => asStore'[Inst].grant # asCopy'[q].grant
               /\ \A r \in AuthClis : r # q /\ asCopy'[r] # NoSession => asCopy'[r].grant # asCopy'[q].grant
    BY <1>1, <2>1, <2>2 DEF TokenInv, FreshInv
  <2>3. QED BY <1>1, <2>1, <2>2 DEF FreshInv
<1>5. BackedInv'
  <2>1. CASE k = Inst
    <3>1. asStore'[Inst] = asCopy[p]
      BY <1>k, <1>t, <2>1
    <3>2. asCopy[p].nonce > 0 => asCopy[p].grant \in Known
      BY DEF TokenInv, FreshInv
    <3>3. QED BY <1>1, <3>1, <3>2 DEF BackedInv
  <2>2. CASE k # Inst
    <3>1. asStore'[Inst] = asStore[Inst] /\ asCopy[p].nonce = 0
      BY <1>k, <1>t, <2>2
    <3>2. ASSUME NEW q \in AuthClis, asStore[Inst] # NoSession, asStore[Inst].nonce > 0,
                 asCopy[q].grant = NextGrant(asStore[Inst].grant)
          PROVE  q # p
      <4>1. asStore[Inst].grant \in [sub : Users, nonce : Nat, gen : Nat] /\ asStore[Inst].grant.nonce > 0
        BY <1>k, <3>2, SessionFacts
      <4>2. NextGrant(asStore[Inst].grant).nonce > 0
        BY <4>1, NextGrantIs
      <4>3. asCopy[p].grant.nonce = 0
        BY <3>1, SessionFacts
      <4>4. QED BY <3>2, <4>2, <4>3
    <3>3. QED BY <1>1, <3>1, <3>2 DEF TokenInv, BackedInv
  <2>3. QED BY <2>1, <2>2
<1>6. QED BY <1>2, <1>3, <1>4, <1>5 DEF TokenInv

(* A login: its token has a nonce that no session and no token had before. *)
LEMMA LoginKeeps ==
  ASSUME AuthTyped, SessionBound, ReachInv, TokenInv, NEW p \in AuthClis, NEW u \in Users, LoginOIDC(p, u)
  PROVE  TokenInv'
<1> DEFINE n == asLogins + 1
<1> DEFINE g == Grant(u, n, 0)
<1> DEFINE s == Session(u, n, g, TRUE)
<1>n. n \in Nat /\ n > 0 /\ asLogins \in Nat /\ asLogins < n
  BY DEF AuthTyped
<1>1. /\ asPc[p] = "idle" /\ asMode = "remoteSession" /\ asGrants' = asGrants \cup {g} /\ asLogins' = n
      /\ GoAuth(p, "storeLogin", s) /\ UNCHANGED <<asStore, asRotates, asLost, asRevoked>>
  BY DEF LoginOIDC, asHistory, asTokens
<1> HIDE DEF n
<1>2. /\ g \in [sub : Users, nonce : Nat, gen : Nat] /\ g.nonce = n /\ g.gen = 0
      /\ s \in Sessions /\ s.nonce = n /\ s.grant = g /\ s # NoSession
  BY <1>n, LoginSession, AuthAssumption
<1> HIDE DEF g, s
<1>3. /\ asPc' = [asPc EXCEPT ![p] = "storeLogin"] /\ asCopy' = [asCopy EXCEPT ![p] = s]
      /\ asKey' = [asKey EXCEPT ![p] = Inst]
  BY <1>1, GoAuthMoves, KeyFacts
<1>4. /\ \A q \in AuthClis : q # p => asCopy'[q] = asCopy[q] /\ asPc'[q] = asPc[q] /\ asKey'[q] = asKey[q]
      /\ asPc'[p] = "storeLogin" /\ asCopy'[p] = s /\ asKey'[p] = Inst
      /\ Known' = Known \cup {g}
  BY <1>1, <1>3 DEF AuthTyped, Known
<1>5. /\ \A k \in Keys : asStore[k] # NoSession => asStore[k].nonce \in Nat /\ asStore[k].nonce < n /\ asStore[k].grant # g
      /\ \A q \in AuthClis : asCopy[q] # NoSession => asCopy[q].nonce \in Nat /\ asCopy[q].nonce < n /\ asCopy[q].grant # g
      /\ \A h \in asGrants : h.nonce \in Nat /\ h.nonce < n
  <2>1. /\ \A k \in Keys : asStore[k] # NoSession => asStore[k].nonce <= asLogins
        /\ \A q \in AuthClis : asCopy[q] # NoSession => asCopy[q].nonce <= asLogins
        /\ \A h \in asGrants : h.nonce \in Nat /\ h.nonce <= asLogins
    BY DEF TokenInv, PlaceInv, AuthTyped
  <2>2. QED BY <1>n, <1>2, <2>1, SessionFacts
<1>k. Inst \in Keys
  BY KeyFacts
<1>6. PlaceInv'
  <2>1. \A k \in Keys : asStore'[k] # NoSession => asStore'[k].nonce <= n /\ (k # Inst => asStore'[k].nonce = 0)
    BY <1>n, <1>1, <1>5 DEF TokenInv, PlaceInv
  <2>2. ASSUME NEW q \in AuthClis, asCopy'[q] # NoSession
        PROVE  /\ asCopy'[q].nonce <= n
               /\ asCopy'[q].nonce > 0 => asKey'[q] = Inst
               /\ asPc'[q] \in {"copy", "verify"} => asCopy'[q].nonce = 0
    <3>1. CASE q = p
      BY <1>n, <1>2, <1>4, <3>1
    <3>2. CASE q # p
      BY <1>n, <1>4, <1>5, <2>2, <3>2 DEF TokenInv, PlaceInv
    <3>3. QED BY <3>1, <3>2
  <2>3. \A h \in asGrants' : h.nonce <= n
    BY <1>n, <1>1, <1>2, <1>5
  <2>4. QED BY <1>1, <2>1, <2>2, <2>3 DEF PlaceInv
<1>7. Newest'
  <2>1. ASSUME NEW h \in asGrants', NEW i \in asGrants', h.nonce = i.nonce, h.nonce > 0 PROVE h = i
    <3>1. CASE h = g \/ i = g
      BY <1>n, <1>1, <1>2, <1>5, <2>1, <3>1
    <3>2. CASE h # g /\ i # g
      BY <1>1, <2>1, <3>2 DEF TokenInv, Newest
    <3>3. QED BY <3>1, <3>2
  <2>2. ASSUME NEW h \in asGrants', h.nonce > 0, asStore'[Inst] # NoSession, asStore'[Inst].nonce = h.nonce
        PROVE  asStore'[Inst].grant.gen <= h.gen
    <3>1. h # g
      BY <1>k, <1>n, <1>1, <1>2, <1>5, <2>2
    <3>2. QED BY <1>1, <2>2, <3>1 DEF TokenInv, Newest
  <2>3. ASSUME NEW h \in asGrants', h.nonce > 0, NEW q \in AuthClis, asCopy'[q] # NoSession,
               asCopy'[q].nonce = h.nonce
        PROVE  asCopy'[q].grant.gen <= h.gen
    <3>1. CASE q = p
      <4>1. h = g
        BY <1>n, <1>1, <1>2, <1>4, <1>5, <2>3, <3>1
      <4>2. QED BY <1>2, <1>4, <3>1, <4>1
    <3>2. CASE q # p
      <4>1. h # g /\ asCopy'[q] = asCopy[q]
        BY <1>n, <1>2, <1>4, <1>5, <2>3, <3>2
      <4>2. QED BY <1>1, <2>3, <4>1 DEF TokenInv, Newest
    <3>3. QED BY <3>1, <3>2
  <2>4. QED BY <2>1, <2>2, <2>3 DEF Newest
<1>8. FreshInv'
  <2>1. ASSUME NEW q \in AuthClis, HoldsNew(q)', asCopy'[q].nonce > 0
        PROVE  /\ asCopy'[q].grant \in Known'
               /\ asRotates /\ asStore'[Inst] # NoSession => asStore'[Inst].grant # asCopy'[q].grant
               /\ asRotates => \A r \in AuthClis :
                                 r # q /\ asCopy'[r] # NoSession => asCopy'[r].grant # asCopy'[q].grant
    <3>1. CASE q = p
      BY <1>k, <1>1, <1>2, <1>4, <1>5, <3>1
    <3>2. CASE q # p
      <4>1. HoldsNew(q) /\ asCopy'[q] = asCopy[q] /\ asCopy[q] # NoSession
        BY <1>4, <2>1, <3>2 DEF HoldsNew, ReachInv
      <4>2. asCopy[q].grant # g /\ asCopy[q].grant \in Known
        BY <1>5, <2>1, <4>1 DEF TokenInv, FreshInv
      <4>3. QED BY <1>1, <1>2, <1>4, <2>1, <4>1, <4>2 DEF TokenInv, FreshInv
    <3>3. QED BY <3>1, <3>2
  <2>2. asRotates' = asRotates
    BY <1>1
  <2>3. QED BY <2>1, <2>2 DEF FreshInv
<1>9. BackedInv'
  <2>1. ASSUME NEW q \in AuthClis, asPc[q] = "storeRefresh" PROVE asPc'[q] = asPc[q] /\ asCopy'[q] = asCopy[q]
    BY <1>1, <1>4, <2>1
  <2>2. asStore' = asStore /\ asRotates' = asRotates /\ Known \subseteq Known'
    BY <1>1, <1>4
  <2>3. QED BY <2>1, <2>2 DEF TokenInv, BackedInv
<1>10. QED BY <1>6, <1>7, <1>8, <1>9 DEF TokenInv

(* A refresh: the token that replaces that of p is newer than all others   *)
(* of the login, and the replaced one is stored at most where p will put   *)
(* the new one, or is counted as lost with it.                             *)
LEMMA RefreshKeeps ==
  ASSUME AuthTyped, SessionBound, ReachInv, TokenInv, NEW p \in AuthClis, RefreshSession(p)
  PROVE  TokenInv'
<1>1. /\ asPc[p] = "refresh" /\ asCopy[p] # NoSession
      /\ UNCHANGED <<asStore, asRotates, asLogins, asRevoked>>
  BY DEF RefreshSession, ReachInv
<1> DEFINE s == asCopy[p]
<1>2. PICK g \in [sub : Users, nonce : Nat, gen : Nat] :
           /\ s.grant \in asGrants
           /\ asRotates => g = NextGrant(s.grant)
           /\ ~asRotates => g = s.grant
           /\ g.nonce = s.grant.nonce
           /\ asGrants' = (asGrants \ {s.grant}) \cup {g}
           /\ Sound(Refreshed(p, g)) /\ Refreshed(p, g) # NoSession
           /\ Refreshed(p, g).nonce = s.nonce /\ Refreshed(p, g).grant = g
           /\ \/ GoAuth(p, "storeRefresh", Refreshed(p, g)) /\ asLost' = asLost
              \/ EndAuth(p) /\ asLost' = IF asRotates THEN asLost \cup {s.grant} ELSE asLost
  BY <1>1, RefreshMoves
<1> DEFINE t == Refreshed(p, g)
<1>k. Inst \in Keys
  BY KeyFacts
<1>n. /\ s.nonce \in Nat /\ s.grant \in [sub : Users, nonce : Nat, gen : Nat] /\ s.grant.nonce = s.nonce
      /\ g.nonce = s.nonce /\ s.grant.gen \in Nat /\ g.gen \in Nat /\ t.nonce = s.nonce /\ t.grant = g
  BY <1>1, <1>2, SessionFacts
<1>g. /\ asRotates => g.gen = s.grant.gen + 1
      /\ s.grant.gen <= g.gen
  BY <1>2, <1>n, NextGrantIs
<1> HIDE DEF t, s
<1>3. /\ \A q \in AuthClis : q # p => asCopy'[q] = asCopy[q] /\ asPc'[q] = asPc[q] /\ asKey'[q] = asKey[q]
      /\ \/ asPc'[p] = "storeRefresh" /\ asCopy'[p] = t /\ asKey'[p] = asKey[p] /\ asLost' = asLost
         \/ /\ asPc'[p] = "idle" /\ asCopy'[p] = NoSession
            /\ asLost' = IF asRotates THEN asLost \cup {s.grant} ELSE asLost
  <2>1. CASE GoAuth(p, "storeRefresh", t) /\ asLost' = asLost
    <3>1. /\ asPc' = [asPc EXCEPT ![p] = "storeRefresh"] /\ asCopy' = [asCopy EXCEPT ![p] = t]
          /\ asKey' = [asKey EXCEPT ![p] = asKey[p]]
      BY <1>1, <2>1, GoAuthMoves
    <3>2. QED BY <2>1, <3>1 DEF AuthTyped
  <2>2. CASE EndAuth(p) /\ asLost' = IF asRotates THEN asLost \cup {s.grant} ELSE asLost
    <3>1. /\ asPc' = [asPc EXCEPT ![p] = "idle"] /\ asCopy' = [asCopy EXCEPT ![p] = NoSession]
          /\ \E k \in Keys : asKey' = [asKey EXCEPT ![p] = k]
      BY <2>2, EndAuthMoves
    <3>2. QED BY <2>2, <3>1 DEF AuthTyped
  <2>3. QED BY <1>2, <2>1, <2>2 DEF t, s
<1>u. \A h \in asGrants' : h.nonce = s.nonce /\ s.nonce > 0 => h = g
  <2>1. ASSUME NEW h \in asGrants', h.nonce = s.nonce, s.nonce > 0, h # g PROVE FALSE
    <3>1. h \in asGrants /\ h # s.grant
      BY <1>2, <2>1 DEF s
    <3>2. s.grant \in asGrants
      BY <1>2 DEF s
    <3>3. QED BY <1>n, <2>1, <3>1, <3>2 DEF TokenInv, Newest
  <2>2. QED BY <2>1
<1>o. \A h \in asGrants' : h = g \/ h \in asGrants
  BY <1>2
<1>l. s.nonce <= asLogins /\ (s.nonce > 0 => asKey[p] = Inst)
  BY <1>1 DEF TokenInv, PlaceInv, s
<1>4. PlaceInv'
  <2>1. ASSUME NEW q \in AuthClis, asCopy'[q] # NoSession
        PROVE  /\ asCopy'[q].nonce <= asLogins
               /\ asCopy'[q].nonce > 0 => asKey'[q] = Inst
               /\ asPc'[q] \in {"copy", "verify"} => asCopy'[q].nonce = 0
    <3>1. CASE q = p
      BY <1>n, <1>l, <1>3, <2>1, <3>1
    <3>2. CASE q # p
      BY <1>3, <2>1, <3>2 DEF TokenInv, PlaceInv
    <3>3. QED BY <3>1, <3>2
  <2>2. \A h \in asGrants' : h.nonce <= asLogins
    BY <1>n, <1>l, <1>o DEF TokenInv, PlaceInv
  <2>3. QED BY <1>1, <2>1, <2>2 DEF TokenInv, PlaceInv
<1>5. \* Every session of the login of s has an older token than g, or g is not a replacement.
      /\ asStore[Inst] # NoSession /\ asStore[Inst].nonce = s.nonce /\ s.nonce > 0 =>
           asStore[Inst].grant.gen <= s.grant.gen /\ asStore[Inst].grant.gen \in Nat
      /\ \A q \in AuthClis : asCopy[q] # NoSession /\ asCopy[q].nonce = s.nonce /\ s.nonce > 0 =>
           asCopy[q].grant.gen <= s.grant.gen /\ asCopy[q].grant.gen \in Nat
  <2>1. s.grant \in asGrants
    BY <1>2 DEF s
  <2>2. QED BY <1>k, <1>n, <2>1, SessionFacts DEF TokenInv, Newest
<1>6. Newest'
  <2>1. ASSUME NEW h \in asGrants', NEW i \in asGrants', h.nonce = i.nonce, h.nonce > 0 PROVE h = i
    <3>1. CASE h.nonce = s.nonce
      BY <1>u, <2>1, <3>1
    <3>2. CASE h.nonce # s.nonce
      BY <1>n, <1>o, <2>1, <3>2 DEF TokenInv, Newest
    <3>3. QED BY <3>1, <3>2
  <2>2. ASSUME NEW h \in asGrants', h.nonce > 0, asStore'[Inst] # NoSession, asStore'[Inst].nonce = h.nonce
        PROVE  asStore'[Inst].grant.gen <= h.gen
    <3>1. CASE h = g
      BY <1>n, <1>g, <1>1, <1>5, <2>2, <3>1
    <3>2. CASE h # g
      BY <1>1, <1>o, <2>2, <3>2 DEF TokenInv, Newest
    <3>3. QED BY <3>1, <3>2
  <2>3. ASSUME NEW h \in asGrants', h.nonce > 0, NEW q \in AuthClis, asCopy'[q] # NoSession,
               asCopy'[q].nonce = h.nonce
        PROVE  asCopy'[q].grant.gen <= h.gen
    <3>1. CASE q = p
      BY <1>n, <1>u, <1>3, <2>3, <3>1
    <3>2. CASE q # p /\ h = g
      BY <1>n, <1>g, <1>3, <1>5, <2>3, <3>2
    <3>3. CASE q # p /\ h # g
      BY <1>3, <1>o, <2>3, <3>3 DEF TokenInv, Newest
    <3>4. QED BY <3>1, <3>2, <3>3
  <2>4. QED BY <2>1, <2>2, <2>3 DEF Newest
<1>7. \* No other session of a login has the replacement.
      asRotates /\ s.nonce > 0 =>
        /\ asStore[Inst] # NoSession => asStore[Inst].grant # g
        /\ \A q \in AuthClis : asCopy[q] # NoSession => asCopy[q].grant # g
  <2>1. ASSUME asRotates, s.nonce > 0, asStore[Inst] # NoSession, asStore[Inst].grant = g PROVE FALSE
    <3>1. asStore[Inst].nonce = s.nonce
      BY <1>k, <1>n, <2>1, SessionFacts
    <3>2. QED BY <1>n, <1>g, <1>5, <2>1, <3>1
  <2>2. ASSUME asRotates, s.nonce > 0, NEW q \in AuthClis, asCopy[q] # NoSession, asCopy[q].grant = g PROVE FALSE
    <3>1. asCopy[q].nonce = s.nonce
      BY <1>n, <2>2, SessionFacts
    <3>2. QED BY <1>n, <1>g, <1>5, <2>2, <3>1
  <2>3. QED BY <2>1, <2>2
<1>8. \* A known token stays known, unless it is the one that was replaced.
      /\ \A h \in Known : h # s.grant \/ ~asRotates => h \in Known'
      /\ g \in Known'
  <2>1. asLost \subseteq asLost' /\ asRevoked' = asRevoked /\ g \in asGrants'
    BY <1>1, <1>2, <1>3
  <2>2. \A h \in asGrants : h # s.grant \/ ~asRotates => h \in asGrants'
    BY <1>2 DEF s
  <2>3. QED BY <2>1, <2>2 DEF Known
<1>9. FreshInv'
  <2>1. ASSUME NEW q \in AuthClis, HoldsNew(q)', asCopy'[q].nonce > 0
        PROVE  /\ asCopy'[q].grant \in Known'
               /\ asRotates /\ asStore'[Inst] # NoSession => asStore'[Inst].grant # asCopy'[q].grant
               /\ asRotates => \A r \in AuthClis :
                                 r # q /\ asCopy'[r] # NoSession => asCopy'[r].grant # asCopy'[q].grant
    <3>1. CASE q = p
      <4>1. asCopy'[p] = t
        BY <1>3, <2>1, <3>1 DEF HoldsNew
      <4>2. t.grant = g /\ s.nonce > 0
        BY <1>n, <2>1, <3>1, <4>1
      <4>3. QED BY <1>1, <1>3, <1>7, <1>8, <3>1, <4>1, <4>2
    <3>2. CASE q # p
      <4>1. HoldsNew(q) /\ asCopy'[q] = asCopy[q] /\ asCopy[q] # NoSession /\ asCopy[q].nonce > 0
        BY <1>3, <2>1, <3>2 DEF HoldsNew, ReachInv
      <4>2. /\ asCopy[q].grant \in Known /\ (asRotates => asCopy[q].grant # s.grant)
            /\ asRotates /\ asStore[Inst] # NoSession => asStore[Inst].grant # asCopy[q].grant
            /\ asRotates => \A r \in AuthClis :
                              r # q /\ asCopy[r] # NoSession => asCopy[r].grant # asCopy[q].grant
        BY <1>1, <3>2, <4>1 DEF TokenInv, FreshInv, s
      <4>3. asRotates => asCopy[q].grant # g
        <5>1. asCopy[q].grant = g => s.nonce > 0
          BY <1>n, <4>1, SessionFacts
        <5>2. QED BY <1>7, <4>1, <5>1
      <4>4. \A r \in AuthClis : r # q /\ asCopy'[r] # NoSession =>
              \/ r = p /\ asCopy'[r].grant = g
              \/ asCopy'[r] = asCopy[r]
        BY <1>n, <1>3
      <4>5. QED BY <1>1, <1>8, <4>1, <4>2, <4>3, <4>4
    <3>3. QED BY <3>1, <3>2
  <2>2. asRotates' = asRotates
    BY <1>1
  <2>3. QED BY <2>1, <2>2 DEF FreshInv
<1>10. BackedInv'
  <2> SUFFICES ASSUME asStore[Inst] # NoSession, asStore[Inst].nonce > 0, asStore[Inst].grant \notin Known'
               PROVE  asRotates /\ \E q \in AuthClis :
                        asPc'[q] = "storeRefresh" /\ asCopy'[q].grant = NextGrant(asStore[Inst].grant)
    BY <1>1 DEF BackedInv
  <2>1. CASE asStore[Inst].grant \in Known
    <3>1. asStore[Inst].grant = s.grant /\ asRotates
      BY <1>8, <2>1
    <3>2. g = NextGrant(s.grant)
      BY <1>2, <3>1 DEF s
    <3>3. asPc'[p] = "storeRefresh" /\ asCopy'[p] = t
      <4>1. asLost' # asLost \cup {s.grant}
        BY <3>1 DEF Known
      <4>2. QED BY <1>3, <3>1, <4>1
    <3>4. QED BY <1>n, <3>1, <3>2, <3>3
  <2>2. CASE asStore[Inst].grant \notin Known
    <3>1. asRotates
      BY <2>2 DEF TokenInv, BackedInv
    <3>2. PICK q \in AuthClis : asPc[q] = "storeRefresh" /\ asCopy[q].grant = NextGrant(asStore[Inst].grant)
      BY <2>2 DEF TokenInv, BackedInv
    <3>3. asPc'[q] = asPc[q] /\ asCopy'[q] = asCopy[q]
      BY <1>1, <1>3, <3>2
    <3>4. QED BY <3>1, <3>2, <3>3
  <2>3. QED BY <2>1, <2>2
<1>11. QED BY <1>4, <1>6, <1>9, <1>10 DEF TokenInv

(* The answer of a refresh is lost: the token it replaced is counted so.   *)
LEMMA LostAnswerKeeps ==
  ASSUME AuthTyped, SessionBound, ReachInv, TokenInv, NEW p \in AuthClis, StoreRefreshFails(p)
  PROVE  TokenInv'
<1>1. /\ asPc[p] = "storeRefresh" /\ EndAuth(p)
      /\ asLost' = asLost \cup {[asCopy[p].grant EXCEPT !.gen = @ - 1]}
      /\ UNCHANGED <<asStore, asGrants, asRotates, asLogins, asRevoked>>
  BY DEF StoreRefreshFails, asProvider
<1>2. /\ \A q \in AuthClis : q # p => asCopy'[q] = asCopy[q] /\ asPc'[q] = asPc[q] /\ asKey'[q] = asKey[q]
      /\ asPc'[p] = "idle" /\ asCopy'[p] = NoSession
  <2>1. /\ asPc' = [asPc EXCEPT ![p] = "idle"] /\ asCopy' = [asCopy EXCEPT ![p] = NoSession]
        /\ \E k \in Keys : asKey' = [asKey EXCEPT ![p] = k]
    BY <1>1, EndAuthMoves
  <2>2. QED BY <2>1 DEF AuthTyped
<1>3. Known \subseteq Known'
  BY <1>1 DEF Known
<1>4. PlaceInv'
  BY <1>1, <1>2 DEF TokenInv, PlaceInv
<1>5. Newest'
  BY <1>1, <1>2 DEF TokenInv, Newest
<1>6. FreshInv'
  <2>1. ASSUME NEW q \in AuthClis, HoldsNew(q)' PROVE q # p /\ HoldsNew(q) /\ asCopy'[q] = asCopy[q]
    BY <1>2, <2>1 DEF HoldsNew
  <2>2. QED BY <1>1, <1>2, <1>3, <2>1 DEF TokenInv, FreshInv
<1>7. BackedInv'
  <2> SUFFICES ASSUME asStore[Inst] # NoSession, asStore[Inst].nonce > 0, asStore[Inst].grant \notin Known'
               PROVE  asRotates /\ \E q \in AuthClis :
                        asPc'[q] = "storeRefresh" /\ asCopy'[q].grant = NextGrant(asStore[Inst].grant)
    BY <1>1 DEF BackedInv
  <2>1. asRotates
    BY <1>3 DEF TokenInv, BackedInv
  <2>2. PICK q \in AuthClis : asPc[q] = "storeRefresh" /\ asCopy[q].grant = NextGrant(asStore[Inst].grant)
    BY <1>3 DEF TokenInv, BackedInv
  <2>3. q # p
    <3>1. asStore[Inst].grant \in [sub : Users, nonce : Nat, gen : Nat]
      BY KeyFacts, SessionFacts
    <3>2. [NextGrant(asStore[Inst].grant) EXCEPT !.gen = @ - 1] = asStore[Inst].grant
      BY <3>1, NextGrantIs
    <3>3. [asCopy[p].grant EXCEPT !.gen = @ - 1] \in Known'
      BY <1>1 DEF Known
    <3>4. QED BY <2>2, <3>2, <3>3
  <2>4. QED BY <1>2, <2>1, <2>2, <2>3
<1>8. QED BY <1>4, <1>5, <1>6, <1>7 DEF TokenInv

(* Every step keeps what is known of the tokens.                           *)
LEMMA AuthTokenStep ==
  AuthTyped /\ SessionBound /\ ReachInv /\ TokenInv /\ [AuthNext]_authVars => TokenInv'
<1> SUFFICES ASSUME AuthTyped, SessionBound, ReachInv, TokenInv, [AuthNext]_authVars PROVE TokenInv'
  OBVIOUS
<1> DEFINE Legacy == <<"legacy", "control">>
<1> USE DEF asProfile, asProvider, asHistory, asTokens
<1>k. /\ Inst \in Keys /\ Legacy \in Keys /\ Legacy # Inst /\ ProfileKey \in Keys
      /\ asMode = "oidcSession" => ProfileKey # Inst
  BY KeyFacts
<1> HIDE DEF Legacy
<1>t. /\ asPc = [q \in AuthClis |-> asPc[q]] /\ asStore = [i \in Keys |-> asStore[i]]
      /\ asCopy = [q \in AuthClis |-> asCopy[q]] /\ asKey = [q \in AuthClis |-> asKey[q]]
  BY DEF AuthTyped
<1>s. \A k \in Keys : asStore[k] = NoSession \/ SameLogin(asStore[k], asStore[k])
  BY DEF SameLogin
<1>q. \* A command that ends, having stored nothing.
      ASSUME NEW p \in AuthClis, asPc[p] # "storeRefresh", EndAuth(p),
             UNCHANGED <<asStore, asGrants, asLost, asRevoked, asLogins, asRotates>>
      PROVE  TokenInv'
  <2>1. /\ asPc' = [asPc EXCEPT ![p] = "idle"] /\ asCopy' = [asCopy EXCEPT ![p] = NoSession]
        /\ \E k \in Keys : asKey' = [asKey EXCEPT ![p] = k]
    BY <1>q, EndAuthMoves
  <2>2. \A q \in AuthClis : StaysPut(q) \/ Reads(q)
    BY <1>q, <1>t, <2>1 DEF StaysPut, Reads
  <2>3. QED BY <1>q, <1>s, <2>2, QuietKeeps DEF QuietStep, Known
<1>r. \* A command that begins, or goes on with what it has.
      ASSUME NEW p \in AuthClis, NEW l, NEW c, GoAuth(p, l, c), asPc[p] # "storeRefresh",
             l \notin {"storeLogin", "storeRefresh"},
             \/ c = NoSession
             \/ asPc[p] # "idle" /\ c = asCopy[p]
             \/ asPc[p] = "idle" /\ c = asStore[ProfileKey],
             l \in {"copy", "verify"} /\ c # NoSession => c.nonce = 0,
             asStore' = asStore, asGrants' \subseteq asGrants, Known \subseteq Known',
             UNCHANGED <<asLogins, asRotates>>
      PROVE  TokenInv'
  <2>1. PICK k \in Keys : /\ asPc' = [asPc EXCEPT ![p] = l] /\ asCopy' = [asCopy EXCEPT ![p] = c]
                          /\ asKey' = [asKey EXCEPT ![p] = k]
                          /\ asPc[p] = "idle" => k = ProfileKey
                          /\ asPc[p] # "idle" => k = asKey[p]
    BY <1>r, GoAuthMoves
  <2>2. /\ \A q \in AuthClis : q # p => StaysPut(q)
        /\ asPc'[p] = l /\ asCopy'[p] = c /\ asKey'[p] = k
    BY <1>t, <2>1 DEF StaysPut
  <2>3. Reads(p)
    BY <1>r, <2>1, <2>2 DEF Reads
  <2>4. QED BY <1>r, <1>s, <2>2, <2>3, QuietKeeps DEF QuietStep
<1>1. ASSUME NEW p \in AuthClis, StoreLogin(p) PROVE TokenInv'
  <2>1. /\ asStore' = [asStore EXCEPT ![Inst] = asCopy[p]] /\ asPc[p] = "storeLogin"
        /\ GoAuth(p, "reconcile", NoSession) /\ asCopy[p] # NoSession
        /\ UNCHANGED <<asGrants, asLost, asRevoked, asLogins, asRotates>>
    BY <1>1 DEF StoreLogin, Inst, ReachInv
  <2>2. PICK k : /\ asPc' = [asPc EXCEPT ![p] = "reconcile"] /\ asCopy' = [asCopy EXCEPT ![p] = NoSession]
                 /\ asKey' = [asKey EXCEPT ![p] = k]
    BY <2>1, GoAuthMoves
  <2>3. QED BY <1>k, <2>1, <2>2, StoringKeeps DEF HoldsNew
<1>2. ASSUME NEW p \in AuthClis, StoreRefresh(p) PROVE TokenInv'
  <2>1. /\ asStore' = [asStore EXCEPT ![asKey[p]] = asCopy[p]] /\ asPc[p] = "storeRefresh"
        /\ EndAuth(p) /\ asCopy[p] # NoSession /\ asKey[p] \in Keys
        /\ UNCHANGED <<asGrants, asLost, asRevoked, asLogins, asRotates>>
    BY <1>2 DEF StoreRefresh, ReachInv, AuthTyped
  <2>2. PICK k : /\ asPc' = [asPc EXCEPT ![p] = "idle"] /\ asCopy' = [asCopy EXCEPT ![p] = NoSession]
                 /\ asKey' = [asKey EXCEPT ![p] = k]
    BY <2>1, EndAuthMoves
  <2>3. asCopy[p].nonce > 0 => asKey[p] = Inst
    BY <2>1 DEF TokenInv, PlaceInv
  <2>4. asCopy[p].nonce > 0 => asKey[p] = Inst /\ HoldsNew(p)
    BY <2>1, <2>3 DEF HoldsNew
  <2> DEFINE i == asKey[p]
  <2>5. /\ i \in Keys /\ asStore' = [asStore EXCEPT ![i] = asCopy[p]]
        /\ asCopy[p].nonce > 0 => i = Inst /\ HoldsNew(p)
    BY <2>1, <2>4
  <2>6. asPc' = [asPc EXCEPT ![p] = "idle"] /\ "idle" \notin {"storeLogin", "storeRefresh"}
    BY <2>2
  <2>7. UNCHANGED <<asGrants, asLost, asRevoked, asLogins, asRotates>> /\ asCopy[p] # NoSession
    BY <2>1
  <2> HIDE DEF i
  <2>8. QED BY <2>2, <2>5, <2>6, <2>7, StoringKeeps, Zenon
<1>3. ASSUME NEW p \in AuthClis, CopyCredential(p) PROVE TokenInv'
  <2>1. /\ asStore' = [asStore EXCEPT ![Inst] = asCopy[p]] /\ asPc[p] = "copy"
        /\ GoAuth(p, "verify", asCopy[p]) /\ asCopy[p] # NoSession
        /\ UNCHANGED <<asGrants, asLost, asRevoked, asLogins, asRotates>>
    BY <1>3 DEF CopyCredential, Inst, ReachInv
  <2>2. PICK k : /\ asPc' = [asPc EXCEPT ![p] = "verify"] /\ asCopy' = [asCopy EXCEPT ![p] = asCopy[p]]
                 /\ asKey' = [asKey EXCEPT ![p] = k]
    BY <2>1, GoAuthMoves
  <2>3. asCopy[p].nonce = 0
    BY <2>1 DEF TokenInv, PlaceInv
  <2>4. asCopy[p].nonce > 0 => Inst = Inst /\ HoldsNew(p)
    BY <2>3
  <2> DEFINE c == asCopy[p]
  <2>5. asCopy' = [asCopy EXCEPT ![p] = c] /\ c = asCopy[p]
    BY <2>2
  <2>6. asPc' = [asPc EXCEPT ![p] = "verify"] /\ "verify" \notin {"storeLogin", "storeRefresh"}
    BY <2>2
  <2>7. UNCHANGED <<asGrants, asLost, asRevoked, asLogins, asRotates>> /\ asCopy[p] # NoSession
    BY <2>1
  <2>8. asStore' = [asStore EXCEPT ![Inst] = asCopy[p]]
    BY <2>1
  <2> HIDE DEF c
  <2>9. QED BY <1>k, <2>2, <2>3, <2>4, <2>5, <2>6, <2>7, <2>8, StoringKeeps, Zenon
<1>4. ASSUME NEW p \in AuthClis, reconcileLoginEndpoint(p) \/ RefreshFails(p) \/ AuthFails(p) PROVE TokenInv'
  BY <1>4, <1>q DEF reconcileLoginEndpoint, RefreshFails, AuthFails
<1>5. ASSUME NEW p \in AuthClis, ReadSession(p) \/ BeginLogout(p) PROVE TokenInv'
  <2>1. \E l \in {"refresh", "revoke"} : GoAuth(p, l, asStore[ProfileKey])
    BY <1>5 DEF ReadSession, BeginLogout
  <2>2. asPc[p] = "idle" /\ UNCHANGED <<asStore, asGrants, asLost, asRevoked, asLogins, asRotates>>
    BY <1>5 DEF ReadSession, BeginLogout
  <2>3. QED BY <1>r, <2>1, <2>2 DEF Known
<1>6. ASSUME NEW p \in AuthClis, Revoke(p) PROVE TokenInv'
  <2>1. /\ asPc[p] = "revoke" /\ GoAuth(p, "forget", NoSession) /\ UNCHANGED <<asStore, asLost, asLogins, asRotates>>
        /\ \/ UNCHANGED <<asGrants, asRevoked>>
           \/ asGrants' = asGrants \ {asCopy[p].grant} /\ asRevoked' = asRevoked \cup {asCopy[p].grant}
    BY <1>6 DEF Revoke
  <2>2. asGrants' \subseteq asGrants /\ Known \subseteq Known'
    BY <2>1 DEF Known
  <2>3. QED BY <1>r, <2>1, <2>2
<1>7. ASSUME NEW p \in AuthClis, BeginMigration(p) PROVE TokenInv'
  <2>1. /\ asPc[p] = "idle" /\ asMode = "oidcSession"
        /\ UNCHANGED <<asStore, asGrants, asLost, asRevoked, asLogins, asRotates>>
        /\ \/ GoAuth(p, "commit", NoSession)
           \/ GoAuth(p, "copy", asStore[ProfileKey])
    BY <1>7 DEF BeginMigration
  <2>2. asStore[ProfileKey] # NoSession => asStore[ProfileKey].nonce = 0
    BY <1>k, <2>1 DEF TokenInv, PlaceInv
  <2>3. QED BY <1>r, <2>1, <2>2 DEF Known
<1>8. ASSUME NEW p \in AuthClis, VerifyCredential(p) PROVE TokenInv'
  <2>1. /\ asPc[p] = "verify" /\ UNCHANGED <<asStore, asGrants, asLost, asRevoked, asLogins, asRotates>>
        /\ GoAuth(p, "commit", asCopy[p]) \/ EndAuth(p)
    BY <1>8 DEF VerifyCredential
  <2>2. QED BY <1>q, <1>r, <2>1 DEF Known
<1>9. ASSUME NEW p \in AuthClis, CommitProfile(p) PROVE TokenInv'
  <2>1. /\ asPc[p] = "commit" /\ UNCHANGED <<asStore, asGrants, asLost, asRevoked, asLogins, asRotates>>
        /\ GoAuth(p, "erase", NoSession) \/ EndAuth(p)
    BY <1>9 DEF CommitProfile
  <2>2. QED BY <1>q, <1>r, <2>1 DEF Known
<1>10. ASSUME NEW p \in AuthClis, Forget(p) \/ EraseLegacy(p) PROVE TokenInv'
  <2>1. /\ asPc[p] # "storeRefresh" /\ EndAuth(p) /\ UNCHANGED <<asGrants, asLost, asRevoked, asLogins, asRotates>>
        /\ \E k : asStore' = [asStore EXCEPT ![k] = NoSession]
    BY <1>10 DEF Forget, EraseLegacy
  <2>2. \A k \in Keys : asStore'[k] = NoSession \/ SameLogin(asStore[k], asStore'[k])
    BY <1>t, <2>1 DEF SameLogin
  <2>3. /\ asPc' = [asPc EXCEPT ![p] = "idle"] /\ asCopy' = [asCopy EXCEPT ![p] = NoSession]
        /\ \E k \in Keys : asKey' = [asKey EXCEPT ![p] = k]
    BY <2>1, EndAuthMoves
  <2>4. \A q \in AuthClis : StaysPut(q) \/ Reads(q)
    BY <1>t, <2>1, <2>3 DEF StaysPut, Reads
  <2>5. QED BY <2>1, <2>2, <2>4, QuietKeeps DEF QuietStep, Known
<1>11. CASE ExpireTokens
  <2>1. /\ asStore' = [k \in Keys |-> IF asStore[k] = NoSession THEN NoSession ELSE [asStore[k] EXCEPT !.fresh = FALSE]]
        /\ UNCHANGED <<asGrants, asLost, asRevoked, asLogins, asRotates, asPc, asCopy, asKey>>
    BY <1>11 DEF ExpireTokens
  <2>2. ASSUME NEW s \in Sessions PROVE SameLogin(s, [s EXCEPT !.fresh = FALSE])
    <3> DEFINE x == [s EXCEPT !.fresh = FALSE]
    <3>1. x.nonce = s.nonce /\ x.grant = s.grant
      BY DEF Sessions
    <3>2. x \in Sessions
      BY DEF Sessions
    <3>3. QED BY <3>1, <3>2, AuthAssumption DEF SameLogin
  <2>3. \A k \in Keys : asStore'[k] = NoSession \/ SameLogin(asStore[k], asStore'[k])
    BY <2>1, <2>2 DEF AuthTyped
  <2>4. QED BY <2>1, <2>3, QuietKeeps DEF QuietStep, StaysPut, Known
<1>12. CASE UNCHANGED authVars
  BY <1>s, <1>12, QuietKeeps DEF authVars, QuietStep, StaysPut, Known
<1>13. QED
  BY <1>1, <1>2, <1>3, <1>4, <1>5, <1>6, <1>7, <1>8, <1>9, <1>10, <1>11, <1>12, LoginKeeps,
     RefreshKeeps, LostAnswerKeeps DEF AuthNext, UseSession

(* The invariant of the sessions is inductive.                             *)
LEMMA AuthInvStep == AuthInv /\ [AuthNext]_authVars => AuthInv'
BY AuthSoundStep, AuthReachStep, AuthTokenStep DEF AuthInv

(* The sessions of the CLI (manager.go of authsession, auth.go): what is   *)
(* stored is one login, is found where the profile looks, and its token is *)
(* honoured, revoked, about to be replaced or lost with its replacement;   *)
(* for any number of processes, users, logins and refreshes.               *)
THEOREM SessionsAreSafe == Spec => []AuthSafe
<1>1. AuthInv => AuthSafe
  <2> SUFFICES ASSUME AuthInv PROVE RotationKept
    BY DEF AuthInv, AuthSafe
  <2> SUFFICES ASSUME asStore[ProfileKey] # NoSession, asStore[ProfileKey].nonce > 0
               PROVE  \/ asStore[ProfileKey].grant \in Known
                      \/ \E p \in AuthClis : asPc[p] = "storeRefresh" /\ asCopy[p].nonce = asStore[ProfileKey].nonce
    BY DEF RotationKept, Known
  <2>1. AuthTyped /\ SessionBound /\ ReachInv /\ PlaceInv /\ BackedInv
    BY DEF AuthInv, TokenInv
  <2>2. ProfileKey = Inst
    BY <2>1, KeyFacts DEF PlaceInv
  <2>3. ASSUME NEW q \in AuthClis, asPc[q] = "storeRefresh", asCopy[q].grant = NextGrant(asStore[Inst].grant)
        PROVE  asCopy[q].nonce = asStore[Inst].nonce
    <3>1. asCopy[q] # NoSession
      BY <2>1, <2>3 DEF ReachInv
    <3>2. /\ asStore[Inst].grant \in [sub : Users, nonce : Nat, gen : Nat]
          /\ asStore[Inst].grant.nonce = asStore[Inst].nonce /\ asCopy[q].grant.nonce = asCopy[q].nonce
      BY <2>1, <2>2, <3>1, KeyFacts, SessionFacts
    <3>3. QED BY <2>3, <3>2, NextGrantIs
  <2>4. QED BY <2>1, <2>2, <2>3 DEF BackedInv
<1>2. QED BY <1>1, StoresInit, StoresStep, AuthInvInit, AuthInvStep, PTL DEF Spec

-----------------------------------------------------------------------------
(* Sessions and the two ways to set up a store: SetupSafe, the invariant   *)
(* of the run, for every value of the constants.                           *)
THEOREM SetupIsSafe == Spec => []SetupSafe
<1>1. AuthSafe /\ LinuxStoreSafe /\ WslStoreSafe => SetupSafe
  BY DEF SetupSafe
<1>2. QED BY <1>1, SessionsAreSafe, LinuxStoreKept, WslStoreKept, PTL

-----------------------------------------------------------------------------
(* Containers.  A container that is being started is there, one that has   *)
(* not been started or has been stopped is not; a managed one that is      *)
(* stopped is in the map by then, and its server is down when it is        *)
(* removed.                                                                *)
ContainerInv ==
  /\ ctPc = [r \in Runtimes |-> ctPc[r]]
  /\ ctServer \subseteq ctLive
  /\ \A r \in Runtimes :
       /\ ctPc[r] \in {"idle", "stopped"} => r \notin ctLive
       /\ ctPc[r] \in {"init", "pgctl", "port"} => r \in ctLive
  /\ \A r \in Runtimes \cap ManagedRuntimes :
       /\ ctPc[r] = "stop" => r \in ctKnown
       /\ ctPc[r] = "rm" => r \notin ctServer
  /\ ManagedStopClean

(* No container is there.                                                  *)
LEMMA ContainerInvInit == ContainersInit => ContainerInv
BY DEF ContainersInit, ContainerInv, ManagedStopClean

(* Starting, stopping, failing and restarting keep it.                     *)
LEMMA ContainerInvStep == ContainerInv /\ [ContainersNext]_containerVars => ContainerInv'
<1> SUFFICES ASSUME ContainerInv, [ContainersNext]_containerVars PROVE ContainerInv'
  OBVIOUS
<1> USE DEF ContainerInv, ManagedStopClean, CtGo, ctWorld
<1>1. ASSUME NEW r \in Runtimes, RunDetached(r) PROVE ContainerInv'
  <2>1. /\ ctPc[r] = "idle" /\ ctServer' = ctServer /\ ctKnown' = ctKnown /\ ctDirty' = ctDirty
        /\ \/ ctLive' = ctLive \cup {r} /\ ctPc' = [ctPc EXCEPT ![r] = "init"]
           \/ ctLive' = ctLive \cup {r} /\ ctPc' = [ctPc EXCEPT ![r] = "failed"]
           \/ ctLive' = ctLive /\ ctPc' = [ctPc EXCEPT ![r] = "failed"]
    BY <1>1 DEF RunDetached
  <2>2. QED BY <2>1
<1>11. ASSUME NEW r \in Runtimes, PrepareData(r) \/ StartPostgres(r) PROVE ContainerInv'
  BY <1>11 DEF PrepareData, StartPostgres, CanRun
<1>2. ASSUME NEW r \in Runtimes, LearnPort(r) \/ StartFails(r) PROVE ContainerInv'
  BY <1>2 DEF LearnPort, StartFails, CanRun
<1>3. ASSUME NEW r \in Runtimes, UndoStart(r) PROVE ContainerInv'
  <2>1. /\ ctPc[r] = "undo" /\ ctPc' = [ctPc EXCEPT ![r] = "failed"]
        /\ \/ ctLive' = ctLive \ {r} /\ ctServer' = ctServer \ {r}
           \/ ctLive' = ctLive /\ ctServer' = ctServer
        /\ ctKnown' = ctKnown /\ ctDirty' = ctDirty
    BY <1>3, Zenon DEF UndoStart
  <2>2. QED BY <2>1
<1>4. ASSUME NEW r \in Runtimes, BeginStop(r) \/ StopFails(r) PROVE ContainerInv'
  BY <1>4 DEF BeginStop, StopFails
<1>5. ASSUME NEW r \in Runtimes, ConfirmContainer(r) \/ InspectManaged(r) PROVE ContainerInv'
  BY <1>5 DEF ConfirmContainer, InspectManaged, CanRun
<1>6. ASSUME NEW r \in Runtimes, StopServer(r) \/ RemoveContainer(r) PROVE ContainerInv'
  BY <1>6 DEF StopServer, RemoveContainer, CanRun
<1>7. ASSUME NEW r \in Runtimes, CancelRuntime(r) \/ ContainerDies(r) PROVE ContainerInv'
  BY <1>7 DEF CancelRuntime, ContainerDies
<1>8. CASE ToggleDaemon
  BY <1>8 DEF ToggleDaemon
<1>9. CASE RestartEngine
  BY <1>9 DEF RestartEngine
<1>10. CASE UNCHANGED containerVars
  BY <1>10 DEF containerVars
<1>12. QED BY <1>1, <1>2, <1>3, <1>4, <1>5, <1>6, <1>7, <1>8, <1>9, <1>10, <1>11 DEF ContainersNext

(* Containers (docker.go, managed.go of runtime): a managed container is   *)
(* removed by a stop only after its server has stopped, and a stop without *)
(* error leaves no container, whatever fails and however often the engine  *)
(* restarts.                                                               *)
THEOREM ContainersAreSafe == Spec => [](ManagedStopClean /\ StoppedIsGone)
<1>1. ContainerInv => ManagedStopClean /\ StoppedIsGone
  BY DEF ContainerInv, StoppedIsGone
<1>2. QED BY <1>1, StoresInit, StoresStep, ContainerInvInit, ContainerInvStep, PTL DEF Spec

-----------------------------------------------------------------------------
(* StateFiles.  Records of a path; the task says whether a row exists and  *)
(* what the runtime is cloned from.                                        *)
Building == {"ensure", "reset", "base", "step", "stop", "snapshot", "resume", "publish", "row"}

Places == {"base", "state", "runtime"}
IsNode(n) == DOMAIN n = {"kind", "data", "pid"} /\ n = [kind |-> n.kind, data |-> n.data, pid |-> n.pid]

NodesTyped == node = [p \in Places |-> node[p]] /\ \A p \in Places : IsNode(node[p])

FilesTyped ==
  /\ NodesTyped
  /\ backend \in {"copy", "overlay", "btrfs"}
  /\ dirt \in Nat

TaskInv ==
  /\ task \in Building => ~row
  /\ task \in Building \ {"ensure", "reset"} => source = "base"
  /\ task = "inspect" => source = "state" /\ (row \/ node["state"] = NoNode)
  /\ task \in {"clear", "clone"} =>
       \/ source = "base" /\ ~row /\ node["base"].kind # "none"
       \/ source = "state" /\ (row \/ node["state"] = NoNode)
  /\ task = "check" =>
       \/ source = "base" /\ ~row /\ node["base"].kind # "none"
       \/ source = "state" /\ row
  /\ backend = "btrfs" =>
       \/ task \notin {"base", "clear", "clone", "check", "step", "stop", "snapshot"}
       \/ source = "state"
       \/ node["state"].kind = "none"

(* The base is as initdb made it unless a removal of it got halfway, and   *)
(* what is cloned from it, or from the state, has that content.  Nothing   *)
(* is left over where nothing is, or in a snapshot made by btrfs.          *)
ContentInv ==
  /\ node["base"].kind \in {"none", "dir", "subvol"} /\ ~node["base"].pid
  /\ node["base"].kind # "none" => node["base"].data # Applied /\ (halved \/ node["base"].data = Fresh)
  /\ node["state"].kind \in {"none", "rosubvol"} => ~leftover
  /\ node["state"].pid => dirt > 0
  /\ ~halved =>
       /\ task = "check" => node["runtime"].data = IF source = "base" THEN Fresh ELSE Applied
       /\ task = "step" => node["runtime"].data = Fresh
       /\ task \in {"stop", "snapshot", "publish", "row", "instance"} => node["runtime"].data = Applied
       /\ task \in {"publish", "row"} => node["state"].data = Applied
  /\ task = "snapshot" => ~server /\ ~node["runtime"].pid
  /\ task \in {"row", "instance"} => server

FilesInv == FilesTyped /\ TaskInv /\ ContentInv /\ PublishedWhole

(* What a removal leaves is a record of a path, and nothing when it        *)
(* succeeds; it never leaves a postmaster.pid or a read-only snapshot that *)
(* was not there.                                                          *)
RemovedOr(n, r) ==
  /\ IsNode(r[1])
  /\ r[2] => r[1] = NoNode
  /\ r[1].pid => n.pid
  /\ r[1].kind = "rosubvol" => r[1] = n

(* A directory some of whose files are gone.                               *)
LEMMA CutIs ==
  ASSUME NEW n, IsNode(n), NEW d \in {Torn, Absent}
  PROVE  /\ IsNode(Cut(n, d)) /\ Cut(n, d).kind = n.kind /\ Cut(n, d).pid = n.pid
         /\ Cut(n, d).data \in {Torn, Absent}
BY DEF Cut, IsNode

(* os.RemoveAll.                                                           *)
LEMMA RemoveAllIs ==
  ASSUME NEW n, IsNode(n), NEW r \in removeAll(n)
  PROVE  RemovedOr(n, r)
<1>1. \/ r = <<NoNode, TRUE>>
      \/ r = <<n, FALSE>>
      \/ r = <<Node("overlay", Absent), FALSE>>
      \/ n.kind # "rosubvol" /\ \E d \in {Torn, Absent} : r = <<Cut(n, d), FALSE>>
  BY DEF removeAll
<1>2. /\ IsNode(NoNode) /\ ~NoNode.pid /\ NoNode.kind = "none"
      /\ IsNode(Node("overlay", Absent)) /\ ~Node("overlay", Absent).pid
      /\ Node("overlay", Absent).kind = "overlay"
  BY DEF IsNode, NoNode, Node
<1>3. CASE r = <<NoNode, TRUE>>
  <2>1. r[1] = NoNode
    BY <1>3
  <2>2. QED BY <1>2, <2>1 DEF RemovedOr
<1>4. ASSUME NEW m, IsNode(m), m = n \/ (m.kind # "rosubvol" /\ (m.pid => n.pid)), r = <<m, FALSE>>
      PROVE  RemovedOr(n, r)
  <2>1. r[1] = m /\ ~r[2]
    BY <1>4
  <2>2. QED BY <1>4, <2>1, Zenon DEF RemovedOr
<1>5. ASSUME NEW d \in {Torn, Absent}, n.kind # "rosubvol", r = <<Cut(n, d), FALSE>>
      PROVE  RemovedOr(n, r)
  <2>1. /\ IsNode(Cut(n, d)) /\ Cut(n, d).kind = n.kind /\ Cut(n, d).pid = n.pid
    BY CutIs
  <2> DEFINE m == Cut(n, d)
  <2>2. IsNode(m) /\ m.kind # "rosubvol" /\ (m.pid => n.pid) /\ r = <<m, FALSE>>
    BY <1>5, <2>1
  <2> HIDE DEF m
  <2>3. QED BY <1>4, <2>2
<1>6. CASE r = <<n, FALSE>>
  BY <1>4, <1>6
<1>7. CASE r = <<Node("overlay", Absent), FALSE>>
  BY <1>2, <1>4, <1>7
<1>8. QED BY <1>1, <1>3, <1>5, <1>6, <1>7

(* Manager.Destroy of each back end.                                       *)
LEMMA DestroyIs ==
  ASSUME NEW n, IsNode(n), NEW r \in destroy(n)
  PROVE  RemovedOr(n, r)
<1>1. IsNode(NoNode) /\ ~NoNode.pid /\ NoNode.kind = "none"
  BY DEF IsNode, NoNode, Node
<1>2. \/ r \in removeAll(n) \/ r = <<NoNode, TRUE>> \/ r = <<n, FALSE>>
  BY DEF destroy, overlayDestroy
<1>3. CASE r \in removeAll(n)
  BY <1>3, RemoveAllIs
<1>4. CASE r = <<NoNode, TRUE>>
  <2>1. r[1] = NoNode
    BY <1>4
  <2>2. QED BY <1>1, <2>1 DEF RemovedOr
<1>5. CASE r = <<n, FALSE>>
  <2>1. r[1] = n /\ ~r[2]
    BY <1>5
  <2>2. QED BY <2>1, Zenon DEF RemovedOr
<1>6. QED BY <1>2, <1>3, <1>4, <1>5

(* RemovePath tries the plain removal first, or the subvolume's.           *)
LEMMA RemovePathIs ==
  ASSUME NEW n, IsNode(n), NEW r \in RemovePath(n)
  PROVE  RemovedOr(n, r)
<1>1. \/ r \in destroy(n)
      \/ r \in removeAll(n)
      \/ \E q \in removeAll(n) : r \in destroy(q[1])
  BY DEF RemovePath
<1>2. CASE r \in removeAll(n)
  BY <1>2, RemoveAllIs
<1>3. ASSUME NEW q \in removeAll(n), r \in destroy(q[1]) PROVE RemovedOr(n, r)
  <2>1. RemovedOr(n, q)
    BY RemoveAllIs
  <2>2. RemovedOr(q[1], r)
    BY <1>3, <2>1, DestroyIs DEF RemovedOr
  <2>3. QED BY <2>1, <2>2, Zenon DEF RemovedOr
<1>4. QED BY <1>1, <1>2, <1>3, DestroyIs

(* Nothing is there.                                                       *)
LEMMA FilesInvInit == StateFilesInit => FilesInv
<1> SUFFICES ASSUME StateFilesInit PROVE FilesInv
  OBVIOUS
<1>1. backend \in {"copy", "overlay", "btrfs"}
  BY DEF StateFilesInit, Backends, NewManager
<1>2. IsNode(NoNode) /\ NoNode.kind = "none" /\ ~NoNode.pid
  BY DEF IsNode, NoNode, Node
<1>3. /\ node = [p \in Places |-> NoNode] /\ ~row /\ ~halved /\ ~leftover /\ task = "idle" /\ dirt = 0
      /\ source = "base" /\ ~server
  BY DEF StateFilesInit, Places
<1>4. FilesTyped
  BY <1>1, <1>2, <1>3 DEF FilesTyped, NodesTyped, IsNode, Places
<1>5. QED BY <1>2, <1>3, <1>4 DEF FilesInv, TaskInv, ContentInv, PublishedWhole, Building, Places

(* Put changes one path.                                                   *)
LEMMA PutIs ==
  ASSUME NodesTyped, NEW p \in Places, NEW n, IsNode(n), Put(p, n)
  PROVE  NodesTyped' /\ node'[p] = n /\ \A q \in Places : q # p => node'[q] = node[q]
<1>1. node' = [node EXCEPT ![p] = n]
  BY DEF Put
<1>2. node' = [q \in Places |-> IF q = p THEN n ELSE node[q]]
  BY <1>1 DEF NodesTyped
<1>3. \A q \in Places : node'[q] = IF q = p THEN n ELSE node[q]
  BY <1>2
<1>4. node' = [q \in Places |-> node'[q]]
  BY <1>2
<1>5. \A q \in Places : IsNode(node'[q])
  BY <1>3, Zenon DEF NodesTyped
<1>6. QED BY <1>3, <1>4, <1>5 DEF NodesTyped

(* A removal at the path of the state changes nothing else there.          *)
LEMMA RemovedStateIs ==
  ASSUME FilesInv, NEW r \in RemovePath(node["state"]), RemovedState(r)
  PROVE  /\ NodesTyped' /\ node'["state"] = r[1]
         /\ node'["base"] = node["base"] /\ node'["runtime"] = node["runtime"]
         /\ r[2] => node'["state"] = NoNode
         /\ node'["state"].pid => dirt > 0
         /\ node'["state"].kind \in {"none", "rosubvol"} => ~leftover'
<1>1. RemovedOr(node["state"], r) /\ NodesTyped
  BY RemovePathIs DEF FilesInv, FilesTyped, NodesTyped, Places
<1>2. NodesTyped' /\ node'["state"] = r[1] /\ node'["base"] = node["base"] /\ node'["runtime"] = node["runtime"]
  BY <1>1, PutIs DEF RemovedOr, RemovedState, Places
<1>3. leftover' = (r[1].kind # "none" /\ (leftover \/ r[1] # node["state"]))
  BY DEF RemovedState
<1>4. (node["state"].pid => dirt > 0) /\ (node["state"].kind = "rosubvol" => ~leftover)
  BY DEF FilesInv, ContentInv
<1>5. QED BY <1>1, <1>2, <1>3, <1>4 DEF RemovedOr

(* What is cached is used, or evicted or deleted.                          *)
LEMMA CachedKeeps == FilesInv /\ (UseCached \/ RemovePublished) => FilesInv'
<1> SUFFICES ASSUME FilesInv, UseCached \/ RemovePublished PROVE FilesInv'
  OBVIOUS
<1> USE DEF FilesInv, FilesTyped, TaskInv, ContentInv, PublishedWhole, Building
<1>1. CASE UseCached
  <2>1. /\ task = "idle" /\ row /\ task' = "inspect" /\ source' = "state" /\ node' = node /\ row' = row
        /\ halved' = halved /\ backend' = backend /\ dirt' = dirt /\ server' = server /\ leftover' = leftover
    BY <1>1 DEF UseCached, Go, sfOther
  <2>2. NodesTyped'
    BY <2>1 DEF NodesTyped
  <2>3. QED BY <2>1, <2>2
<1>2. CASE RemovePublished
  <2>1. /\ row /\ task \in {"idle", "inspect", "clear", "clone"} /\ task' = task /\ source' = source
        /\ backend' = backend /\ dirt' = dirt /\ server' = server
    BY <1>2 DEF RemovePublished
  <2>2. PICK r \in RemovePath(node["state"]) :
          /\ RemovedState(r)
          /\ row' \in (IF r[2] THEN BOOLEAN ELSE {TRUE})
          /\ halved' = (halved \/ (row' /\ r[1] # node["state"]))
    BY <1>2 DEF RemovePublished
  <2>3. /\ NodesTyped' /\ node'["state"] = r[1]
        /\ node'["base"] = node["base"] /\ node'["runtime"] = node["runtime"]
        /\ r[2] => node'["state"] = NoNode
        /\ node'["state"].pid => dirt > 0
        /\ node'["state"].kind \in {"none", "rosubvol"} => ~leftover'
    BY <2>2, RemovedStateIs
  <2>4. (row' /\ ~halved' => node'["state"] = node["state"]) /\ (~halved' => ~halved) /\ (halved => halved')
    BY <2>2, <2>3
  <2>5. row' \/ node'["state"] = NoNode
    BY <2>2, <2>3
  <2>6. source = "state" \/ task \in {"idle", "inspect"}
    BY <2>1
  <2>7. TaskInv'
    BY <2>1, <2>3, <2>5, <2>6
  <2>8. ContentInv'
    BY <2>1, <2>3, <2>4
  <2>9. PublishedWhole'
    BY <2>1, <2>3, <2>4
  <2>10. FilesTyped'
    BY <2>1, <2>3
  <2>11. QED BY <2>7, <2>8, <2>9, <2>10
<1>3. QED BY <1>1, <1>2

(* From the input to an empty place for the runtime.                       *)
LEMMA PreparingKeeps ==
  FilesInv /\ (InspectInput \/ BuildMissing \/ EnsureStateDir \/ ResetState) => FilesInv'
<1> SUFFICES ASSUME FilesInv, InspectInput \/ BuildMissing \/ EnsureStateDir \/ ResetState PROVE FilesInv'
  OBVIOUS
<1> USE DEF FilesInv, FilesTyped, TaskInv, ContentInv, PublishedWhole, Building
<1>1. /\ backend' = backend /\ halved' = halved /\ dirt' = dirt /\ server' = server /\ row' = row
  BY DEF InspectInput, BuildMissing, EnsureStateDir, ResetState, sfOther
<1>2. CASE InspectInput
  <2>1. task = "inspect" /\ task' \in {"idle", "clear"} /\ node' = node /\ source' = source
        /\ leftover' = leftover /\ (task' = "clear" => node["state"].data # Absent)
    BY <1>2 DEF InspectInput, Go
  <2>2. NodesTyped'
    BY <2>1 DEF NodesTyped
  <2>3. node["state"] = NoNode => node["state"].data = Absent
    BY DEF NoNode, Node
  <2>4. QED BY <1>1, <2>1, <2>2, <2>3
<1>3. CASE BuildMissing
  <2>1. task = "idle" /\ ~row /\ task' = "ensure" /\ node' = node /\ source' = source
        /\ leftover' = leftover
    BY <1>3 DEF BuildMissing, Go
  <2>2. NodesTyped'
    BY <2>1 DEF NodesTyped
  <2>3. QED BY <1>1, <2>1, <2>2
<1>4. CASE EnsureStateDir
  <2>1. task = "ensure" /\ task' = "reset" /\ source' = source /\ leftover' = leftover
    BY <1>4 DEF EnsureStateDir, Go
  <2>2. Put("state", Node("dir", Absent)) \/ node' = node
    BY <1>4 DEF EnsureStateDir
  <2>3. IsNode(Node("dir", Absent)) /\ Node("dir", Absent).kind = "dir" /\ ~Node("dir", Absent).pid
    BY DEF IsNode, Node
  <2>4. NodesTyped' /\ node'["base"] = node["base"] /\ node'["runtime"] = node["runtime"]
        /\ (node'["state"] = node["state"] \/ (node'["state"].kind = "dir" /\ ~node'["state"].pid))
        /\ (backend = "btrfs" => node' = node)
    BY <1>4, <2>2, <2>3, PutIs DEF EnsureStateDir, NodesTyped, Places
  <2>5. QED BY <1>1, <2>1, <2>4
<1>5. CASE ResetState
  <2>1. task = "reset" /\ source' = "base"
    BY <1>5 DEF ResetState
  <2>2. CASE ResetPath
    <3>1. PICK r \in RemovePath(node["state"]) :
            IF r[2] /\ backend # "btrfs"
              THEN Put("state", Node("dir", Absent)) /\ leftover' = FALSE /\ Go("base")
              ELSE RemovedState(r) /\ Go(IF r[2] THEN "base" ELSE "idle")
      BY <2>2 DEF ResetPath
    <3>2. CASE r[2] /\ backend # "btrfs"
      <4>1. IsNode(Node("dir", Absent)) /\ ~Node("dir", Absent).pid
        BY DEF IsNode, Node
      <4>2. /\ NodesTyped' /\ node'["base"] = node["base"] /\ node'["runtime"] = node["runtime"]
            /\ ~node'["state"].pid /\ ~leftover' /\ task' = "base"
        BY <3>1, <3>2, <4>1, PutIs DEF Go, Places
      <4>3. QED BY <1>1, <2>1, <3>2, <4>2
    <3>3. CASE ~(r[2] /\ backend # "btrfs")
      <4>1. RemovedState(r) /\ (task' = "idle" \/ (task' = "base" /\ r[2]))
        BY <3>1, <3>3 DEF Go
      <4>2. /\ NodesTyped' /\ node'["state"] = r[1]
            /\ node'["base"] = node["base"] /\ node'["runtime"] = node["runtime"]
            /\ r[2] => node'["state"] = NoNode
            /\ node'["state"].pid => dirt > 0
            /\ node'["state"].kind \in {"none", "rosubvol"} => ~leftover'
        BY <4>1, RemovedStateIs
      <4>3. NoNode.kind = "none"
        BY DEF NoNode, Node
      <4>4. QED BY <1>1, <2>1, <4>1, <4>2, <4>3
    <3>4. QED BY <3>2, <3>3
  <2>3. CASE backend # "btrfs" /\ Go("base") /\ UNCHANGED <<node, leftover>>
    <3>1. task' = "base" /\ node' = node /\ leftover' = leftover /\ backend # "btrfs"
      BY <2>3 DEF Go
    <3>2. NodesTyped'
      BY <3>1 DEF NodesTyped
    <3>3. QED BY <1>1, <2>1, <3>1, <3>2
  <2>4. QED BY <1>5, <2>2, <2>3 DEF ResetState
<1>6. QED BY <1>2, <1>3, <1>4, <1>5

(* The base is made, or made anew as a subvolume, or left torn.            *)
LEMMA EnsureSubvolumeKeeps == FilesInv /\ EnsureSubvolume => FilesInv'
<1> SUFFICES ASSUME FilesInv, EnsureSubvolume PROVE FilesInv'
  OBVIOUS
<1> USE DEF FilesInv, FilesTyped, TaskInv, ContentInv, PublishedWhole, Building
<1>1. /\ task = "base" /\ backend' = backend /\ dirt' = dirt /\ server' = server /\ row' = row
      /\ source' = source /\ leftover' = leftover
  BY DEF EnsureSubvolume
<1> DEFINE n == node["base"]
<1>2. IsNode(n)
  BY DEF NodesTyped, Places
<1>3. ASSUME NEW m, IsNode(m), Put("base", m), halved' <=> halved,
             m.kind \in {"dir", "subvol"}, m.data = Fresh, ~m.pid, task' = "clear"
      PROVE  FilesInv'
  <2>1. NodesTyped' /\ node'["base"] = m /\ node'["state"] = node["state"]
    BY <1>3, PutIs DEF Places
  <2>2. Fresh # Applied
    BY DEF Fresh, Applied
  <2>3. QED BY <1>1, <1>3, <2>1, <2>2
<1>4. CASE n.kind = "none" /\ Put("base", Node(IF backend = "btrfs" THEN "subvol" ELSE "dir", Fresh))
           /\ Go("clear") /\ UNCHANGED halved
  <2> DEFINE m == Node(IF backend = "btrfs" THEN "subvol" ELSE "dir", Fresh)
  <2>1. IsNode(m) /\ m.kind \in {"dir", "subvol"} /\ m.data = Fresh /\ ~m.pid
    BY DEF IsNode, Node
  <2>2. QED BY <1>3, <1>4, <2>1 DEF Go
<1>5. CASE backend = "btrfs" /\ n.kind = "dir"
           /\ \E r \in removeAll(n) :
                /\ Put("base", IF r[2] THEN Node("subvol", Fresh) ELSE r[1])
                /\ halved' = (halved \/ (~r[2] /\ r[1] # n))
                /\ Go(IF r[2] THEN "clear" ELSE "idle")
  <2>1. PICK r \in removeAll(n) :
                /\ Put("base", IF r[2] THEN Node("subvol", Fresh) ELSE r[1])
                /\ halved' = (halved \/ (~r[2] /\ r[1] # n))
                /\ Go(IF r[2] THEN "clear" ELSE "idle")
    BY <1>5
  <2>2. \/ r = <<NoNode, TRUE>> \/ r = <<n, FALSE>>
        \/ r = <<Cut(n, Torn), FALSE>> \/ r = <<Cut(n, Absent), FALSE>>
    BY <1>5 DEF removeAll
  <2>3. CASE r = <<NoNode, TRUE>>
    <3>1. r[2] = TRUE /\ r[1] = NoNode
      BY <2>3
    <3>2. Put("base", Node("subvol", Fresh)) /\ (halved' <=> halved) /\ task' = "clear"
      BY <2>1, <3>1 DEF Go
    <3>3. IsNode(Node("subvol", Fresh)) /\ Node("subvol", Fresh).kind = "subvol"
          /\ Node("subvol", Fresh).data = Fresh /\ ~Node("subvol", Fresh).pid
      BY DEF IsNode, Node
    <3>4. QED BY <1>3, <3>2, <3>3
  <2>4. ASSUME NEW m, IsNode(m), r = <<m, FALSE>>,
               m = n \/ (m.kind = n.kind /\ m.pid = n.pid /\ m.data \in {Torn, Absent})
        PROVE  FilesInv'
    <3>1. r[1] = m /\ r[2] = FALSE
      BY <2>4
    <3>2. Put("base", m) /\ task' = "idle" /\ (halved' <=> halved \/ m # n)
      BY <2>1, <3>1 DEF Go
    <3>3. NodesTyped' /\ node'["base"] = m /\ node'["state"] = node["state"]
      BY <2>4, <3>2, PutIs DEF Places
    <3>4. m # n => m.kind = "dir" /\ m.data \in {Torn, Absent} /\ ~m.pid
      BY <1>5, <2>4
    <3>5. Torn # Applied /\ Absent # Applied
      BY DEF Torn, Absent, Applied
    <3>6. QED BY <1>1, <1>5, <3>2, <3>3, <3>4, <3>5
  <2>5. \A d \in {Torn, Absent} : /\ IsNode(Cut(n, d)) /\ Cut(n, d).kind = n.kind /\ Cut(n, d).pid = n.pid
                               /\ Cut(n, d).data \in {Torn, Absent}
    BY <1>2, CutIs
  <2>6. QED BY <1>2, <2>2, <2>3, <2>4, <2>5
<1>6. CASE n.kind # "none" /\ UNCHANGED <<node, halved>> /\ Go("clear")
  <2>1. NodesTyped'
    BY <1>6 DEF NodesTyped
  <2>2. QED BY <1>1, <1>6, <2>1 DEF Go
<1>7. CASE n.kind # "none" /\ Put("base", Node(n.kind, Fresh)) /\ UNCHANGED halved /\ Go("clear")
  <2> DEFINE m == Node(n.kind, Fresh)
  <2>1. IsNode(m) /\ m.kind \in {"dir", "subvol"} /\ m.data = Fresh /\ ~m.pid
    BY <1>7 DEF IsNode, Node
  <2>2. task' = "clear" /\ halved' = halved /\ Put("base", m)
    BY <1>7 DEF Go
  <2> HIDE DEF m
  <2>3. QED BY <1>3, <2>1, <2>2
<1>8. QED BY <1>4, <1>5, <1>6, <1>7 DEF EnsureSubvolume

(* Put at the path of the runtime.                                         *)
LEMMA RuntimePut ==
  ASSUME NodesTyped, NEW n, IsNode(n), Put("runtime", n)
  PROVE  /\ NodesTyped' /\ node'["runtime"] = n
         /\ node'["base"] = node["base"] /\ node'["state"] = node["state"]
BY PutIs DEF Places

(* What a clone or a snapshot of a path is: it, another kind, or torn.     *)
LEMMA TornNode == \A d \in {Torn, Absent} : IsNode(Node("dir", d)) /\ Node("dir", d).data = d
BY DEF IsNode, Node

(* The runtime's directory is emptied and the input cloned into it.        *)
LEMMA CloningKeeps == FilesInv /\ (ClearRuntime \/ Clone) => FilesInv'
<1> SUFFICES ASSUME FilesInv, ClearRuntime \/ Clone PROVE FilesInv'
  OBVIOUS
<1> USE DEF FilesInv, FilesTyped, TaskInv, ContentInv, PublishedWhole, Building
<1>1. /\ backend' = backend /\ halved' = halved /\ dirt' = dirt /\ row' = row /\ source' = source
      /\ leftover' = leftover
  BY DEF ClearRuntime, Clone, sfOther
<1>2. CASE ClearRuntime
  <2>1. task = "clear" /\ task' = "clone" /\ Put("runtime", NoNode)
    BY <1>2 DEF ClearRuntime, Go
  <2>2. IsNode(NoNode)
    BY DEF IsNode, NoNode, Node
  <2>3. NodesTyped' /\ node'["base"] = node["base"] /\ node'["state"] = node["state"]
    BY <2>1, <2>2, RuntimePut
  <2>4. QED BY <1>1, <2>1, <2>3
<1>3. CASE Clone
  <2> DEFINE n == node[source]
  <2>1. task = "clone" /\ source \in {"base", "state"} /\ server' = server
    BY <1>3 DEF Clone
  <2>2. IsNode(n)
    BY <2>1 DEF NodesTyped, Places
  <2>3. n.kind # "none" => /\ source = "state" => row
                           /\ ~halved => n.data = IF source = "base" THEN Fresh ELSE Applied
    BY <2>1 DEF NoNode, Node
  <2>4. ASSUME NEW m, IsNode(m), Put("runtime", m), task' = "idle" \/ (n.kind # "none" /\ m.data = n.data /\ task' = "check")
        PROVE  FilesInv'
    <3>1. NodesTyped' /\ node'["base"] = node["base"] /\ node'["state"] = node["state"] /\ node'["runtime"] = m
      BY <2>4, RuntimePut
    <3>2. QED BY <1>1, <2>1, <2>3, <2>4, <3>1
  <2>5. \A k : IsNode([n EXCEPT !.kind = k]) /\ [n EXCEPT !.kind = k].data = n.data
    BY <2>2 DEF IsNode
  <2>6. CASE backend = "btrfs"
    <3>1. CASE IsSubvolume(n)
      <4>1. Put("runtime", [n EXCEPT !.kind = "subvol"]) /\ task' = "check"
        BY <1>3, <2>6, <3>1 DEF Clone, Go
      <4>2. n.kind # "none"
        BY <3>1 DEF IsSubvolume
      <4>3. QED BY <2>4, <2>5, <4>1, <4>2
    <3>2. CASE ~IsSubvolume(n)
      <4>1. node' = node /\ task' = "idle"
        BY <1>3, <2>6, <3>2 DEF Clone, Go
      <4>2. NodesTyped'
        BY <4>1 DEF NodesTyped
      <4>3. QED BY <1>1, <2>1, <4>1, <4>2
    <3>3. QED BY <3>1, <3>2
  <2>7. CASE backend = "overlay"
    <3>1. PICK r \in overlayClone(n) : Put("runtime", r[1]) /\ Go(IF r[2] THEN "check" ELSE "idle")
      BY <1>3, <2>7 DEF Clone
    <3>2. CASE n.kind # "none" /\ r = <<[n EXCEPT !.kind = "overlay"], TRUE>>
      <4>1. r[1] = [n EXCEPT !.kind = "overlay"] /\ r[2] = TRUE
        BY <3>2
      <4>2. Put("runtime", [n EXCEPT !.kind = "overlay"]) /\ task' = "check"
        BY <3>1, <4>1 DEF Go
      <4>3. QED BY <2>4, <2>5, <3>2, <4>2
    <3>3. CASE r = <<Node("dir", Absent), FALSE>>
      <4>1. r[1] = Node("dir", Absent) /\ r[2] = FALSE
        BY <3>3
      <4>2. QED BY <2>4, <3>1, <4>1, TornNode DEF Go
    <3>4. QED BY <3>2, <3>3 DEF overlayClone
  <2>8. CASE backend = "copy"
    <3>1. \/ n.kind # "none" /\ Put("runtime", [n EXCEPT !.kind = "dir"]) /\ task' = "check"
          \/ Put("runtime", Node("dir", Torn)) /\ task' = "idle"
          \/ node' = node /\ task' = "idle"
      BY <1>3, <2>8 DEF Clone, Go
    <3>2. CASE node' = node /\ task' = "idle"
      <4>1. NodesTyped'
        BY <3>2 DEF NodesTyped
      <4>2. QED BY <1>1, <2>1, <3>2, <4>1
    <3>3. QED BY <2>4, <2>5, <3>1, <3>2, TornNode
  <2>9. QED BY <2>6, <2>7, <2>8
<1>4. QED BY <1>2, <1>3

(* The server starts on the clone, runs the step, and stops.               *)
LEMMA RunningKeeps == FilesInv /\ (StartServer \/ RunStep \/ PrepareSnapshot) => FilesInv'
<1> SUFFICES ASSUME FilesInv, StartServer \/ RunStep \/ PrepareSnapshot PROVE FilesInv'
  OBVIOUS
<1> USE DEF FilesInv, FilesTyped, TaskInv, ContentInv, PublishedWhole, Building
<1>1. /\ backend' = backend /\ halved' = halved /\ dirt' = dirt /\ row' = row /\ source' = source
      /\ leftover' = leftover
  BY DEF StartServer, RunStep, PrepareSnapshot, sfOther
<1> DEFINE n == node["runtime"]
<1>2. IsNode(n)
  BY DEF NodesTyped, Places
<1>3. \A x : IsNode([n EXCEPT !.pid = x]) /\ [n EXCEPT !.pid = x].data = n.data /\ [n EXCEPT !.pid = x].pid = x
  BY <1>2 DEF IsNode
<1>4. ASSUME NEW m, IsNode(m), Put("runtime", m)
      PROVE  /\ NodesTyped' /\ node'["base"] = node["base"] /\ node'["state"] = node["state"]
             /\ node'["runtime"] = m
  BY <1>4, RuntimePut
<1>5. CASE node' = node /\ task' \in {"idle", "cleanup"}
  <2>1. NodesTyped'
    BY <1>5 DEF NodesTyped
  <2>2. QED BY <1>1, <1>5, <2>1
<1>6. CASE StartServer
  <2>1. CASE node' = node /\ task' = "idle"
    BY <1>5, <2>1
  <2>2. CASE Put("runtime", [n EXCEPT !.pid = TRUE]) /\ server' = TRUE
             /\ Go(IF source = "state" THEN "instance" ELSE "step")
    <3>1. task = "check"
      BY <1>6 DEF StartServer
    <3>2. /\ NodesTyped' /\ node'["base"] = node["base"] /\ node'["state"] = node["state"]
          /\ node'["runtime"].data = n.data
      <4> DEFINE m == [n EXCEPT !.pid = TRUE]
      <4>1. IsNode(m) /\ m.data = n.data /\ Put("runtime", m)
        BY <1>3, <2>2, Zenon
      <4> HIDE DEF m
      <4>2. QED BY <1>4, <4>1
    <3>3. QED BY <1>1, <2>2, <3>1, <3>2 DEF Go
  <2>3. CASE (\E r \in destroy(n) : Put("runtime", r[1])) /\ task' = "idle"
    <3>1. PICK r \in destroy(n) : Put("runtime", r[1])
      BY <2>3
    <3>2. IsNode(r[1])
      BY <1>2, DestroyIs DEF RemovedOr
    <3>3. NodesTyped' /\ node'["base"] = node["base"] /\ node'["state"] = node["state"]
      BY <1>4, <3>1, <3>2
    <3>4. QED BY <1>1, <2>3, <3>3
  <2>4. QED BY <1>6, <2>1, <2>2, <2>3 DEF StartServer, Go
<1>7. CASE RunStep
  <2>1. task = "step" /\ server' = server
    BY <1>7 DEF RunStep
  <2>2. CASE node' = node /\ task' = "cleanup"
    BY <1>5, <2>2
  <2>3. CASE Put("runtime", [n EXCEPT !.data = IF @ = Fresh THEN Applied ELSE @]) /\ task' = "stop"
    <3> DEFINE d == IF n.data = Fresh THEN Applied ELSE n.data
    <3>1. Put("runtime", [n EXCEPT !.data = d])
      BY <2>3
    <3>2. IsNode([n EXCEPT !.data = d]) /\ [n EXCEPT !.data = d].data = d
      BY <1>2 DEF IsNode
    <3>3. /\ NodesTyped' /\ node'["base"] = node["base"] /\ node'["state"] = node["state"]
          /\ node'["runtime"].data = d
      BY <1>4, <3>1, <3>2
    <3>4. QED BY <1>1, <2>1, <2>3, <3>3
  <2>4. QED BY <1>7, <2>2, <2>3 DEF RunStep, Go
<1>8. CASE PrepareSnapshot
  <2>1. PICK o \in StopOutcomes : /\ server' = o.up
                                  /\ Put("runtime", [n EXCEPT !.pid = o.up])
                                  /\ Go(IF o.says /\ verifyStopped(o.up) THEN "snapshot" ELSE "cleanup")
    BY <1>8 DEF PrepareSnapshot
  <2>2. /\ NodesTyped' /\ node'["base"] = node["base"] /\ node'["state"] = node["state"]
        /\ node'["runtime"].data = n.data /\ node'["runtime"].pid = o.up
    <3> DEFINE m == [n EXCEPT !.pid = o.up]
    <3>1. IsNode(m) /\ m.data = n.data /\ m.pid = o.up /\ Put("runtime", m)
      BY <1>3, <2>1, Zenon
    <3> HIDE DEF m
    <3>2. QED BY <1>4, <3>1
  <2>3. task = "stop" /\ (task' = "cleanup" \/ (task' = "snapshot" /\ ~o.up))
    BY <1>8, <2>1 DEF PrepareSnapshot, Go, verifyStopped
  <2>4. QED BY <1>1, <2>1, <2>2, <2>3
<1>9. QED BY <1>6, <1>7, <1>8

(* The snapshot is taken into an empty place, or merged into what is in a  *)
(* directory of the other back ends.                                       *)
LEMMA SnapshotKeeps == FilesInv /\ Snapshot => FilesInv'
<1> SUFFICES ASSUME FilesInv, Snapshot PROVE FilesInv'
  OBVIOUS
<1> USE DEF FilesInv, FilesTyped, TaskInv, ContentInv, PublishedWhole, Building
<1> DEFINE n == node["runtime"]
           d == node["state"]
<1>1. /\ task = "snapshot" /\ backend' = backend /\ halved' = halved /\ dirt' = dirt /\ row' = row
      /\ source' = source /\ server' = server
  BY DEF Snapshot, sfOther
<1>2. IsNode(n) /\ IsNode(d)
  BY DEF NodesTyped, Places
<1>3. CASE node' = node /\ leftover' = leftover /\ task' = "resume"
  <2>1. NodesTyped'
    BY <1>3 DEF NodesTyped
  <2>2. QED BY <1>1, <1>3, <2>1
<1>4. ASSUME NEW m, IsNode(m), Put("state", m),
             m.pid => d.pid \/ n.pid,
             m.kind \in {"none", "rosubvol"} => ~leftover',
             task' = "resume" \/ (task' = "publish" /\ m.data = n.data)
      PROVE  FilesInv'
  <2>1. NodesTyped' /\ node'["state"] = m /\ node'["base"] = node["base"] /\ node'["runtime"] = n
    BY <1>4, PutIs DEF Places
  <2>2. QED BY <1>1, <1>4, <2>1
<1>5. CASE backend = "btrfs"
  <2>1. d.kind = "none" /\ leftover' = leftover
    BY <1>1, <1>5 DEF Snapshot
  <2>2. CASE IsSubvolume(d) \/ ~IsSubvolume(n)
    BY <1>3, <1>5, <2>1, <2>2 DEF Snapshot, Go
  <2>3. CASE ~(IsSubvolume(d) \/ ~IsSubvolume(n))
    <3> DEFINE m == [n EXCEPT !.kind = "rosubvol"]
    <3>1. Put("state", m) /\ task' = "publish"
      BY <1>5, <2>1, <2>3 DEF Snapshot, Go
    <3>2. IsNode(m) /\ m.data = n.data /\ m.pid = n.pid
      BY <1>2 DEF IsNode
    <3>3. ~leftover'
      BY <2>1
    <3> HIDE DEF m
    <3>4. QED BY <1>4, <3>1, <3>2, <3>3
  <2>4. QED BY <2>2, <2>3
<1>6. CASE backend # "btrfs"
  <2>1. CASE d.kind = "rosubvol"
    BY <1>3, <1>6, <2>1 DEF Snapshot, Go
  <2>2. CASE d.kind # "rosubvol"
    <3> DEFINE k == IF d.kind = "none" THEN "dir" ELSE d.kind
    <3>1. copyDir(n, d)
      BY <1>6, <2>2 DEF Snapshot
    <3>2. k \notin {"none", "rosubvol"}
      BY <2>2
    <3>3. CASE Put("state", [n EXCEPT !.kind = k, !.pid = d.pid]) /\ task' = "publish"
      <4> DEFINE m == [n EXCEPT !.kind = k, !.pid = d.pid]
      <4>1. Put("state", m) /\ task' = "publish"
        BY <3>3
      <4>2. IsNode(m) /\ m.data = n.data /\ m.pid = d.pid /\ m.kind = k
        <5> DEFINE e == [n EXCEPT !.kind = k]
        <5> HIDE DEF k
        <5>1. IsNode(e) /\ e.data = n.data /\ e.kind = k
          BY <1>2 DEF IsNode
        <5>2. m = [e EXCEPT !.pid = d.pid]
          BY <1>2 DEF IsNode
        <5> HIDE DEF e, m
        <5>3. QED BY <5>1, <5>2 DEF IsNode
      <4> HIDE DEF m, k
      <4>3. QED BY <1>4, <3>2, <4>1, <4>2
    <3>4. ASSUME NEW x, Put("state", [d EXCEPT !.kind = k, !.data = x]), task' = "resume"
          PROVE  FilesInv'
      <4> DEFINE m == [d EXCEPT !.kind = k, !.data = x]
      <4>1. Put("state", m)
        BY <3>4
      <4>2. IsNode(m) /\ m.pid = d.pid /\ m.kind = k
        <5> DEFINE e == [d EXCEPT !.kind = k]
        <5> HIDE DEF k
        <5>1. IsNode(e) /\ e.pid = d.pid /\ e.kind = k
          BY <1>2 DEF IsNode
        <5>2. m = [e EXCEPT !.data = x]
          BY <1>2 DEF IsNode
        <5> HIDE DEF e, m
        <5>3. QED BY <5>1, <5>2 DEF IsNode
      <4> HIDE DEF m, k
      <4>3. QED BY <1>4, <3>2, <3>4, <4>1, <4>2
    <3>5. \/ Put("state", [n EXCEPT !.kind = k, !.pid = d.pid]) /\ task' = "publish"
          \/ \E x \in {d.data, Torn} : Put("state", [d EXCEPT !.kind = k, !.data = x]) /\ task' = "resume"
      BY <3>1 DEF copyDir, Go
    <3> HIDE DEF k
    <3>6. QED BY <3>3, <3>4, <3>5
  <2>3. QED BY <2>1, <2>2
<1>7. QED BY <1>5, <1>6

(* The server is resumed, or is not, and the row is written, or is not.    *)
LEMMA PublishingKeeps ==
  FilesInv /\ (ResumeSnapshot \/ ResumeAndPublish \/ CreateState) => FilesInv'
<1> SUFFICES ASSUME FilesInv, ResumeSnapshot \/ ResumeAndPublish \/ CreateState PROVE FilesInv'
  OBVIOUS
<1> USE DEF FilesInv, FilesTyped, TaskInv, ContentInv, PublishedWhole, Building
<1> DEFINE n == node["runtime"]
<1>1. /\ backend' = backend /\ halved' = halved /\ dirt' = dirt /\ source' = source
  BY DEF ResumeSnapshot, ResumeAndPublish, CreateState, sfOther
<1>7. ResumeSnapshot \/ ResumeAndPublish => leftover' = leftover
  BY DEF ResumeSnapshot, ResumeAndPublish
<1>2. IsNode(n) /\ IsNode(node["state"])
  BY DEF NodesTyped, Places
<1>3. ASSUME NEW l, ResumeServer(l)
      PROVE  /\ NodesTyped' /\ node'["base"] = node["base"] /\ node'["state"] = node["state"]
             /\ node'["runtime"].data = n.data
             /\ task' = "cleanup" \/ (task' = l /\ server' = TRUE)
  <2>1. CASE server' = TRUE /\ Put("runtime", [n EXCEPT !.pid = TRUE]) /\ Go(l)
    <3> DEFINE m == [n EXCEPT !.pid = TRUE]
    <3>1. \A x : IsNode([n EXCEPT !.pid = x]) /\ [n EXCEPT !.pid = x].data = n.data
      BY <1>2 DEF IsNode
    <3>2. IsNode(m) /\ m.data = n.data /\ Put("runtime", m)
      BY <2>1, <3>1, Zenon
    <3> HIDE DEF m
    <3>3. QED BY <2>1, <3>2, RuntimePut DEF Go
  <2>2. CASE UNCHANGED <<server, node>> /\ Go("cleanup")
    BY <2>2 DEF Go, NodesTyped
  <2>3. QED BY <1>3, <2>1, <2>2 DEF ResumeServer
<1>4. CASE ResumeSnapshot
  <2>1. task = "resume" /\ row' = row /\ ResumeServer("cleanup")
    BY <1>4 DEF ResumeSnapshot
  <2>2. task' = "cleanup" /\ NodesTyped' /\ node'["base"] = node["base"] /\ node'["state"] = node["state"]
    BY <1>3, <2>1
  <2>3. QED BY <1>1, <1>4, <1>7, <2>1, <2>2
<1>5. CASE ResumeAndPublish
  <2>1. task = "publish" /\ row' = row /\ ResumeServer("row")
    BY <1>5 DEF ResumeAndPublish
  <2>2. /\ NodesTyped' /\ node'["base"] = node["base"] /\ node'["state"] = node["state"]
        /\ node'["runtime"].data = n.data
        /\ task' = "cleanup" \/ (task' = "row" /\ server' = TRUE)
    BY <1>3, <2>1
  <2>3. QED BY <1>1, <1>5, <1>7, <2>1, <2>2
<1>6. CASE CreateState
  <2>1. task = "row" /\ server' = server
    BY <1>6 DEF CreateState
  <2>2. CASE row' = TRUE /\ task' \in {"instance", "cleanup"} /\ UNCHANGED <<node, leftover>>
    <3>1. NodesTyped'
      BY <2>2 DEF NodesTyped
    <3>2. QED BY <1>1, <2>1, <2>2, <3>1
  <2>3. CASE (\E r \in RemovePath(node["state"]) : RemovedState(r)) /\ Go("cleanup") /\ UNCHANGED row
    <3>1. PICK r \in RemovePath(node["state"]) : RemovedState(r)
      BY <2>3
    <3>2. /\ NodesTyped' /\ node'["base"] = node["base"]
          /\ node'["state"].pid => dirt > 0
          /\ node'["state"].kind \in {"none", "rosubvol"} => ~leftover'
      BY <3>1, RemovedStateIs
    <3>3. QED BY <1>1, <2>1, <2>3, <3>2 DEF Go
  <2>4. CASE Go("cleanup") /\ UNCHANGED <<row, node, leftover>>
    <3>1. NodesTyped'
      BY <2>4 DEF NodesTyped
    <3>2. QED BY <1>1, <2>1, <2>4, <3>1 DEF Go
  <2>5. QED BY <1>6, <2>2, <2>3, <2>4 DEF CreateState
<1>8. QED BY <1>4, <1>5, <1>6

(* The clean-up, a restart or a reboot, and a foreign write.               *)
LEMMA EndingKeeps ==
  FilesInv /\ (CleanupRuntime \/ RestartStateEngine \/ DirtyState) => FilesInv'
<1> SUFFICES ASSUME FilesInv, CleanupRuntime \/ RestartStateEngine \/ DirtyState PROVE FilesInv'
  OBVIOUS
<1> USE DEF FilesInv, FilesTyped, TaskInv, ContentInv, PublishedWhole, Building
<1> DEFINE n == node["runtime"]
           s == node["state"]
<1>1. IsNode(n) /\ IsNode(s)
  BY DEF NodesTyped, Places
<1>2. CASE CleanupRuntime
  <2>1. /\ leftover' = leftover /\ backend' = backend /\ halved' = halved /\ dirt' = dirt /\ source' = source /\ row' = row
        /\ task' = "idle"
    BY <1>2 DEF CleanupRuntime, sfOther, EndTask, Go
  <2>2. PICK up \in {FALSE, server} :
          \E r \in destroy([n EXCEPT !.pid = @ /\ up]) : Put("runtime", r[1])
    BY <1>2 DEF CleanupRuntime
  <2> DEFINE m == [n EXCEPT !.pid = @ /\ up]
  <2>3. IsNode(m)
    BY <1>1 DEF IsNode
  <2>4. PICK r \in destroy(m) : Put("runtime", r[1])
    BY <2>2
  <2>5. IsNode(r[1])
    <3> HIDE DEF m
    <3>1. QED BY <2>3, <2>4, DestroyIs DEF RemovedOr
  <2>6. NodesTyped' /\ node'["base"] = node["base"] /\ node'["state"] = node["state"]
    BY <2>4, <2>5, RuntimePut
  <2>7. QED BY <2>1, <2>6
<1>3. CASE RestartStateEngine
  <2>1. /\ halved' = halved /\ dirt' = dirt /\ source' = source /\ row' = row /\ task' = "idle"
        /\ leftover' = leftover
        /\ backend' \in Backends
    BY <1>3 DEF RestartStateEngine
  <2>2. backend' \in {"copy", "overlay", "btrfs"}
    BY <2>1 DEF Backends, NewManager
  <2>3. \/ node' = node
        \/ Put("runtime", IF n.kind = "overlay" THEN Node("dir", Absent) ELSE n)
    BY <1>3 DEF RestartStateEngine, Put
  <2>4. IsNode(IF n.kind = "overlay" THEN Node("dir", Absent) ELSE n)
    BY <1>1, TornNode
  <2>5. NodesTyped' /\ node'["base"] = node["base"] /\ node'["state"] = node["state"]
    BY <2>3, <2>4, RuntimePut DEF NodesTyped
  <2>6. QED BY <2>1, <2>2, <2>5
<1>4. CASE DirtyState
  <2>1. /\ halved' = halved /\ dirt' = dirt + 1 /\ source' = source /\ row' = row
        /\ backend' = backend /\ task = "idle" /\ task' = "idle" /\ leftover' = leftover
        /\ Put("state", [s EXCEPT !.pid = TRUE])
    BY <1>4 DEF DirtyState
  <2>2. \A x : IsNode([s EXCEPT !.pid = x]) /\ [s EXCEPT !.pid = x].data = s.data
          /\ [s EXCEPT !.pid = x].kind = s.kind
    BY <1>1 DEF IsNode
  <2>3. NodesTyped' /\ node'["base"] = node["base"] /\ node'["state"].data = s.data
        /\ node'["state"].kind = s.kind
    <3> DEFINE m == [s EXCEPT !.pid = TRUE]
    <3>1. IsNode(m) /\ m.data = s.data /\ m.kind = s.kind /\ Put("state", m)
      BY <2>1, <2>2, Zenon
    <3> HIDE DEF m
    <3>2. QED BY <3>1, PutIs DEF Places
  <2>4. QED BY <2>1, <2>3
<1>5. QED BY <1>2, <1>3, <1>4

(* Every step keeps the invariant.                                         *)
LEMMA FilesInvStep == FilesInv /\ [StateFilesNext]_stateFileVars => FilesInv'
<1>1. FilesInv /\ UNCHANGED stateFileVars => FilesInv'
  BY DEF stateFileVars, FilesInv, FilesTyped, NodesTyped, TaskInv, ContentInv, PublishedWhole
<1>2. QED
  BY <1>1, CachedKeeps, PreparingKeeps, EnsureSubvolumeKeeps, CloningKeeps, RunningKeeps,
     SnapshotKeeps, PublishingKeeps, EndingKeeps DEF StateFilesNext

(* The files of a state (statefs, snapshot, dbms, execution.go): what is   *)
(* published is the whole step from a stopped server, on every back end    *)
(* and on any sequence of them.                                            *)
THEOREM StateFilesAreSafe == Spec => []StateFilesSafe
<1>1. FilesInv => StateFilesSafe
  BY DEF FilesInv, TaskInv, ContentInv, StateFilesSafe, ServedIsPublished, SnapshotOfStopped
<1>2. QED BY <1>1, StoresInit, StoresStep, FilesInvInit, FilesInvStep, PTL DEF Spec

-----------------------------------------------------------------------------
(* Resolver.  What stat and the clock say, when every change has a change  *)
(* time of its own: a file whose change time is the one observed has the   *)
(* content it had then.                                                    *)
CallFields == {"at", "seen", "purpose", "observed", "inode", "before", "modified", "first", "second",
               "half", "digest", "evidence", "got"}
Opened == {"recheck", "compare", "read1", "read2", "read3", "read4", "check1", "check2", "confirm"}
Copying == {"lookup", "remove", "copy1", "copy2", "publish", "verify"}

DiskInv ==
  /\ clock \in Nat /\ edits \in Nat /\ entry \in Nat /\ entry <= edits + 1 /\ entry <= MaxFileEdits + 1
  /\ DOMAIN files = Inodes
  /\ \A i \in Inodes :
       /\ DOMAIN files[i] = {"content", "modified", "change"}
       /\ files[i].content = <<files[i].content[1], files[i].content[2]>>
       /\ files[i].change \in Nat /\ files[i].change <= clock

Fits(evidence, digest) ==
  evidence.strong =>
    /\ evidence.change \in Nat /\ evidence.change <= clock
    /\ \A i \in Inodes :
         /\ i = evidence.id
         /\ files[i].change = evidence.change
         /\ files[i].modified = evidence.modified
         => files[i].content = digest

RecordInv ==
  /\ cached.kind \in {"none", "record"} \cup Damaged
  /\ cached.kind = "record" => Fits(cached.evidence, cached.digest)

Watched(c) == c.at \notin {"idle", "resolved", "done", "failed"} /\ c.purpose # "acquire"

SeenInv(c) ==
  /\ c.at \in Opened \ {"recheck"} => c.purpose # "acquire"
  /\ Watched(c) /\ entry # 0 => files[entry].content \in c.seen
  /\ c.at \in Opened \cup Copying => c.inode \in Inodes /\ c.inode <= edits + 1
  /\ c.at = "open" => c.observed # 0
  /\ c.at \in Opened /\ c.purpose # "acquire" =>
       /\ files[c.inode].content \in c.seen
       /\ c.before = [id |-> c.inode, change |-> c.before.change, strong |-> TRUE]
       /\ c.before.change \in Nat /\ c.before.change <= clock

ReadInv(c) ==
  c.at \in Opened /\ files[c.inode].change = c.before.change =>
    /\ c.at = "read2" => c.half = files[c.inode].content[1]
    /\ c.at \in {"check1", "read3", "read4", "check2", "confirm"} => c.first = files[c.inode].content

RecallInv(c) ==
  /\ c.purpose = "revalidate" => c.at \in {"walk", "open", "recheck", "compare"} /\ Fits(c.evidence, c.digest)
  /\ c.at = "compare" => c.purpose = "revalidate"
  /\ c.purpose = "revalidate" /\ c.at \in Opened /\ Continuous(c) => c.digest \in c.seen
  /\ c.at = "store" => c.digest \in c.seen /\ Fits(c.evidence, c.digest)
  /\ c.got # NoContent => c.got = c.digest

CallInv(c) == DOMAIN c = CallFields /\ SeenInv(c) /\ ReadInv(c) /\ RecallInv(c)
ResolveInv == DiskInv /\ RecordInv /\ DOMAIN call = Resolvers /\ \A r \in Resolvers : CallInv(call[r])

(* Nobody has asked yet.                                                   *)
LEMMA ResolveInvInit == ResolverInit => ResolveInv
<1> SUFFICES ASSUME ResolverInit PROVE ResolveInv
  OBVIOUS
<1> DEFINE h == CHOOSE x \in Halves : TRUE
<1>1. files = [i \in Inodes |-> [content |-> <<h, h>>, modified |-> 0, change |-> 0]]
  BY DEF ResolverInit
<1>2. DiskInv
  BY <1>1, ResolverAssumption DEF ResolverInit, DiskInv
<1>3. RecordInv
  BY DEF ResolverInit, RecordInv, NoRecord
<1>4. ASSUME NEW r \in Resolvers PROVE CallInv(call[r])
  <2>1. call[r] = NewCall
    BY DEF ResolverInit
  <2>2. DOMAIN NewCall = CallFields /\ NewCall.at = "idle" /\ NewCall.purpose = "none" /\ NewCall.got = NoContent
    BY DEF NewCall, CallFields
  <2>3. QED BY <2>1, <2>2 DEF CallInv, SeenInv, ReadInv, RecallInv, Watched, Opened, Copying
<1>5. QED BY <1>2, <1>3, <1>4 DEF ResolverInit, ResolveInv

(* A step of one call that leaves the file alone.                          *)
LEMMA OneCall ==
  ASSUME ResolveInv, NEW r \in Resolvers, NEW n, Step(r, n), UNCHANGED diskVars, RecordInv', CallInv(call[r])'
  PROVE  ResolveInv'
<1>1. files' = files /\ entry' = entry /\ clock' = clock /\ edits' = edits
  BY DEF diskVars
<1>2. DiskInv'
  BY <1>1 DEF ResolveInv, DiskInv
<1>3. DOMAIN call' = Resolvers /\ \A q \in Resolvers : q # r => call'[q] = call[q]
  BY DEF ResolveInv, Step
<1>4. ASSUME NEW q \in Resolvers, q # r PROVE CallInv(call[q])'
  <2>1. call'[q] = call[q] /\ CallInv(call[q])
    BY <1>3, <1>4 DEF ResolveInv
  <2>2. QED BY <1>1, <2>1 DEF CallInv, SeenInv, ReadInv, RecallInv, Fits, Watched, Continuous
<1>5. QED BY <1>2, <1>3, <1>4 DEF ResolveInv

(* A call that has returned, or begins again.                              *)
LEMMA QuietCall ==
  ASSUME NEW r \in Resolvers, DOMAIN call'[r] = CallFields,
         call'[r].at \in {"resolved", "done", "failed", "walk", "open"},
         Watched(call[r])' /\ entry' # 0 => files'[entry'].content \in call'[r].seen,
         call'[r].at = "open" => call'[r].observed # 0,
         call'[r].purpose = "revalidate" => call'[r].at \in {"walk", "open"} /\ Fits(call[r].evidence, call[r].digest)',
         call'[r].got # NoContent => call'[r].got = call'[r].digest
  PROVE  CallInv(call[r])'
BY DEF CallInv, SeenInv, ReadInv, RecallInv, Watched, Opened, Copying

(* Failing, and reading the file after all.                                *)
LEMMA FailedCall ==
  ASSUME ResolveInv, NEW r \in Resolvers, ResolveFails(r), UNCHANGED diskVars, UNCHANGED cached
  PROVE  ResolveInv'
<1> DEFINE n == [NewCall EXCEPT !.at = "failed"]
<1>1. Step(r, n)
  BY DEF ResolveFails
<1>2. call'[r] = n
  BY <1>1 DEF Step, ResolveInv
<1>3. DOMAIN n = CallFields /\ n.at = "failed" /\ n.purpose = "none" /\ n.got = NoContent
  BY DEF NewCall, CallFields
<1>4. CallInv(call[r])'
  <2> HIDE DEF n
  <2>1. QED BY <1>2, <1>3, QuietCall DEF Watched
<1>5. RecordInv'
  BY DEF ResolveInv, RecordInv, Fits, diskVars
<1> HIDE DEF n
<1>6. QED BY <1>1, <1>4, <1>5, OneCall

(* The file is looked for again, and its contents are watched.             *)
LEMMA AgainCall ==
  ASSUME ResolveInv, NEW r \in Resolvers, Watched(call[r]), UNCHANGED diskVars, UNCHANGED cached,
         Step(r, [NewCall EXCEPT !.at = "walk", !.seen = call[r].seen, !.purpose = "resolve"])
  PROVE  ResolveInv'
<1> DEFINE n == [NewCall EXCEPT !.at = "walk", !.seen = call[r].seen, !.purpose = "resolve"]
<1>1. call'[r] = n
  BY DEF Step, ResolveInv
<1>2. /\ DOMAIN n = CallFields /\ n.at = "walk" /\ n.purpose = "resolve" /\ n.got = NoContent
      /\ n.seen = call[r].seen
  BY DEF NewCall, CallFields
<1>3. entry # 0 => files[entry].content \in call[r].seen
  BY DEF ResolveInv, CallInv, SeenInv
<1>4. CallInv(call[r])'
  <2> HIDE DEF n
  <2>1. QED BY <1>1, <1>2, <1>3, QuietCall DEF diskVars
<1>5. RecordInv'
  BY DEF ResolveInv, RecordInv, Fits, diskVars
<1>6. Step(r, n)
  OBVIOUS
<1> HIDE DEF n
<1>7. QED BY <1>4, <1>5, <1>6, OneCall

(* To changes where a call is and nothing else.                            *)
LEMMA ToIs ==
  ASSUME ResolveInv, NEW r \in Resolvers, NEW l, To(r, l)
  PROVE  /\ DOMAIN call'[r] = CallFields /\ call'[r].at = l
         /\ call'[r].seen = call[r].seen /\ call'[r].purpose = call[r].purpose
         /\ call'[r].observed = call[r].observed /\ call'[r].inode = call[r].inode
         /\ call'[r].before = call[r].before /\ call'[r].modified = call[r].modified
         /\ call'[r].first = call[r].first /\ call'[r].second = call[r].second
         /\ call'[r].half = call[r].half /\ call'[r].digest = call[r].digest
         /\ call'[r].evidence = call[r].evidence /\ call'[r].got = call[r].got
<1>1. call'[r] = [call[r] EXCEPT !.at = l] /\ DOMAIN call[r] = CallFields
  BY DEF To, Step, ResolveInv, CallInv
<1>2. QED BY <1>1 DEF CallFields

(* Only StoreRecord, pruning and damage change the record.                 *)
LEMMA SameRecord == ResolveInv /\ UNCHANGED diskVars /\ UNCHANGED cached => RecordInv'
BY DEF ResolveInv, RecordInv, Fits, diskVars

(* The cache is asked; what it holds is a record whose evidence fits.      *)
LEMMA AskKeeps == ASSUME NEW r \in Resolvers, ResolveInv, ResolveCurrent(r) PROVE ResolveInv'
<1> DEFINE hit == LoadHit(cached)
           sees == IF entry = 0 THEN {} ELSE {files[entry].content}
           n == [NewCall EXCEPT
                   !.at = "walk", !.seen = sees,
                   !.purpose = IF hit THEN "revalidate" ELSE "resolve",
                   !.digest = IF hit THEN cached.digest ELSE NoContent,
                   !.evidence = IF hit THEN cached.evidence ELSE NoEvidence]
<1>1. Step(r, n) /\ UNCHANGED diskVars /\ UNCHANGED cached
  BY DEF ResolveCurrent
<1>2. call'[r] = n
  BY <1>1 DEF Step, ResolveInv
<1>3. hit => cached.kind = "record"
  BY DEF ResolveInv, RecordInv, LoadHit, decodeCacheEnvelope, Matches, ValidateResolution, Damaged
<1>4. /\ DOMAIN n = CallFields /\ n.at = "walk" /\ n.seen = sees /\ n.got = NoContent
      /\ n.purpose = "revalidate" => hit
      /\ hit => n.digest = cached.digest /\ n.evidence = cached.evidence
  <2> HIDE DEF hit, sees
  <2>1. QED BY DEF NewCall, CallFields
<1>5. n.purpose = "revalidate" => Fits(n.evidence, n.digest)
  <2>1. cached.kind = "record" => Fits(cached.evidence, cached.digest)
    BY DEF ResolveInv, RecordInv
  <2> HIDE DEF n, hit
  <2>2. QED BY <1>3, <1>4, <2>1
<1>6. n.purpose = "revalidate" => Fits(call[r].evidence, call[r].digest)'
  <2> HIDE DEF n
  <2>1. QED BY <1>1, <1>2, <1>5 DEF Fits, diskVars
<1>7. entry' # 0 => files'[entry'].content \in n.seen
  <2>1. entry # 0 => files[entry].content \in sees
    OBVIOUS
  <2> HIDE DEF n, sees
  <2>2. QED BY <1>1, <1>4, <2>1 DEF diskVars
<1>8. CallInv(call[r])'
  <2> HIDE DEF n
  <2>1. QED BY <1>2, <1>4, <1>6, <1>7, QuietCall
<1>9. QED
  <2> HIDE DEF n
  <2>1. QED BY <1>1, <1>8, OneCall, SameRecord

(* The path names nothing, or another file than the one observed.          *)
LEMMA UnopenedKeeps ==
  ASSUME ResolveInv, NEW r \in Resolvers, call[r].at \in {"walk", "open", "recheck"},
         Unopened(r), UNCHANGED diskVars, UNCHANGED cached
  PROVE  ResolveInv'
<1>1. CASE call[r].purpose = "revalidate"
  <2>1. Watched(call[r])
    BY <1>1 DEF Watched
  <2>2. QED BY <1>1, <2>1, AgainCall DEF Unopened
<1>2. CASE call[r].purpose # "revalidate"
  BY <1>2, FailedCall DEF Unopened
<1>3. QED BY <1>1, <1>2

(* The path is walked, and the entry observed.                             *)
LEMMA WalkKeeps == ASSUME NEW r \in Resolvers, ResolveInv, WalkPath(r) PROVE ResolveInv'
<1>1. call[r].at = "walk" /\ UNCHANGED diskVars /\ UNCHANGED cached
  BY DEF WalkPath
<1>2. CASE entry = 0
  BY <1>1, <1>2, UnopenedKeeps DEF WalkPath
<1>3. CASE entry # 0
  <2> DEFINE n == [call[r] EXCEPT !.at = "open", !.observed = entry]
  <2>1. Step(r, n)
    BY <1>3 DEF WalkPath
  <2>2. call'[r] = n /\ DOMAIN call[r] = CallFields
    BY <2>1 DEF Step, ResolveInv, CallInv
  <2>3. /\ DOMAIN n = CallFields /\ n.at = "open" /\ n.observed = entry /\ n.seen = call[r].seen
        /\ n.purpose = call[r].purpose /\ n.got = call[r].got /\ n.digest = call[r].digest
        /\ n.evidence = call[r].evidence
    BY <2>2 DEF CallFields
  <2>4. /\ call[r].purpose = "revalidate" => Fits(call[r].evidence, call[r].digest)
        /\ call[r].got # NoContent => call[r].got = call[r].digest
        /\ Watched(call[r]) => files[entry].content \in call[r].seen
    BY <1>3 DEF ResolveInv, CallInv, RecallInv, SeenInv
  <2> HIDE DEF n
  <2>5. Watched(call[r])' => Watched(call[r])
    BY <1>1, <2>2, <2>3 DEF Watched
  <2>6. n.purpose = "revalidate" => Fits(call[r].evidence, call[r].digest)'
    BY <1>1, <2>2, <2>3, <2>4 DEF Fits, diskVars
  <2>7. CallInv(call[r])'
    BY <1>1, <1>3, <2>2, <2>3, <2>4, <2>5, <2>6, QuietCall DEF diskVars
  <2>8. QED BY <1>1, <2>1, <2>7, OneCall, SameRecord
<1>4. QED BY <1>2, <1>3

(* The file is opened: what it holds is what the path holds, and evidence  *)
(* that agrees with the record's proves that this is its digest's content. *)
LEMMA OpenKeeps == ASSUME StrongFS, NEW r \in Resolvers, ResolveInv, OpenFile(r) PROVE ResolveInv'
<1>1. call[r].at = "open" /\ UNCHANGED diskVars /\ UNCHANGED cached
  BY DEF OpenFile
<1>2. CASE entry # call[r].observed
  BY <1>1, <1>2, UnopenedKeeps DEF OpenFile
<1>3. CASE entry = call[r].observed
  <2> DEFINE before == [id |-> entry, change |-> files[entry].change, strong |-> TRUE]
             n == [call[r] EXCEPT !.at = "recheck", !.inode = entry, !.before = before,
                                  !.modified = files[entry].modified]
  <2>1. Step(r, n)
    BY <1>3 DEF OpenFile, nativeContinuityEvidence
  <2>2. call'[r] = n /\ DOMAIN call[r] = CallFields
    BY <2>1 DEF Step, ResolveInv, CallInv
  <2>3. /\ DOMAIN n = CallFields /\ n.at = "recheck" /\ n.inode = entry /\ n.seen = call[r].seen
        /\ n.purpose = call[r].purpose /\ n.got = call[r].got /\ n.digest = call[r].digest
        /\ n.evidence = call[r].evidence /\ n.modified = files[entry].modified /\ n.before = before
    <3> HIDE DEF before
    <3>1. QED BY <2>2 DEF CallFields
  <2>4. entry # 0 /\ entry \in Inodes /\ entry <= edits + 1
    <3>1. entry # 0
      BY <1>1, <1>3 DEF ResolveInv, CallInv, SeenInv
    <3>2. entry \in Nat /\ entry <= edits + 1 /\ entry <= MaxFileEdits + 1
      BY DEF ResolveInv, DiskInv
    <3>3. QED BY <3>1, <3>2, ResolverAssumption DEF Inodes
  <2>5. /\ call[r].purpose = "revalidate" => Fits(call[r].evidence, call[r].digest)
        /\ call[r].got # NoContent => call[r].got = call[r].digest
        /\ Watched(call[r]) => files[entry].content \in call[r].seen
    BY <2>4 DEF ResolveInv, CallInv, RecallInv, SeenInv
  <2>6. before.id = entry /\ before.change = files[entry].change /\ before.strong
        /\ before = [id |-> entry, change |-> before.change, strong |-> TRUE]
        /\ files[entry].change \in Nat /\ files[entry].change <= clock
    BY <2>4 DEF ResolveInv, DiskInv
  <2> HIDE DEF n, before
  <2>7. Watched(call[r]) <=> call[r].purpose # "acquire"
    BY <1>1 DEF Watched
  <2>8. SeenInv(call[r])'
    BY <1>1, <2>2, <2>3, <2>4, <2>5, <2>6, <2>7 DEF SeenInv, Watched, Opened, Copying, diskVars
  <2>9. ReadInv(call[r])'
    BY <2>2, <2>3 DEF ReadInv
  <2>10. call[r].purpose = "revalidate" /\ Continuous(n) => n.digest = files[entry].content
    BY <2>3, <2>4, <2>5, <2>6 DEF Fits, Continuous
  <2>11. Continuous(call[r])' <=> Continuous(n)
    BY <2>2 DEF Continuous
  <2>12. n.purpose = "revalidate" => Fits(call[r].evidence, call[r].digest)'
    BY <1>1, <2>2, <2>3, <2>5 DEF Fits, diskVars
  <2>13. RecallInv(call[r])'
    BY <2>2, <2>3, <2>5, <2>7, <2>10, <2>11, <2>12 DEF RecallInv
  <2>14. CallInv(call[r])'
    BY <2>2, <2>3, <2>8, <2>9, <2>13 DEF CallInv
  <2>15. QED BY <1>1, <2>1, <2>14, OneCall, SameRecord
<1>4. QED BY <1>2, <1>3

(* The entry is observed again.                                            *)
LEMMA RecheckKeeps == ASSUME NEW r \in Resolvers, ResolveInv, RecheckPath(r) PROVE ResolveInv'
<1>1. call[r].at = "recheck" /\ UNCHANGED diskVars /\ UNCHANGED cached
  BY DEF RecheckPath
<1>2. CASE entry # call[r].observed
  BY <1>1, <1>2, UnopenedKeeps DEF RecheckPath
<1>3. CASE entry = call[r].observed
  <2> DEFINE l == CASE call[r].purpose = "revalidate" -> "compare"
                    [] call[r].purpose = "resolve" -> "read1"
                    [] OTHER -> "lookup"
  <2>1. To(r, l)
    BY <1>3 DEF RecheckPath
  <2>2. \/ l = "compare" /\ call[r].purpose = "revalidate"
        \/ l = "read1" /\ call[r].purpose = "resolve"
        \/ l = "lookup" /\ call[r].purpose \notin {"revalidate", "resolve"}
    OBVIOUS
  <2>3. Step(r, [call[r] EXCEPT !.at = l])
    BY <2>1 DEF To
  <2> HIDE DEF l
  <2>4. SeenInv(call[r])' /\ ReadInv(call[r])' /\ RecallInv(call[r])'
    <3>1. SeenInv(call[r]) /\ RecallInv(call[r])
      BY DEF ResolveInv, CallInv
    <3>2. files' = files /\ entry' = entry /\ clock' = clock /\ edits' = edits
      BY <1>1 DEF diskVars
    <3>3. SeenInv(call[r])'
      BY <1>1, <2>1, <2>2, <3>1, <3>2, ToIs DEF SeenInv, Watched, Opened, Copying
    <3>4. ReadInv(call[r])'
      BY <2>1, <2>2, ToIs DEF ReadInv
    <3>5. RecallInv(call[r])'
      BY <1>1, <2>1, <2>2, <3>1, <3>2, ToIs DEF RecallInv, Fits, Continuous, Opened
    <3>6. QED BY <3>3, <3>4, <3>5
  <2>5. CallInv(call[r])'
    BY <2>1, <2>4, ToIs DEF CallInv
  <2>6. QED BY <1>1, <2>3, <2>5, OneCall, SameRecord
<1>4. QED BY <1>2, <1>3

(* A call whose answer is to be stored.                                    *)
LEMMA StoringCall ==
  ASSUME ResolveInv, NEW r \in Resolvers, NEW digest, NEW evidence,
         Step(r, [NewCall EXCEPT !.at = "store", !.seen = call[r].seen, !.digest = digest, !.evidence = evidence]),
         UNCHANGED diskVars, UNCHANGED cached, Watched(call[r]),
         digest \in call[r].seen, Fits(evidence, digest)
  PROVE  ResolveInv'
<1> DEFINE n == [NewCall EXCEPT !.at = "store", !.seen = call[r].seen, !.digest = digest, !.evidence = evidence]
<1>1. call'[r] = n
  BY DEF Step, ResolveInv
<1>2. /\ DOMAIN n = CallFields /\ n.at = "store" /\ n.purpose = "none" /\ n.seen = call[r].seen
      /\ n.digest = digest /\ n.evidence = evidence /\ n.got = NoContent
  BY DEF NewCall, CallFields
<1>3. entry # 0 => files[entry].content \in call[r].seen
  BY DEF ResolveInv, CallInv, SeenInv
<1>4. Step(r, n)
  OBVIOUS
<1> HIDE DEF n
<1>5. files' = files /\ entry' = entry /\ clock' = clock /\ edits' = edits
  BY DEF diskVars
<1>6. SeenInv(call[r])'
  BY <1>1, <1>2, <1>3, <1>5 DEF SeenInv, Opened, Copying
<1>7. ReadInv(call[r])'
  BY <1>1, <1>2 DEF ReadInv, Opened
<1>8. RecallInv(call[r])'
  BY <1>1, <1>2, <1>5 DEF RecallInv, Fits
<1>9. CallInv(call[r])'
  BY <1>1, <1>2, <1>6, <1>7, <1>8 DEF CallInv
<1>10. QED BY <1>4, <1>9, OneCall, SameRecord

(* The record is taken, or the file is read.                               *)
LEMMA RevalidateKeeps == ASSUME NEW r \in Resolvers, ResolveInv, Revalidate(r) PROVE ResolveInv'
<1>1. call[r].at = "compare" /\ UNCHANGED diskVars /\ UNCHANGED cached
  BY DEF Revalidate
<1>2. SeenInv(call[r]) /\ RecallInv(call[r])
  BY DEF ResolveInv, CallInv
<1>3. call[r].purpose = "revalidate" /\ Watched(call[r])
  BY <1>1, <1>2 DEF RecallInv, Watched
<1>4. CASE Continuous(call[r])
  <2>1. call[r].digest \in call[r].seen /\ Fits(call[r].evidence, call[r].digest)
    BY <1>1, <1>2, <1>3, <1>4 DEF RecallInv, Opened
  <2>2. QED BY <1>1, <1>3, <1>4, <2>1, StoringCall DEF Revalidate
<1>5. CASE ~Continuous(call[r])
  BY <1>1, <1>3, <1>5, AgainCall DEF Revalidate
<1>6. QED BY <1>4, <1>5

(* A call that reads the file it opened, or has just read it.              *)
Reading == {"read1", "read2", "read3", "read4", "check1", "check2", "confirm"}

(* A step of the reading: the file, the evidence and what was seen stay.   *)
LEMMA ReadingCall ==
  ASSUME ResolveInv, NEW r \in Resolvers, NEW n, Step(r, n), UNCHANGED diskVars, UNCHANGED cached,
         call[r].at \in Reading, DOMAIN n = CallFields, n.at \in Reading, n.seen = call[r].seen,
         n.purpose = call[r].purpose, n.inode = call[r].inode, n.before = call[r].before,
         n.digest = call[r].digest, n.got = call[r].got, ReadInv(n)
  PROVE  ResolveInv'
<1>1. call'[r] = n
  BY DEF Step, ResolveInv
<1>2. files' = files /\ entry' = entry /\ clock' = clock /\ edits' = edits
  BY DEF diskVars
<1>3. SeenInv(call[r]) /\ RecallInv(call[r])
  BY DEF ResolveInv, CallInv
<1>4. SeenInv(call[r])'
  BY <1>1, <1>2, <1>3 DEF SeenInv, Watched, Opened, Copying, Reading
<1>5. ReadInv(call[r])'
  BY <1>1, <1>2 DEF ReadInv
<1>6. RecallInv(call[r])'
  BY <1>1, <1>3 DEF RecallInv, Reading
<1>7. CallInv(call[r])'
  BY <1>1, <1>4, <1>5, <1>6 DEF CallInv
<1>8. QED BY <1>7, OneCall, SameRecord

(* Half of the file is read: without a change since the file was opened,   *)
(* the two halves are of one content.                                      *)
LEMMA ReadKeeps == ASSUME NEW r \in Resolvers, ResolveInv, ReadHalf(r) PROVE ResolveInv'
<1> DEFINE c == call[r]
           f == files[c.inode]
           half1 == [c EXCEPT !.at = "read2", !.half = f.content[1]]
           whole1 == [c EXCEPT !.at = "check1", !.first = <<c.half, f.content[2]>>]
           half2 == [c EXCEPT !.at = "read4", !.half = f.content[1]]
           whole2 == [c EXCEPT !.at = "check2", !.second = <<c.half, f.content[2]>>]
<1>1. /\ UNCHANGED diskVars /\ UNCHANGED cached
      /\ \/ c.at = "read1" /\ Step(r, half1)
         \/ c.at = "read2" /\ Step(r, whole1)
         \/ c.at = "read3" /\ Step(r, half2)
         \/ c.at = "read4" /\ Step(r, whole2)
  BY DEF ReadHalf
<1>2. DOMAIN c = CallFields /\ SeenInv(c) /\ ReadInv(c)
  BY DEF ResolveInv, CallInv
<1>3. c.at \in {"read1", "read2", "read3", "read4"} => f.content = <<f.content[1], f.content[2]>>
  BY <1>2 DEF ResolveInv, DiskInv, SeenInv, Opened
<1>4. ASSUME c.at = "read1", Step(r, half1) PROVE ResolveInv'
  <2>1. /\ DOMAIN half1 = CallFields /\ half1.at = "read2" /\ half1.half = f.content[1]
        /\ half1.seen = c.seen /\ half1.purpose = c.purpose /\ half1.inode = c.inode
        /\ half1.before = c.before /\ half1.digest = c.digest /\ half1.got = c.got
    <3> HIDE DEF c, f
    <3>1. QED BY <1>2 DEF CallFields
  <2> HIDE DEF half1
  <2>2. ReadInv(half1)
    BY <2>1 DEF ReadInv
  <2>3. half1.at \in Reading /\ call[r].at \in Reading
    BY <1>4, <2>1 DEF Reading
  <2>4. QED BY <1>1, <1>4, <2>1, <2>2, <2>3, ReadingCall
<1>5. ASSUME c.at = "read2", Step(r, whole1) PROVE ResolveInv'
  <2>1. /\ DOMAIN whole1 = CallFields /\ whole1.at = "check1" /\ whole1.first = <<c.half, f.content[2]>>
        /\ whole1.seen = c.seen /\ whole1.purpose = c.purpose /\ whole1.inode = c.inode
        /\ whole1.before = c.before /\ whole1.digest = c.digest /\ whole1.got = c.got
    <3> HIDE DEF c, f
    <3>1. QED BY <1>2 DEF CallFields
  <2>2. f.change = c.before.change => c.half = f.content[1]
    BY <1>2, <1>5 DEF ReadInv, Opened
  <2> HIDE DEF whole1
  <2>3. ReadInv(whole1)
    BY <1>3, <1>5, <2>1, <2>2 DEF ReadInv
  <2>4. whole1.at \in Reading /\ call[r].at \in Reading
    BY <1>5, <2>1 DEF Reading
  <2>5. QED BY <1>1, <1>5, <2>1, <2>3, <2>4, ReadingCall
<1>6. ASSUME c.at = "read3", Step(r, half2) PROVE ResolveInv'
  <2>1. /\ DOMAIN half2 = CallFields /\ half2.at = "read4" /\ half2.first = c.first
        /\ half2.seen = c.seen /\ half2.purpose = c.purpose /\ half2.inode = c.inode
        /\ half2.before = c.before /\ half2.digest = c.digest /\ half2.got = c.got
    <3> HIDE DEF c, f
    <3>1. QED BY <1>2 DEF CallFields
  <2> HIDE DEF half2
  <2>2. ReadInv(half2)
    BY <1>2, <1>6, <2>1 DEF ReadInv, Opened
  <2>3. half2.at \in Reading /\ call[r].at \in Reading
    BY <1>6, <2>1 DEF Reading
  <2>4. QED BY <1>1, <1>6, <2>1, <2>2, <2>3, ReadingCall
<1>7. ASSUME c.at = "read4", Step(r, whole2) PROVE ResolveInv'
  <2>1. /\ DOMAIN whole2 = CallFields /\ whole2.at = "check2" /\ whole2.first = c.first
        /\ whole2.seen = c.seen /\ whole2.purpose = c.purpose /\ whole2.inode = c.inode
        /\ whole2.before = c.before /\ whole2.digest = c.digest /\ whole2.got = c.got
    <3> HIDE DEF c, f
    <3>1. QED BY <1>2 DEF CallFields
  <2> HIDE DEF whole2
  <2>2. ReadInv(whole2)
    BY <1>2, <1>7, <2>1 DEF ReadInv, Opened
  <2>3. whole2.at \in Reading /\ call[r].at \in Reading
    BY <1>7, <2>1 DEF Reading
  <2>4. QED BY <1>1, <1>7, <2>1, <2>2, <2>3, ReadingCall
<1> HIDE DEF half1, whole1, half2, whole2
<1>8. QED BY <1>1, <1>4, <1>5, <1>6, <1>7

(* The metadata is checked after a read.                                   *)
LEMMA DigestKeeps == ASSUME NEW r \in Resolvers, ResolveInv, stableFileDigest(r) PROVE ResolveInv'
<1> DEFINE l == IF call[r].at = "check1" THEN "read3" ELSE "confirm"
<1>1. call[r].at \in {"check1", "check2"} /\ UNCHANGED diskVars /\ UNCHANGED cached
  BY DEF stableFileDigest
<1>2. CASE ResolveFails(r)
  BY <1>1, <1>2, FailedCall
<1>3. CASE To(r, l)
  <2> DEFINE n == [call[r] EXCEPT !.at = l]
  <2>1. DOMAIN call[r] = CallFields /\ ReadInv(call[r])
    BY DEF ResolveInv, CallInv
  <2>2. l \in {"read3", "confirm"}
    OBVIOUS
  <2>3. Step(r, n)
    BY <1>3 DEF To
  <2> HIDE DEF l
  <2>4. /\ DOMAIN n = CallFields /\ n.at = l /\ n.first = call[r].first
        /\ n.seen = call[r].seen /\ n.purpose = call[r].purpose /\ n.inode = call[r].inode
        /\ n.before = call[r].before /\ n.digest = call[r].digest /\ n.got = call[r].got
    BY <2>1 DEF CallFields
  <2> HIDE DEF n
  <2>5. ReadInv(n)
    BY <1>1, <2>1, <2>2, <2>4 DEF ReadInv, Opened
  <2>6. n.at \in Reading /\ call[r].at \in Reading
    BY <1>1, <2>2, <2>4 DEF Reading
  <2>7. QED BY <1>1, <2>3, <2>4, <2>5, <2>6, ReadingCall
<1>4. QED BY <1>2, <1>3 DEF stableFileDigest

(* The evidence after the reads is the evidence before them: what was read *)
(* is the content the file has, and it was seen.                           *)
LEMMA ConfirmKeeps == ASSUME StrongFS, NEW r \in Resolvers, ResolveInv, ConfirmEvidence(r) PROVE ResolveInv'
<1> DEFINE c == call[r]
           f == files[c.inode]
           after == [id |-> c.inode, change |-> f.change, strong |-> TRUE]
           evidence == [id |-> c.inode, change |-> f.change, strong |-> TRUE, modified |-> f.modified]
<1>1. c.at = "confirm" /\ UNCHANGED diskVars /\ UNCHANGED cached
  BY DEF ConfirmEvidence
<1>2. nativeContinuityEvidence(c.inode) = after
  BY DEF nativeContinuityEvidence
<1>3. SeenInv(c) /\ ReadInv(c)
  BY DEF ResolveInv, CallInv
<1>4. /\ c.purpose # "acquire" /\ c.inode \in Inodes
      /\ f.content \in c.seen
      /\ c.before = [id |-> c.inode, change |-> c.before.change, strong |-> TRUE]
  BY <1>1, <1>3 DEF SeenInv, Opened
<1>5. c.before.strong
  BY <1>4
<1>6. CASE c.before # after
  <2>1. ResolveFails(r)
    BY <1>2, <1>5, <1>6 DEF ConfirmEvidence
  <2>2. QED BY <1>1, <2>1, FailedCall
<1>7. CASE c.before = after
  <2>1. Step(r, [NewCall EXCEPT !.at = "store", !.seen = c.seen, !.digest = c.first, !.evidence = evidence])
    BY <1>2, <1>7 DEF ConfirmEvidence
  <2>2. c.before.change = f.change
    BY <1>7
  <2>3. c.first = f.content
    BY <1>1, <1>3, <2>2 DEF ReadInv, Opened
  <2>4. f.change \in Nat /\ f.change <= clock
    BY <1>4 DEF ResolveInv, DiskInv
  <2>5. evidence.change = f.change /\ evidence.id = c.inode
    OBVIOUS
  <2>6. Fits(evidence, c.first)
    <3> HIDE DEF evidence
    <3>1. QED BY <2>3, <2>4, <2>5 DEF Fits
  <2>7. Watched(c) /\ c.first \in c.seen
    BY <1>1, <1>4, <2>3 DEF Watched
  <2> HIDE DEF evidence
  <2>8. QED BY <1>1, <2>1, <2>6, <2>7, StoringCall
<1>8. QED BY <1>6, <1>7

(* A step of an acquisition: the copy and the store are not relied on.     *)
LEMMA CopyingCall ==
  ASSUME ResolveInv, NEW r \in Resolvers, NEW n, Step(r, n), UNCHANGED diskVars, UNCHANGED cached,
         call[r].at \in Copying, DOMAIN n = CallFields, n.at \in Copying, n.seen = call[r].seen,
         n.purpose = call[r].purpose, n.inode = call[r].inode,
         n.digest = call[r].digest, n.got = call[r].got
  PROVE  ResolveInv'
<1>1. call'[r] = n
  BY DEF Step, ResolveInv
<1>2. files' = files /\ entry' = entry /\ clock' = clock /\ edits' = edits
  BY DEF diskVars
<1>3. SeenInv(call[r]) /\ RecallInv(call[r])
  BY DEF ResolveInv, CallInv
<1>4. SeenInv(call[r])'
  BY <1>1, <1>2, <1>3 DEF SeenInv, Watched, Opened, Copying
<1>5. ReadInv(call[r])'
  BY <1>1 DEF ReadInv, Opened, Copying
<1>6. RecallInv(call[r])'
  BY <1>1, <1>3 DEF RecallInv, Copying
<1>7. CallInv(call[r])'
  BY <1>1, <1>4, <1>5, <1>6 DEF CallInv
<1>8. QED BY <1>7, OneCall, SameRecord

(* To another step of the copy.                                            *)
LEMMA CopyingTo ==
  ASSUME ResolveInv, NEW r \in Resolvers, NEW l \in Copying, To(r, l), UNCHANGED diskVars, UNCHANGED cached,
         call[r].at \in Copying
  PROVE  ResolveInv'
<1> DEFINE n == [call[r] EXCEPT !.at = l]
<1>1. Step(r, n) /\ DOMAIN call[r] = CallFields
  BY DEF To, ResolveInv, CallInv
<1>2. /\ DOMAIN n = CallFields /\ n.at = l /\ n.seen = call[r].seen /\ n.purpose = call[r].purpose
      /\ n.inode = call[r].inode /\ n.digest = call[r].digest /\ n.got = call[r].got
  BY <1>1 DEF CallFields
<1> HIDE DEF n
<1>3. QED BY <1>1, <1>2, CopyingCall

(* What is handed out is the digest that was asked for.                    *)
LEMMA AnsweredCall ==
  ASSUME ResolveInv, NEW r \in Resolvers, UNCHANGED diskVars, UNCHANGED cached, NEW digest,
         Step(r, [NewCall EXCEPT !.at = "done", !.digest = digest, !.got = digest])
  PROVE  ResolveInv'
<1> DEFINE n == [NewCall EXCEPT !.at = "done", !.digest = digest, !.got = digest]
<1>1. call'[r] = n
  BY DEF Step, ResolveInv
<1>2. DOMAIN n = CallFields /\ n.at = "done" /\ n.purpose = "none" /\ n.digest = digest /\ n.got = digest
  BY DEF NewCall, CallFields
<1>3. Step(r, n)
  OBVIOUS
<1> HIDE DEF n
<1>4. CallInv(call[r])'
  BY <1>1, <1>2, QuietCall DEF Watched
<1>5. QED BY <1>3, <1>4, OneCall, SameRecord

(* The record is stored: its evidence still fits.                          *)
LEMMA StoreKeeps == ASSUME NEW r \in Resolvers, ResolveInv, StoreRecord(r) PROVE ResolveInv'
<1>1. call[r].at = "store" /\ UNCHANGED diskVars
  BY DEF StoreRecord
<1>2. CASE ResolveFails(r) /\ UNCHANGED cached
  BY <1>1, <1>2, FailedCall
<1>3. CASE /\ cached' = NewCacheRecord(call[r])
           /\ Step(r, [NewCall EXCEPT !.at = "resolved", !.digest = call[r].digest])
  <2> DEFINE n == [NewCall EXCEPT !.at = "resolved", !.digest = call[r].digest]
  <2>1. Step(r, n)
    BY <1>3
  <2>2. call'[r] = n
    BY <2>1 DEF Step, ResolveInv
  <2>3. DOMAIN n = CallFields /\ n.at = "resolved" /\ n.purpose = "none" /\ n.got = NoContent
    BY DEF NewCall, CallFields
  <2> HIDE DEF n
  <2>4. CallInv(call[r])'
    BY <2>2, <2>3, QuietCall DEF Watched
  <2>5. cached'.kind = "record" /\ cached'.digest = call[r].digest /\ cached'.evidence = call[r].evidence
    BY <1>3 DEF NewCacheRecord
  <2>6. Fits(call[r].evidence, call[r].digest)
    BY <1>1 DEF ResolveInv, CallInv, RecallInv
  <2>7. Fits(cached.evidence, cached.digest)'
    BY <1>1, <2>5, <2>6 DEF Fits, diskVars
  <2>8. RecordInv'
    BY <2>5, <2>7 DEF RecordInv
  <2>9. QED BY <1>1, <2>1, <2>4, <2>8, OneCall
<1>4. QED BY <1>2, <1>3 DEF StoreRecord

(* The resolution is returned, or acquired.                                *)
LEMMA AcquireKeeps == ASSUME NEW r \in Resolvers, ResolveInv, Acquire(r) PROVE ResolveInv'
<1>1. call[r].at = "resolved" /\ UNCHANGED diskVars /\ UNCHANGED cached
  BY DEF Acquire
<1>2. CASE To(r, "done")
  <2>1. RecallInv(call[r])
    BY DEF ResolveInv, CallInv
  <2>2. /\ DOMAIN call'[r] = CallFields /\ call'[r].at = "done" /\ call'[r].purpose = call[r].purpose
        /\ call'[r].got = call[r].got /\ call'[r].digest = call[r].digest
    BY <1>2, ToIs
  <2>3. call[r].purpose # "revalidate" /\ (call[r].got # NoContent => call[r].got = call[r].digest)
    BY <1>1, <2>1 DEF RecallInv
  <2>4. CallInv(call[r])'
    BY <2>2, <2>3, QuietCall DEF Watched
  <2>5. Step(r, [call[r] EXCEPT !.at = "done"])
    BY <1>2 DEF To
  <2>6. QED BY <1>1, <2>4, <2>5, OneCall, SameRecord
<1>3. CASE Step(r, [NewCall EXCEPT !.at = "walk", !.purpose = "acquire", !.digest = call[r].digest])
  <2> DEFINE n == [NewCall EXCEPT !.at = "walk", !.purpose = "acquire", !.digest = call[r].digest]
  <2>1. call'[r] = n
    BY <1>3 DEF Step, ResolveInv
  <2>2. DOMAIN n = CallFields /\ n.at = "walk" /\ n.purpose = "acquire" /\ n.got = NoContent
    BY DEF NewCall, CallFields
  <2>3. Step(r, n)
    BY <1>3
  <2> HIDE DEF n
  <2>4. CallInv(call[r])'
    BY <2>1, <2>2, QuietCall DEF Watched
  <2>5. QED BY <1>1, <2>3, <2>4, OneCall, SameRecord
<1>4. QED BY <1>2, <1>3 DEF Acquire

(* The artifact is there, is missing, or does not verify.                  *)
LEMMA LookupKeeps == ASSUME NEW r \in Resolvers, ResolveInv, LookupArtifact(r) PROVE ResolveInv'
<1> DEFINE d == call[r].digest
<1>1. call[r].at \in Copying /\ UNCHANGED diskVars /\ UNCHANGED cached
  BY DEF LookupArtifact, Copying
<1>2. CASE store[d] = d
  <2>1. \/ Step(r, [NewCall EXCEPT !.at = "done", !.digest = d, !.got = store[d]])
        \/ To(r, "copy1")
    BY <1>2 DEF LookupArtifact
  <2>2. "copy1" \in Copying
    BY DEF Copying
  <2>3. QED BY <1>1, <1>2, <2>1, <2>2, AnsweredCall, CopyingTo
<1>3. CASE store[d] # d
  <2>1. To(r, "copy1") \/ To(r, "remove")
    BY <1>3 DEF LookupArtifact
  <2>2. "copy1" \in Copying /\ "remove" \in Copying
    BY DEF Copying
  <2>3. QED BY <1>1, <2>1, <2>2, CopyingTo
<1>4. QED BY <1>2, <1>3

(* The copy of an acquisition.                                             *)
LEMMA CopyKeeps ==
  ASSUME NEW r \in Resolvers, ResolveInv, RemoveArtifact(r) \/ CopyHalf(r) \/ PublishArtifact(r) \/ openVerifiedArtifact(r)
  PROVE  ResolveInv'
<1>1. UNCHANGED diskVars /\ UNCHANGED cached
  BY DEF RemoveArtifact, CopyHalf, PublishArtifact, openVerifiedArtifact
<1>2. call[r].at \in Copying /\ "copy1" \in Copying /\ "verify" \in Copying
  BY DEF RemoveArtifact, CopyHalf, PublishArtifact, openVerifiedArtifact, Copying
<1>3. CASE RemoveArtifact(r)
  BY <1>1, <1>2, <1>3, CopyingTo DEF RemoveArtifact
<1>4. CASE CopyHalf(r)
  <2> DEFINE c == call[r]
             half == [c EXCEPT !.at = "copy2", !.half = files[c.inode].content[1]]
             whole == [c EXCEPT !.at = "publish", !.first = <<c.half, files[c.inode].content[2]>>]
  <2>1. Step(r, half) \/ Step(r, whole)
    BY <1>4 DEF CopyHalf
  <2>2. DOMAIN c = CallFields
    BY DEF ResolveInv, CallInv
  <2>3. /\ DOMAIN half = CallFields /\ half.at = "copy2" /\ half.seen = c.seen /\ half.purpose = c.purpose
        /\ half.inode = c.inode /\ half.digest = c.digest /\ half.got = c.got
    <3> HIDE DEF c
    <3>1. QED BY <2>2 DEF CallFields
  <2>4. /\ DOMAIN whole = CallFields /\ whole.at = "publish" /\ whole.seen = c.seen /\ whole.purpose = c.purpose
        /\ whole.inode = c.inode /\ whole.digest = c.digest /\ whole.got = c.got
    <3> HIDE DEF c
    <3>1. QED BY <2>2 DEF CallFields
  <2>5. half.at \in Copying /\ whole.at \in Copying
    BY DEF Copying
  <2> HIDE DEF half, whole
  <2>6. CASE Step(r, half)
    BY <1>1, <1>2, <2>3, <2>5, <2>6, CopyingCall
  <2>7. CASE Step(r, whole)
    BY <1>1, <1>2, <2>4, <2>5, <2>7, CopyingCall
  <2>8. QED BY <2>1, <2>6, <2>7
<1>5. CASE PublishArtifact(r)
  <2>1. To(r, "verify") \/ ResolveFails(r)
    BY <1>5 DEF PublishArtifact
  <2>2. QED BY <1>1, <1>2, <2>1, CopyingTo, FailedCall
<1>6. CASE openVerifiedArtifact(r)
  <2> DEFINE d == call[r].digest
  <2>1. ResolveFails(r) \/ Step(r, [NewCall EXCEPT !.at = "done", !.digest = d, !.got = d])
    BY <1>6 DEF openVerifiedArtifact
  <2>2. QED BY <1>1, <2>1, FailedCall, AnsweredCall
<1>7. QED BY <1>3, <1>4, <1>5, <1>6

(* A change of the file, with a change time of its own: evidence observed  *)
(* before it no longer fits the file that was changed, and every call that *)
(* watches the path has seen the new content.                              *)
LEMMA ChangeKeeps ==
  ASSUME ResolveInv, NEW i \in Inodes, NEW m, NEW new, new = <<new[1], new[2]>>,
         i = entry \/ i > edits + 1, i <= edits + 2, entry' = i, clock' = clock + 1, edits' = edits + 1,
         files' = [files EXCEPT ![i] = [content |-> new, modified |-> m, change |-> clock + 1]],
         Changed(new), UNCHANGED cached
  PROVE  ResolveInv'
<1>1. DiskInv /\ RecordInv /\ clock \in Nat /\ edits \in Nat /\ DOMAIN files = Inodes
  BY DEF ResolveInv, DiskInv
<1>2. /\ DOMAIN files' = Inodes
      /\ DOMAIN files'[i] = {"content", "modified", "change"}
      /\ files'[i].content = new /\ files'[i].change = clock + 1
      /\ \A j \in Inodes : j # i => files'[j] = files[j]
  BY <1>1
<1>3. i \in Nat /\ i <= MaxFileEdits + 1
  BY ResolverAssumption DEF Inodes
<1>4. DiskInv'
  BY <1>1, <1>2, <1>3 DEF DiskInv
<1>5. \A e, d : Fits(e, d) => Fits(e, d)'
  BY <1>1, <1>2 DEF Fits
<1>6. RecordInv'
  BY <1>1, <1>5 DEF RecordInv
<1>7. DOMAIN call' = Resolvers
  BY DEF Changed
<1>8. ASSUME NEW r \in Resolvers PROVE CallInv(call[r])'
  <2> DEFINE c == call[r]
             n == call'[r]
  <2>1. DOMAIN c = CallFields /\ SeenInv(c) /\ ReadInv(c) /\ RecallInv(c)
    BY DEF ResolveInv, CallInv
  <2>2. n = IF Watched(c) THEN [c EXCEPT !.seen = @ \cup {new}] ELSE c
    BY DEF Changed, Watched
  <2>3. /\ DOMAIN n = CallFields /\ n.at = c.at /\ n.purpose = c.purpose /\ n.observed = c.observed
        /\ n.inode = c.inode /\ n.before = c.before /\ n.modified = c.modified /\ n.first = c.first
        /\ n.half = c.half /\ n.digest = c.digest /\ n.evidence = c.evidence /\ n.got = c.got
    <3> HIDE DEF c, n
    <3>1. QED BY <2>1, <2>2 DEF CallFields
  <2>4. c.seen \subseteq n.seen /\ (Watched(c) => new \in n.seen)
    <3> HIDE DEF c, n
    <3>1. QED BY <2>1, <2>2 DEF CallFields
  <2>5. c.at \in Opened /\ c.purpose # "acquire" =>
          /\ Watched(c) /\ c.inode \in Inodes /\ files[c.inode].content \in c.seen
          /\ c.before.change \in Nat /\ c.before.change <= clock
    BY <2>1 DEF SeenInv, Watched, Opened
  <2>6. n = call'[r]
    OBVIOUS
  <2> HIDE DEF c, n
  <2>7. SeenInv(call[r])'
    <3>1. n.at \in Opened \ {"recheck"} => n.purpose # "acquire"
      BY <2>1, <2>3 DEF SeenInv
    <3>2. Watched(n) => files'[entry'].content \in n.seen
      BY <1>2, <2>3, <2>4 DEF Watched
    <3>3. n.at \in Opened \cup Copying => n.inode \in Inodes /\ n.inode <= edits' + 1
      BY <1>1, <2>1, <2>3, ResolverAssumption DEF SeenInv, Inodes
    <3>4. n.at = "open" => n.observed # 0
      BY <2>1, <2>3 DEF SeenInv
    <3>5. n.at \in Opened /\ n.purpose # "acquire" => files'[n.inode].content \in n.seen
      BY <1>2, <2>3, <2>4, <2>5
    <3>6. n.at \in Opened /\ n.purpose # "acquire" =>
            /\ n.before = [id |-> n.inode, change |-> n.before.change, strong |-> TRUE]
            /\ n.before.change \in Nat /\ n.before.change <= clock'
      BY <1>1, <2>1, <2>3, <2>5 DEF SeenInv
    <3>7. QED BY <2>6, <3>1, <3>2, <3>3, <3>4, <3>5, <3>6 DEF SeenInv, Watched
  <2>8. ReadInv(call[r])'
    <3>1. c.at \in Opened /\ c.at # "recheck" /\ c.inode = i => files'[c.inode].change # c.before.change
      BY <1>1, <1>2, <2>1, <2>5 DEF SeenInv
    <3>2. c.at \in Opened /\ c.at # "recheck" /\ c.inode # i => files'[c.inode] = files[c.inode]
      BY <1>2, <2>1 DEF SeenInv
    <3>3. QED BY <2>1, <2>3, <2>6, <3>1, <3>2 DEF ReadInv, Opened
  <2>9. RecallInv(call[r])'
    <3>1. Continuous(n) <=> Continuous(c)
      BY <2>3 DEF Continuous
    <3>2. QED BY <1>5, <2>1, <2>3, <2>4, <2>6, <3>1 DEF RecallInv, Continuous
  <2>10. QED BY <2>3, <2>6, <2>7, <2>8, <2>9 DEF CallInv
<1>9. QED BY <1>4, <1>6, <1>7, <1>8 DEF ResolveInv

(* Half of the file is edited, and keeps or moves its modification time.   *)
LEMMA EditKeeps ==
  ASSUME FineStamps, ResolveInv, NEW k \in 1..2, NEW h \in Halves, EditHalf(k, h)
  PROVE  ResolveInv'
<1> DEFINE old == files[entry].content
           new == [old EXCEPT ![k] = h]
<1>1. PICK m \in {clock + 1, files[entry].modified} :
        /\ clock' = clock + 1
        /\ files' = [files EXCEPT ![entry] = [content |-> new, modified |-> m, change |-> clock + 1]]
  BY DEF EditHalf, Stamp
<1>2. entry # 0 /\ entry' = entry /\ edits' = edits + 1 /\ UNCHANGED cached
  BY DEF EditHalf
<1>3. entry \in Inodes /\ entry <= edits + 2
  BY <1>2, ResolverAssumption DEF ResolveInv, DiskInv, Inodes
<1>4. old = <<old[1], old[2]>>
  BY <1>3 DEF ResolveInv, DiskInv
<1>5. new = <<new[1], new[2]>>
  <2> HIDE DEF old
  <2>1. QED BY <1>4
<1>6. files'[entry].content = new
  <2>1. DOMAIN files = Inodes
    BY DEF ResolveInv, DiskInv
  <2> HIDE DEF new
  <2>2. QED BY <1>1, <1>3, <2>1
<1>7. Changed(new)
  BY <1>6 DEF EditHalf
<1> HIDE DEF new
<1>8. QED BY <1>1, <1>2, <1>3, <1>5, <1>7, ChangeKeeps

(* Another file takes the path's place.                                    *)
LEMMA ReplaceKeeps == ASSUME ResolveInv, NEW new \in Replacements, ReplaceFile(new) PROVE ResolveInv'
<1> DEFINE i == edits + 2
<1>1. /\ entry' = i /\ clock' = clock + 1 /\ edits' = edits + 1 /\ Changed(new) /\ UNCHANGED cached
      /\ files' = [files EXCEPT ![i] = [content |-> new, modified |-> clock + 1, change |-> clock + 1]]
  BY DEF ReplaceFile
<1>2. i \in Inodes /\ i > edits + 1 /\ i <= edits + 2
  BY ResolverAssumption DEF ResolveInv, DiskInv, ReplaceFile, Inodes
<1>3. new = <<new[1], new[2]>>
  BY ResolverAssumption
<1> HIDE DEF i
<1>4. QED BY <1>1, <1>2, <1>3, ChangeKeeps

(* The path names nothing any more; an open file is still read.            *)
LEMMA RemoveKeeps == ResolveInv /\ RemoveFile => ResolveInv'
<1> SUFFICES ASSUME ResolveInv, RemoveFile PROVE ResolveInv'
  OBVIOUS
<1>1. files' = files /\ entry' = 0 /\ clock' = clock /\ edits' = edits + 1 /\ cached' = cached /\ call' = call
  BY DEF RemoveFile
<1>2. DiskInv'
  BY <1>1, ResolverAssumption DEF ResolveInv, DiskInv
<1>3. RecordInv'
  BY <1>1 DEF ResolveInv, RecordInv, Fits
<1>4. ASSUME NEW r \in Resolvers PROVE CallInv(call[r])'
  <2>1. CallInv(call[r]) /\ edits \in Nat
    BY DEF ResolveInv, DiskInv
  <2>2. SeenInv(call[r])'
    BY <1>1, <2>1, ResolverAssumption DEF CallInv, SeenInv, Inodes, Watched
  <2>3. ReadInv(call[r])' /\ RecallInv(call[r])'
    BY <1>1, <2>1 DEF CallInv, ReadInv, RecallInv, Fits, Continuous
  <2>4. QED BY <1>1, <2>1, <2>2, <2>3 DEF CallInv
<1>5. QED BY <1>1, <1>2, <1>3, <1>4 DEF ResolveInv

(* The record is pruned or damaged: it is not relied on any more.          *)
LEMMA RecordLost ==
  ASSUME ResolveInv, UNCHANGED diskVars, UNCHANGED call, cached'.kind \in {"none"} \cup Damaged
  PROVE  ResolveInv'
<1>1. files' = files /\ entry' = entry /\ clock' = clock /\ edits' = edits /\ call' = call
  BY DEF diskVars
<1>2. DiskInv'
  BY <1>1 DEF ResolveInv, DiskInv
<1>3. RecordInv'
  BY DEF RecordInv, Damaged
<1>4. \A r \in Resolvers : CallInv(call[r])'
  BY <1>1 DEF ResolveInv, CallInv, SeenInv, ReadInv, RecallInv, Fits, Continuous, Watched
<1>5. QED BY <1>1, <1>2, <1>3, <1>4 DEF ResolveInv

(* Nothing that the invariant speaks of changes.                           *)
LEMMA ResolveSame ==
  ASSUME ResolveInv, UNCHANGED diskVars, UNCHANGED call, UNCHANGED cached
  PROVE  ResolveInv'
<1>1. files' = files /\ entry' = entry /\ clock' = clock /\ edits' = edits /\ call' = call
  BY DEF diskVars
<1>2. DiskInv' /\ RecordInv'
  BY <1>1 DEF ResolveInv, DiskInv, RecordInv, Fits
<1>3. \A r \in Resolvers : CallInv(call[r])'
  BY <1>1 DEF ResolveInv, CallInv, SeenInv, ReadInv, RecallInv, Fits, Continuous, Watched
<1>4. QED BY <1>1, <1>2, <1>3 DEF ResolveInv

(* Every step of the resolvers, of the user and of the disk.               *)
LEMMA ResolveInvStep == StrongFS /\ FineStamps /\ ResolveInv /\ [ResolverNext]_resolverVars => ResolveInv'
<1> SUFFICES ASSUME StrongFS, FineStamps, ResolveInv, [ResolverNext]_resolverVars PROVE ResolveInv'
  OBVIOUS
<1>1. ASSUME NEW r \in Resolvers, ResolveCurrent(r) \/ WalkPath(r) \/ OpenFile(r) \/ RecheckPath(r) PROVE ResolveInv'
  BY <1>1, AskKeeps, WalkKeeps, OpenKeeps, RecheckKeeps
<1>2. ASSUME NEW r \in Resolvers, Revalidate(r) \/ ReadHalf(r) \/ stableFileDigest(r) \/ ConfirmEvidence(r)
      PROVE  ResolveInv'
  BY <1>2, RevalidateKeeps, ReadKeeps, DigestKeeps, ConfirmKeeps
<1>3. ASSUME NEW r \in Resolvers, StoreRecord(r) \/ Acquire(r) \/ LookupArtifact(r) PROVE ResolveInv'
  BY <1>3, StoreKeeps, AcquireKeeps, LookupKeeps
<1>4. ASSUME NEW r \in Resolvers,
             RemoveArtifact(r) \/ CopyHalf(r) \/ PublishArtifact(r) \/ openVerifiedArtifact(r)
      PROVE  ResolveInv'
  BY <1>4, CopyKeeps
<1>5. ASSUME NEW k \in 1..2, NEW h \in Halves, EditHalf(k, h) PROVE ResolveInv'
  BY <1>5, EditKeeps
<1>6. ASSUME NEW new \in Replacements, ReplaceFile(new) PROVE ResolveInv'
  BY <1>6, ReplaceKeeps
<1>7. ASSUME NEW d \in Digests, DamageArtifact(d) PROVE ResolveInv'
  BY <1>7, ResolveSame DEF DamageArtifact
<1>8. CASE RemoveFile
  BY <1>8, RemoveKeeps
<1>9. CASE Prune
  <2>1. cached'.kind = "none" /\ UNCHANGED diskVars /\ UNCHANGED call
    BY <1>9 DEF Prune, NoRecord
  <2>2. QED BY <2>1, RecordLost
<1>10. CASE DamageRecord
  <2>1. cached'.kind \in Damaged /\ UNCHANGED diskVars /\ UNCHANGED call
    BY <1>10 DEF DamageRecord
  <2>2. QED BY <2>1, RecordLost
<1>11. CASE ResolversRest \/ UNCHANGED resolverVars
  <2>1. UNCHANGED diskVars /\ UNCHANGED call /\ UNCHANGED cached
    BY <1>11 DEF ResolversRest, resolverVars, diskVars
  <2>2. QED BY <2>1, ResolveSame
<1>12. QED BY <1>1, <1>2, <1>3, <1>4, <1>5, <1>6, <1>7, <1>8, <1>9, <1>10, <1>11 DEF ResolverNext

(* ResolvedIsSeen, EvidenceFits and AcquiredIsResolved of every execution, *)
(* for any number of processes, edits and damages, where the file system   *)
(* gives a change time and a file id and no two changes share a time: a    *)
(* cached digest is that of the file it is returned for (resolver).        *)
THEOREM ResolutionsAreSafe == StrongFS /\ FineStamps => (Spec => []ResolverSafe)
<1> SUFFICES ASSUME StrongFS, FineStamps PROVE Spec => []ResolverSafe
  OBVIOUS
<1>1. ResolveInv => ResolverSafe
  <2> SUFFICES ASSUME ResolveInv PROVE ResolverSafe
    OBVIOUS
  <2>1. ResolvedIsSeen /\ AcquiredIsResolved
    BY DEF ResolveInv, CallInv, RecallInv, ResolvedIsSeen, AcquiredIsResolved
  <2>2. EvidenceFits
    BY DEF ResolveInv, RecordInv, Fits, EvidenceFits
  <2>3. QED BY <2>1, <2>2 DEF ResolverSafe
<1>2. ResolveInv /\ [ResolverNext]_resolverVars => ResolveInv'
  BY ResolveInvStep
<1>3. QED BY <1>1, <1>2, StoresInit, StoresStep, ResolveInvInit, PTL DEF Spec

-----------------------------------------------------------------------------
(* LineageStore.  The rows of a listing as a sequence: in order, no other  *)
(* row, and none left out.                                                 *)
Enumerates(kind, q, n, S) ==
  /\ n \in Nat /\ q \in [1..n -> S]
  /\ \A i, j \in 1..n : i < j => Precedes(kind, q[i], q[j])
  /\ \A x \in S : \E i \in 1..n : q[i] = x

(* A set of naturals that is not empty has a least element.                *)
LEMMA NatMin ==
  ASSUME NEW T, T \subseteq Nat, T # {}
  PROVE  \E x \in T : \A y \in T : x <= y
<1> DEFINE R == OpToRel(<, Nat)
<1>1. IsWellFoundedOn(R, Nat)
  BY NatLessThanWellFounded
<1>2. PICK x \in T : \A y \in T : ~(<<y, x>> \in R)
  <2> HIDE DEF R
  <2>1. QED BY <1>1, WFMin
<1>3. ASSUME NEW y \in T PROVE x <= y
  <2>1. <<y, x>> \notin R
    BY <1>2
  <2>2. ~(y < x)
    BY <2>1 DEF OpToRel
  <2>3. QED BY <2>2
<1>4. QED BY <1>3
(* Rows can be put in order: the next row goes to the end of an ascending  *)
(* listing, and to the beginning of a descending one.                      *)
LEMMA EnumerationExists ==
  ASSUME NEW kind, NEW S, S \subseteq Nat \ {0}, NEW m \in Nat
  PROVE  \E n, q : Enumerates(kind, q, n, S \cap (1..m))
<1> DEFINE P(k) == \E n, q : Enumerates(kind, q, n, S \cap (1..k))
           bad == {k \in Nat : ~P(k)}
<1>1. P(0)
  <2>1. S \cap (1..0) = {}
    OBVIOUS
  <2>2. Enumerates(kind, <<>>, 0, {})
    BY DEF Enumerates
  <2>3. QED BY <2>1, <2>2
<1>2. ASSUME NEW k \in Nat, P(k) PROVE P(k + 1)
  <2> DEFINE A == S \cap (1..k)
             B == S \cap (1..(k + 1))
  <2>1. PICK n, q : Enumerates(kind, q, n, A)
    BY <1>2
  <2>2. CASE k + 1 \notin S
    <3>1. A = B
      BY <2>2
    <3>2. QED BY <2>1, <3>1
  <2>3. CASE k + 1 \in S
    <3>1. B = A \cup {k + 1} /\ \A x \in A : x \in Nat /\ x < k + 1
      BY <2>3
    <3> HIDE DEF A, B
    <3>2. CASE kind = "provenance"
      <4> DEFINE r == [i \in 1..(n + 1) |-> IF i = n + 1 THEN k + 1 ELSE q[i]]
      <4>1. n \in Nat /\ r \in [1..(n + 1) -> B]
        BY <2>1, <3>1 DEF Enumerates
      <4>2. ASSUME NEW i \in 1..(n + 1), NEW j \in 1..(n + 1), i < j PROVE Precedes(kind, r[i], r[j])
        BY <2>1, <3>1, <3>2, <4>1, <4>2 DEF Enumerates, Precedes
      <4>3. ASSUME NEW x \in B PROVE \E i \in 1..(n + 1) : r[i] = x
        <5>1. CASE x = k + 1
          BY <4>1, <5>1
        <5>2. CASE x \in A
          <6>1. PICK i \in 1..n : q[i] = x
            BY <2>1, <5>2 DEF Enumerates
          <6>2. i \in 1..(n + 1) /\ r[i] = x
            BY <4>1, <6>1
          <6>3. QED BY <6>2
        <5>3. QED BY <3>1, <5>1, <5>2
      <4>4. Enumerates(kind, r, n + 1, B)
        <5> HIDE DEF r
        <5>1. QED BY <4>1, <4>2, <4>3 DEF Enumerates
      <4>5. QED BY <4>4 DEF B
    <3>3. CASE kind # "provenance"
      <4> DEFINE r == [i \in 1..(n + 1) |-> IF i = 1 THEN k + 1 ELSE q[i - 1]]
      <4>1. n \in Nat /\ r \in [1..(n + 1) -> B]
        BY <2>1, <3>1 DEF Enumerates
      <4>2. ASSUME NEW i \in 1..(n + 1), NEW j \in 1..(n + 1), i < j PROVE Precedes(kind, r[i], r[j])
        <5>1. j # 1 /\ j - 1 \in 1..n /\ r[j] = q[j - 1] /\ q[j - 1] \in A
          BY <2>1, <4>1, <4>2 DEF Enumerates
        <5>2. CASE i = 1
          BY <3>1, <3>3, <5>1, <5>2 DEF Precedes
        <5>3. CASE i # 1
          <6>1. i - 1 \in 1..n /\ r[i] = q[i - 1] /\ i - 1 < j - 1
            BY <4>1, <4>2, <5>3
          <6>2. QED BY <2>1, <5>1, <6>1 DEF Enumerates
        <5>4. QED BY <5>2, <5>3
      <4>3. ASSUME NEW x \in B PROVE \E i \in 1..(n + 1) : r[i] = x
        <5>1. CASE x = k + 1
          BY <4>1, <5>1
        <5>2. CASE x \in A
          <6>1. PICK i \in 1..n : q[i] = x
            BY <2>1, <5>2 DEF Enumerates
          <6>2. i + 1 \in 1..(n + 1) /\ r[i + 1] = x
            BY <4>1, <6>1
          <6>3. QED BY <6>2
        <5>3. QED BY <3>1, <5>1, <5>2
      <4>4. Enumerates(kind, r, n + 1, B)
        <5> HIDE DEF r
        <5>1. QED BY <4>1, <4>2, <4>3 DEF Enumerates
      <4>5. QED BY <4>4 DEF B
    <3>4. QED BY <3>2, <3>3
  <2>4. QED BY <2>2, <2>3
<1>3. bad = {}
  <2>1. SUFFICES ASSUME bad # {} PROVE FALSE
    OBVIOUS
  <2>2. PICK k \in bad : \A y \in bad : k <= y
    <3>1. bad \subseteq Nat
      OBVIOUS
    <3> HIDE DEF bad
    <3>2. QED BY <2>1, <3>1, NatMin
  <2>3. k \in Nat /\ k # 0
    BY <1>1
  <2>4. k - 1 \in Nat /\ k - 1 \notin bad
    BY <2>2, <2>3
  <2>5. P(k - 1)
    BY <2>4
  <2> HIDE DEF P
  <2>6. P((k - 1) + 1)
    BY <1>2, <2>4, <2>5
  <2>7. (k - 1) + 1 = k
    BY <2>3
  <2>8. QED BY <2>2, <2>6, <2>7
<1>4. QED BY <1>3

(* There is one way to put rows in order.                                  *)
LEMMA EnumerationUnique ==
  ASSUME NEW kind, NEW S, S \subseteq Nat, NEW n, NEW q, NEW m, NEW p,
         Enumerates(kind, q, n, S), Enumerates(kind, p, m, S)
  PROVE  n = m /\ q = p
<1>1. /\ n \in Nat /\ m \in Nat /\ q \in [1..n -> S] /\ p \in [1..m -> S]
      /\ \A i \in 1..n : q[i] \in Nat
      /\ \A i \in 1..m : p[i] \in Nat
  BY DEF Enumerates
<1>order. /\ \A i, j \in 1..n : i < j => Precedes(kind, q[i], q[j])
      /\ \A i, j \in 1..m : i < j => Precedes(kind, p[i], p[j])
  BY DEF Enumerates
<1>strict. \A x, y \in Nat : Precedes(kind, x, y) => x # y /\ ~Precedes(kind, y, x)
  BY DEF Precedes
<1> DEFINE bad == {i \in Nat : i \in 1..n /\ i \in 1..m /\ q[i] # p[i]}
<1>2. bad = {}
  <2>1. SUFFICES ASSUME bad # {} PROVE FALSE
    OBVIOUS
  <2>2. PICK k \in bad : \A y \in bad : k <= y
    <3>1. bad \subseteq Nat
      OBVIOUS
    <3> HIDE DEF bad
    <3>2. QED BY <2>1, <3>1, NatMin
  <2>3. k \in 1..n /\ k \in 1..m /\ q[k] # p[k]
    BY <2>2
  <2>4. \A i \in 1..n : i < k => i \in 1..m /\ q[i] = p[i]
    BY <1>1, <2>2, <2>3
  <2> HIDE DEF bad
  <2>5. PICK j \in 1..m : p[j] = q[k]
    BY <1>1, <2>3 DEF Enumerates
  <2>6. PICK i \in 1..n : q[i] = p[k]
    BY <1>1, <2>3 DEF Enumerates
  <2>7. j > k /\ i > k
    <3>1. j # k /\ i # k
      BY <2>3, <2>5, <2>6
    <3>2. ~(j < k)
      <4>1. SUFFICES ASSUME j < k PROVE FALSE
        OBVIOUS
      <4>2. j \in 1..n /\ q[j] = q[k]
        BY <1>1, <2>3, <2>4, <2>5, <4>1
      <4>3. QED BY <1>1, <1>order, <1>strict, <2>3, <4>1, <4>2
    <3>3. ~(i < k)
      <4>1. SUFFICES ASSUME i < k PROVE FALSE
        OBVIOUS
      <4>2. i \in 1..m /\ p[i] = p[k]
        BY <1>1, <2>3, <2>4, <2>6, <4>1
      <4>3. QED BY <1>1, <1>order, <1>strict, <2>3, <4>1, <4>2
    <3>4. i \in Nat /\ j \in Nat /\ k \in Nat
      BY <1>1, <2>3
    <3>5. QED BY <3>1, <3>2, <3>3, <3>4
  <2>8. Precedes(kind, p[k], q[k]) /\ Precedes(kind, q[k], p[k])
    BY <1>order, <2>3, <2>5, <2>6, <2>7
  <2>9. QED BY <1>1, <1>strict, <2>3, <2>8
<1>3. ASSUME NEW i \in 1..n, i \in 1..m PROVE q[i] = p[i]
  <2>1. i \in Nat /\ i \notin bad
    <3>1. i \in Nat
      BY <1>1
    <3> HIDE DEF bad
    <3>2. QED BY <1>2, <3>1
  <2>2. QED BY <1>3, <2>1
<1>4. ~(n < m)
  <2>1. SUFFICES ASSUME n < m PROVE FALSE
    OBVIOUS
  <2>2. PICK i \in 1..n : q[i] = p[n + 1]
    <3>1. p[n + 1] \in S
      BY <1>1, <2>1
    <3>2. QED BY <3>1 DEF Enumerates
  <2>3. p[i] = p[n + 1] /\ i \in 1..m /\ n + 1 \in 1..m /\ i < n + 1
    BY <1>1, <1>3, <2>1, <2>2
  <2>4. QED BY <1>1, <1>order, <1>strict, <2>3
<1>5. ~(m < n)
  <2>1. SUFFICES ASSUME m < n PROVE FALSE
    OBVIOUS
  <2>2. PICK i \in 1..m : p[i] = q[m + 1]
    <3>1. q[m + 1] \in S
      BY <1>1, <2>1
    <3>2. QED BY <3>1 DEF Enumerates
  <2>3. q[i] = q[m + 1] /\ i \in 1..n /\ m + 1 \in 1..n /\ i < m + 1
    BY <1>1, <1>3, <2>1, <2>2
  <2>4. QED BY <1>1, <1>order, <1>strict, <2>3
<1>6. n = m
  BY <1>1, <1>4, <1>5
<1>7. QED BY <1>1, <1>3, <1>6

(* InOrder puts rows in order.                                             *)
LEMMA InOrderIs ==
  ASSUME NEW kind, NEW m \in Nat, NEW S, S \subseteq 1..m
  PROVE  Enumerates(kind, InOrder(kind, S), Cardinality(S), S)
<1> DEFINE c == Cardinality(S)
           ordered(q) == \A i, j \in DOMAIN q : i < j => Precedes(kind, q[i], q[j])
           r == InOrder(kind, S)
<1>1. S \cap (1..m) = S /\ S \subseteq Nat \ {0} /\ S \subseteq Nat /\ IsFiniteSet(S)
  <2>1. IsFiniteSet(1..m) /\ S \in SUBSET (1..m)
    BY FS_Interval
  <2>2. IsFiniteSet(S)
    BY <2>1, FS_Subset
  <2>3. \A x \in S : x \in Nat /\ x # 0
    OBVIOUS
  <2>4. QED BY <2>2, <2>3
<1>2. PICK n, q : Enumerates(kind, q, n, S)
  <2>1. \E n, q : Enumerates(kind, q, n, S \cap (1..m))
    BY <1>1, EnumerationExists
  <2>2. QED BY <1>1, <2>1
<1>3. n \in Nat /\ q \in [1..n -> S] /\ IsFiniteSet(1..n) /\ Cardinality(1..n) = n
  BY <1>2, FS_Interval DEF Enumerates
<1>4. q \in Bijection(1..n, S)
  <2>1. q \in Surjection(1..n, S)
    BY <1>2 DEF Enumerates, Surjection
  <2>2. ASSUME NEW i \in 1..n, NEW j \in 1..n, q[i] = q[j] PROVE i = j
    <3>1. q[i] \in Nat /\ ~(i < j) /\ ~(j < i)
      BY <1>1, <1>2, <1>3, <2>2 DEF Enumerates, Precedes
    <3>2. QED BY <3>1
  <2>3. QED BY <1>3, <2>1, <2>2 DEF Bijection, Injection, IsInjective
<1>5. n = c
  <2>1. ExistsBijection(1..n, S)
    BY <1>4 DEF ExistsBijection
  <2>2. QED BY <1>3, <2>1, FS_Bijection
<1>6. q \in [1..c -> S] /\ ordered(q)
  BY <1>2, <1>3, <1>5 DEF Enumerates
<1>7. r \in [1..c -> S] /\ ordered(r)
  <2>1. \E x \in [1..c -> S] : ordered(x)
    BY <1>6
  <2>2. r = CHOOSE x \in [1..c -> S] : ordered(x)
    BY DEF InOrder
  <2> HIDE DEF ordered, c, r
  <2>3. QED BY <2>1, <2>2
<1>8. c \in Nat /\ IsFiniteSet(1..c) /\ Cardinality(1..c) = c
  BY <1>3, <1>5
<1>9. r \in Injection(1..c, S)
  <2>1. ASSUME NEW i \in 1..c, NEW j \in 1..c, r[i] = r[j] PROVE i = j
    <3>1. r[i] \in Nat /\ ~(i < j) /\ ~(j < i)
      BY <1>1, <1>7, <2>1 DEF Precedes
    <3>2. QED BY <1>8, <3>1
  <2> HIDE DEF r, c
  <2>2. QED BY <1>7, <2>1 DEF Injection, IsInjective
<1>10. r \in Surjection(1..c, S)
  <2> HIDE DEF r
  <2>1. QED BY <1>1, <1>8, <1>9, FS_Injection
<1>11. QED
  <2> HIDE DEF r
  <2>1. \A x \in S : \E i \in 1..c : r[i] = x
    BY <1>10 DEF Surjection
  <2>2. r \in [1..c -> S] /\ DOMAIN r = 1..c
    BY <1>7
  <2>3. \A i, j \in 1..c : i < j => Precedes(kind, r[i], r[j])
    BY <1>7, <2>2
  <2> HIDE DEF c
  <2>4. Enumerates(kind, r, c, S)
    BY <1>8, <2>1, <2>2, <2>3 DEF Enumerates
  <2>5. QED BY <2>4 DEF r, c

(* The bytes of no row, and of one.                                        *)
LEMMA NoBytes == ASSUME NEW sizes, Len(sizes) = 0 PROVE TotalBytes(sizes) = 0
<1> DEFINE body(f) == [n \in 0..0 |-> IF n = 0 THEN 0 ELSE f[n - 1] + sizes[n]]
           total == CHOOSE f : f = body(f)
           none == [n \in 0..0 |-> 0]
<1>1. none = body(none)
  OBVIOUS
<1>2. total = body(total)
  <2> HIDE DEF body, none
  <2>1. QED BY <1>1
<1>3. total[0] = 0
  <2> HIDE DEF total
  <2>1. QED BY <1>2
<1>4. TotalBytes(sizes) = total[0]
  BY DEF TotalBytes
<1>5. QED BY <1>3, <1>4

(* One row is as large as it says.                                         *)
LEMMA OneBytes == ASSUME NEW sizes, Len(sizes) = 1, sizes[1] \in Nat PROVE TotalBytes(sizes) = sizes[1]
<1> DEFINE body(f) == [n \in 0..1 |-> IF n = 0 THEN 0 ELSE f[n - 1] + sizes[n]]
           total == CHOOSE f : f = body(f)
           one == [n \in 0..1 |-> IF n = 0 THEN 0 ELSE sizes[1]]
<1>1. one = body(one)
  OBVIOUS
<1>2. total = body(total)
  <2> HIDE DEF body, one
  <2>1. QED BY <1>1
<1>3. total[1] = sizes[1]
  <2> HIDE DEF total
  <2>1. QED BY <1>2
<1>4. TotalBytes(sizes) = total[1]
  BY DEF TotalBytes
<1>5. QED BY <1>3, <1>4

(* A set of naturals with a bound has a greatest element.                  *)
LEMMA MaxIs ==
  ASSUME NEW n \in Nat, NEW T, T \subseteq 0..n, T # {}
  PROVE  Max(T) \in T /\ \A y \in T : y <= Max(T)
<1> DEFINE D == {k \in Nat : n - k \in T}
<1>1. D # {}
  <2>1. PICK x \in T : x \in 0..n
    OBVIOUS
  <2>2. n - x \in Nat /\ n - (n - x) = x
    BY <2>1
  <2>3. QED BY <2>1, <2>2
<1>2. PICK k \in D : \A y \in D : k <= y
  <2>1. D \subseteq Nat
    OBVIOUS
  <2> HIDE DEF D
  <2>2. QED BY <1>1, <2>1, NatMin
<1>3. n - k \in T /\ k \in Nat
  BY <1>2
<1>4. ASSUME NEW y \in T PROVE n - k >= y
  <2>1. y \in 0..n
    OBVIOUS
  <2>2. n - y \in Nat /\ n - (n - y) = y
    BY <2>1
  <2>3. n - y \in D
    BY <2>2
  <2>4. k <= n - y
    BY <1>2, <2>3
  <2>5. QED BY <1>3, <2>1, <2>4
<1>5. \E x \in T : \A y \in T : x >= y
  BY <1>3, <1>4
<1>6. Max(T) \in T /\ \A y \in T : Max(T) >= y
  BY <1>5 DEF Max
<1>7. QED BY <1>6

(* A page is the first rows there are, and has one when there is one.      *)
LEMMA PageIs ==
  ASSUME NEW l, NEW c \in Nat, NEW rows, rows \in Seq(Nat), Len(rows) = c, Candidates(l) = rows,
         \A i \in 1..c : LET table == IF l.kind = "provenance" THEN obs ELSE mats
                         IN table[rows[i]].witness \in 0..MaxPageBytes
  PROVE  \E m \in 0..c : Page(l) = SubSeq(rows, 1, m) /\ (c # 0 => m # 0)
<1> DEFINE table == IF l.kind = "provenance" THEN obs ELSE mats
           most == Min({c, PageLimit})
           fits == {n \in 0..most : Bytes(table, SubSeq(rows, 1, n)) <= MaxPageBytes}
<1>1. Page(l) = SubSeq(rows, 1, Max(fits))
  BY DEF Page
<1>2. most \in Nat /\ most <= c /\ (c # 0 => most # 0)
  <2>1. PageLimit \in Nat /\ PageLimit # 0
    BY LineageAssumption
  <2>2. most \in {c, PageLimit} /\ \A y \in {c, PageLimit} : most <= y
    <3>1. \E x \in {c, PageLimit} : \A y \in {c, PageLimit} : x <= y
      BY <2>1
    <3>2. QED BY <3>1 DEF Min
  <2>3. QED BY <2>1, <2>2
<1> HIDE DEF most
<1>3. 0 \in fits
  <2> DEFINE none == SubSeq(rows, 1, 0)
             sizes == [i \in DOMAIN none |-> table[none[i]].witness]
  <2>1. DOMAIN none = {} /\ DOMAIN sizes = {}
    OBVIOUS
  <2>2. Len(sizes) = 0
    <3>1. sizes = <<>>
      BY <2>1
    <3>2. QED BY <3>1
  <2> HIDE DEF sizes
  <2>3. Bytes(table, none) = 0
    BY <2>2, NoBytes DEF Bytes, sizes
  <2>4. 0 <= MaxPageBytes
    BY LineageAssumption
  <2>5. QED BY <1>2, <2>3, <2>4
<1>4. c # 0 => 1 \in fits
  <2> SUFFICES ASSUME c # 0 PROVE 1 \in fits
    OBVIOUS
  <2> DEFINE one == SubSeq(rows, 1, 1)
             sizes == [i \in DOMAIN one |-> table[one[i]].witness]
  <2>1. one \in Seq(Nat) /\ Len(one) = 1 /\ one[1] = rows[1] /\ DOMAIN one = 1..1
    OBVIOUS
  <2>2. sizes[1] = table[rows[1]].witness
    BY <2>1
  <2>3. sizes[1] \in 0..MaxPageBytes
    BY <2>2
  <2>4. Len(sizes) = 1
    <3> HIDE DEF table
    <3>1. sizes = <<sizes[1]>>
      BY <2>1
    <3>2. QED BY <3>1
  <2>5. sizes[1] \in Nat /\ sizes[1] <= MaxPageBytes
    BY <2>3, LineageAssumption
  <2> HIDE DEF sizes
  <2>6. Bytes(table, one) = sizes[1]
    BY <2>4, <2>5, OneBytes DEF Bytes, sizes
  <2>7. QED BY <1>2, <2>5, <2>6
<1>5. fits \subseteq 0..most
  OBVIOUS
<1> HIDE DEF fits
<1>6. Max(fits) \in fits /\ \A y \in fits : y <= Max(fits)
  BY <1>2, <1>3, <1>5, MaxIs
<1>7. Max(fits) \in 0..c /\ (c # 0 => Max(fits) # 0)
  <2>1. Max(fits) \in 0..most
    BY <1>5, <1>6
  <2>2. c # 0 => 1 <= Max(fits)
    BY <1>4, <1>6
  <2> DEFINE x == Max(fits)
  <2> HIDE DEF x
  <2>3. x \in 0..most /\ (c # 0 => 1 <= x)
    BY <2>1, <2>2 DEF x
  <2>4. x \in 0..c /\ (c # 0 => x # 0)
    BY <1>2, <2>3
  <2>5. QED BY <2>4 DEF x
<1>8. QED BY <1>1, <1>7

(* What is stored: states with every state they were derived from, and     *)
(* records no larger than a page.                                          *)
Histories == Seq(Factories \cup Transforms)
TableRows == [id : MatIds, state : Histories, witness : 0..MaxPageBytes]
ObsRows == [state : Histories, witness : 0..MaxPageBytes]

StoredInv ==
  /\ stored \subseteq Histories \ {<<>>}
  /\ \A s \in stored : \A k \in 1..Len(s) : SubSeq(s, 1, k) \in stored
  /\ obs \in Seq(ObsRows) /\ mats \in Seq(TableRows)

(* An open listing: what it returned is the beginning of what is due, and  *)
(* what is due are the rows up to the high water mark, in order.           *)
ListingFields == {"open", "kind", "state", "high", "last", "first", "got", "empty", "due"}
RowsOf(table, state, high) == {i \in 1..high : table[i].state = state}

OpenInv(l, table) ==
  /\ l.high \in Nat /\ l.high <= Len(table)
  /\ l.due \in Seq(Nat) /\ l.got \in Seq(Nat) /\ Len(l.got) <= Len(l.due)
  /\ Enumerates(l.kind, l.due, Len(l.due), RowsOf(table, l.state, l.high))
  /\ \A i \in 1..Len(l.got) : l.got[i] = l.due[i]
  /\ l.first => Len(l.got) = 0
  /\ ~l.first => Len(l.got) # 0 /\ l.last = l.due[Len(l.got)]

Listed(kind) == IF kind = "provenance" THEN obs ELSE mats

ListingInv ==
  /\ DOMAIN listing = ListingFields
  /\ listing.open => OpenInv(listing, Listed(listing.kind))
  /\ ~listing.open => listing.got = listing.due
  /\ ~listing.empty

LineageInv == StoredInv /\ ListingInv

(* Nothing is stored and nothing is listed at first.                       *)
LEMMA LineageInvInit == LineageInit => LineageInv
<1> SUFFICES ASSUME LineageInit PROVE LineageInv
  OBVIOUS
<1>1. StoredInv
  BY DEF LineageInit, StoredInv
<1>2. DOMAIN listing = ListingFields /\ ~listing.open /\ listing.got = listing.due /\ ~listing.empty
  BY DEF LineageInit, ListingFields
<1>3. QED BY <1>1, <1>2 DEF LineageInv, ListingInv

(* Rows are added at the end: an open listing does not see them.           *)
LEMMA RowsAdded ==
  ASSUME LineageInv, UNCHANGED listing, obs' \in Seq(ObsRows), mats' \in Seq(TableRows),
         Len(obs) <= Len(obs'), \A i \in 1..Len(obs) : obs'[i] = obs[i],
         Len(mats) <= Len(mats'), \A i \in 1..Len(mats) : mats'[i] = mats[i]
  PROVE  ListingInv'
<1> DEFINE l == listing
           t == Listed(l.kind)
           u == Listed(l.kind)'
<1>1. Len(t) \in Nat /\ Len(u) \in Nat /\ Len(t) <= Len(u) /\ \A i \in 1..Len(t) : u[i] = t[i]
  BY DEF LineageInv, StoredInv, Listed
<1>2. ASSUME l.open PROVE OpenInv(l, u)
  <2>1. OpenInv(l, t)
    BY <1>2 DEF LineageInv, ListingInv
  <2> HIDE DEF t, u, l
  <2>2. l.high \in Nat /\ l.high <= Len(t)
    BY <2>1 DEF OpenInv
  <2>3. RowsOf(u, l.state, l.high) = RowsOf(t, l.state, l.high)
    BY <1>1, <2>2 DEF RowsOf
  <2>4. QED BY <1>1, <2>1, <2>2, <2>3 DEF OpenInv
<1>3. OpenInv(listing', Listed(listing.kind)') <=> OpenInv(l, u)
  BY DEF Listed
<1>4. QED BY <1>2, <1>3 DEF LineageInv, ListingInv

(* A materialization is recorded of a state that is stored.                *)
LEMMA MaterialKeeps ==
  ASSUME LineageInv, NEW id \in MatIds, NEW s \in stored, NEW size \in MatSizes, PutMaterialization(id, s, size)
  PROVE  LineageInv'
<1>1. /\ UNCHANGED <<stored, obs, listing>> /\ size <= MaxMaterialBytes
      /\ mats' = Append(mats, [id |-> id, state |-> s, witness |-> size])
  BY DEF PutMaterialization, AdmittedMaterial
<1>2. [id |-> id, state |-> s, witness |-> size] \in TableRows
  BY <1>1, LineageAssumption DEF LineageInv, StoredInv, TableRows
<1>3. mats \in Seq(TableRows) /\ obs \in Seq(ObsRows)
  BY DEF LineageInv, StoredInv
<1> DEFINE added == [id |-> id, state |-> s, witness |-> size]
<1> HIDE DEF added
<1>4. /\ mats' \in Seq(TableRows) /\ Len(mats) <= Len(mats')
      /\ \A i \in 1..Len(mats) : mats'[i] = mats[i]
  <2>1. mats' = Append(mats, added) /\ added \in TableRows
    BY <1>1, <1>2 DEF added
  <2>2. QED BY <1>3, <2>1
<1>5. StoredInv'
  BY <1>1, <1>4 DEF LineageInv, StoredInv
<1>6. Len(obs) \in Nat
  BY <1>3
<1>7. ListingInv'
  BY <1>1, <1>3, <1>4, <1>6, RowsAdded
<1>8. QED BY <1>5, <1>7 DEF LineageInv

(* The first page fixes what is due.                                       *)
LEMMA OpenKeepsListing ==
  ASSUME LineageInv, NEW kind \in {"provenance", "materializations"}, NEW s \in stored, OpenListing(kind, s)
  PROVE  LineageInv'
<1> DEFINE t == Listed(kind)
           due == InOrder(kind, {i \in DOMAIN t : t[i].state = s})
           n == [open |-> TRUE, kind |-> kind, state |-> s, high |-> HighWater(kind), last |-> 0,
                 first |-> TRUE, got |-> <<>>, empty |-> FALSE, due |-> due]
<1>1. UNCHANGED <<stored, obs, mats>> /\ listing' = n
  BY DEF OpenListing, Listed
<1>2. StoredInv'
  BY <1>1 DEF LineageInv, StoredInv
<1>3. Len(t) \in Nat /\ DOMAIN t = 1..Len(t) /\ HighWater(kind) = Len(t)
  BY DEF LineageInv, StoredInv, Listed, HighWater
<1>4. Enumerates(kind, due, Len(due), RowsOf(t, s, Len(t))) /\ due \in Seq(Nat)
  <2> DEFINE S == RowsOf(t, s, Len(t))
             c == Cardinality(S)
  <2>1. S = {i \in DOMAIN t : t[i].state = s} /\ S \subseteq 1..Len(t)
    BY <1>3 DEF RowsOf
  <2>2. Enumerates(kind, due, c, S)
    BY <1>3, <2>1, InOrderIs
  <2> HIDE DEF S, due, c
  <2>3. c \in Nat /\ due \in [1..c -> S] /\ S \subseteq Nat
    BY <1>3, <2>1, <2>2 DEF Enumerates
  <2>4. due \in Seq(Nat) /\ Len(due) = c
    <3>1. due \in [1..c -> Nat]
      BY <2>3
    <3>2. QED BY <2>3, <3>1
  <2>5. QED BY <2>2, <2>4 DEF S
<1>5. /\ DOMAIN n = ListingFields /\ n.open /\ n.kind = kind /\ n.state = s /\ n.high = HighWater(kind)
      /\ n.first /\ n.got = <<>> /\ ~n.empty /\ n.due = due
  BY DEF ListingFields
<1> HIDE DEF n, due
<1>6. OpenInv(n, t)
  BY <1>3, <1>4, <1>5 DEF OpenInv
<1>7. Listed(listing.kind)' = t
  BY <1>1, <1>5 DEF Listed
<1>8. ListingInv'
  BY <1>1, <1>5, <1>6, <1>7 DEF ListingInv
<1>9. QED BY <1>2, <1>8 DEF LineageInv

(* The candidates of the next page are what is due and not yet returned.   *)
LEMMA CandidatesAre ==
  ASSUME LineageInv, listing.open,
         NEW g, g = Len(listing.got), NEW d, d = Len(listing.due)
  PROVE  /\ g \in Nat /\ d \in Nat /\ g <= d
         /\ Candidates(listing) = [i \in 1..(d - g) |-> listing.due[g + i]]
         /\ \A i \in 1..(d - g) : /\ listing.due[g + i] \in Nat
                                  /\ Listed(listing.kind)[listing.due[g + i]].witness \in 0..MaxPageBytes
<1> DEFINE l == listing
           t == Listed(l.kind)
           R == RowsOf(t, l.state, l.high)
           after(x) == l.first \/ Precedes(l.kind, l.last, x)
           C == {x \in R : after(x)}
           tail == [i \in 1..(d - g) |-> l.due[g + i]]
<1>1. OpenInv(l, t)
  BY DEF LineageInv, ListingInv
<1>2. Len(t) \in Nat /\ DOMAIN t = 1..Len(t) /\ \A x \in 1..Len(t) : t[x].witness \in 0..MaxPageBytes
  <2>1. obs \in Seq(ObsRows) /\ mats \in Seq(TableRows)
    BY DEF LineageInv, StoredInv
  <2>2. Len(t) \in Nat /\ DOMAIN t = 1..Len(t) /\ \A x \in 1..Len(t) : t[x] \in ObsRows \cup TableRows
    BY <2>1 DEF Listed
  <2>3. \A x \in ObsRows \cup TableRows : x.witness \in 0..MaxPageBytes
    BY DEF ObsRows, TableRows
  <2>4. QED BY <2>2, <2>3
<1>3. Candidates(l) = InOrder(l.kind, C)
  <2>1. R = {x \in DOMAIN t : t[x].state = l.state /\ x <= l.high}
    BY <1>1, <1>2 DEF OpenInv, RowsOf
  <2>2. C = {x \in DOMAIN t : t[x].state = l.state /\ x <= l.high /\ after(x)}
    BY <2>1
  <2>3. QED BY <2>2 DEF Candidates, Listed
<1> HIDE DEF l
<1>4. /\ g \in Nat /\ d \in Nat /\ g <= d /\ l.high \in Nat /\ l.high <= Len(t)
      /\ Enumerates(l.kind, l.due, d, R)
      /\ \A i \in 1..g : l.got[i] = l.due[i]
      /\ l.first => g = 0
      /\ ~l.first => g # 0 /\ l.last = l.due[g]
  BY <1>1 DEF OpenInv, l
<1> HIDE DEF t
<1>5. R \subseteq 1..Len(t) /\ R \subseteq Nat
  BY <1>2, <1>4 DEF RowsOf
<1> HIDE DEF R
<1>6. /\ \A i \in 1..d : l.due[i] \in R
      /\ \A i, j \in 1..d : i < j => Precedes(l.kind, l.due[i], l.due[j])
      /\ \A x \in R : \E i \in 1..d : l.due[i] = x
  BY <1>4 DEF Enumerates
<1>7. \A x, y \in Nat : Precedes(l.kind, x, y) => x # y /\ ~Precedes(l.kind, y, x)
  BY DEF Precedes
<1>8. ASSUME NEW i \in 1..(d - g) PROVE g + i \in 1..d /\ tail[i] = l.due[g + i] /\ tail[i] \in C
  <2>1. g + i \in 1..d /\ g < g + i /\ tail[i] = l.due[g + i]
    BY <1>4
  <2>2. after(tail[i])
    BY <1>4, <1>6, <2>1
  <2>3. QED BY <1>6, <2>1, <2>2
<1>9. ASSUME NEW i \in 1..(d - g), NEW j \in 1..(d - g), i < j PROVE Precedes(l.kind, tail[i], tail[j])
  <2>1. g + i < g + j
    BY <1>4, <1>9
  <2> HIDE DEF tail
  <2>2. QED BY <1>6, <1>8, <2>1
<1>10. ASSUME NEW x \in C PROVE \E i \in 1..(d - g) : tail[i] = x
  <2>1. PICK k \in 1..d : l.due[k] = x
    BY <1>6
  <2>2. k > g
    <3>1. CASE l.first
      BY <1>4, <2>1, <3>1
    <3>2. CASE ~l.first
      <4>1. Precedes(l.kind, l.due[g], l.due[k]) /\ g \in 1..d
        BY <1>4, <2>1, <3>2
      <4>2. l.due[g] \in Nat /\ l.due[k] \in Nat
        BY <1>5, <1>6, <4>1
      <4>3. k # g /\ ~(k < g)
        BY <1>6, <1>7, <4>1, <4>2
      <4>4. QED BY <1>4, <4>3
    <3>3. QED BY <3>1, <3>2
  <2>3. k - g \in 1..(d - g) /\ g + (k - g) = k
    BY <1>4, <2>1, <2>2
  <2>4. tail[k - g] = x
    BY <2>1, <2>3
  <2>5. QED BY <2>3, <2>4
<1>11. Enumerates(l.kind, tail, d - g, C)
  <2>1. d - g \in Nat
    BY <1>4
  <2>2. tail \in [1..(d - g) -> C]
    BY <1>8
  <2> HIDE DEF tail, C
  <2>3. QED BY <2>1, <2>2, <1>9, <1>10 DEF Enumerates
<1>12. Candidates(l) = tail
  <2>1. C \subseteq 1..Len(t) /\ C \subseteq Nat
    BY <1>5
  <2> HIDE DEF C, tail
  <2>2. Enumerates(l.kind, InOrder(l.kind, C), Cardinality(C), C)
    BY <1>2, <2>1, InOrderIs
  <2>3. InOrder(l.kind, C) = tail
    BY <1>11, <2>1, <2>2, EnumerationUnique
  <2>4. QED BY <1>3, <2>3 DEF l
<1>13. ASSUME NEW i \in 1..(d - g)
       PROVE  l.due[g + i] \in Nat /\ t[l.due[g + i]].witness \in 0..MaxPageBytes
  BY <1>2, <1>5, <1>6, <1>8
<1>14. QED
  BY <1>4, <1>12, <1>13 DEF l, t

(* Two sequences, one after the other.                                     *)
LEMMA Joined ==
  ASSUME NEW S, NEW a \in Seq(S), NEW b \in Seq(S)
  PROVE  /\ a \o b \in Seq(S) /\ Len(a \o b) = Len(a) + Len(b)
         /\ \A i \in 1..Len(a) : (a \o b)[i] = a[i]
         /\ \A i \in 1..Len(b) : (a \o b)[Len(a) + i] = b[i]
OBVIOUS

(* The next page goes on where the last one ended.                         *)
LEMMA ReadKeepsListing == LineageInv /\ ReadPage => LineageInv'
<1> SUFFICES ASSUME LineageInv, ReadPage PROVE LineageInv'
  OBVIOUS
<1> DEFINE l == listing
           t == Listed(l.kind)
           g == Len(l.got)
           d == Len(l.due)
           c == d - g
           rows == Candidates(l)
           page == Page(l)
           n == NextCursor(l, page)
<1>1. UNCHANGED <<stored, obs, mats>> /\ listing' = n /\ l.open
  BY DEF ReadPage
<1>2. StoredInv'
  BY <1>1 DEF LineageInv, StoredInv
<1>3. OpenInv(l, t) /\ DOMAIN l = ListingFields
  BY <1>1 DEF LineageInv, ListingInv
<1>4. /\ g \in Nat /\ d \in Nat /\ g <= d
      /\ rows = [i \in 1..c |-> l.due[g + i]]
      /\ \A i \in 1..c : l.due[g + i] \in Nat /\ t[l.due[g + i]].witness \in 0..MaxPageBytes
  BY <1>1, CandidatesAre
<1>5. c \in Nat /\ rows \in Seq(Nat) /\ Len(rows) = c /\ \A i \in 1..c : rows[i] = l.due[g + i]
  <2> HIDE DEF l, g, d, rows
  <2>1. c \in Nat
    BY <1>4
  <2> HIDE DEF c
  <2>2. rows \in [1..c -> Nat]
    BY <1>4
  <2>3. QED BY <1>4, <2>1, <2>2
<1>6. PICK m \in 0..c : page = SubSeq(rows, 1, m) /\ (c # 0 => m # 0)
  <2>1. t = IF l.kind = "provenance" THEN obs ELSE mats
    BY DEF Listed
  <2>2. \A i \in 1..c : t[rows[i]].witness \in 0..MaxPageBytes
    BY <1>4, <1>5
  <2> HIDE DEF l, t, c, rows, page
  <2>3. \E m \in 0..c : Page(l) = SubSeq(rows, 1, m) /\ (c # 0 => m # 0)
    BY <1>5, <2>1, <2>2, PageIs DEF rows
  <2>4. QED BY <2>3 DEF page
<1> HIDE DEF rows, page
<1>7. page \in Seq(Nat) /\ Len(page) = m /\ m \in Nat /\ \A i \in 1..m : page[i] = l.due[g + i]
  <2> HIDE DEF l, g, c
  <2>1. page \in Seq(Nat) /\ Len(page) = m /\ m \in Nat /\ \A i \in 1..m : page[i] = rows[i]
    BY <1>5, <1>6
  <2>2. m <= c
    BY <1>5, <1>6
  <2>3. QED BY <1>5, <2>1, <2>2
<1>8. /\ DOMAIN n = ListingFields /\ n.kind = l.kind /\ n.state = l.state /\ n.high = l.high /\ n.due = l.due
      /\ n.got = l.got \o page /\ ~n.first
      /\ n.last = IF page = <<>> THEN 0 ELSE Last(page)
      /\ n.open <=> m < c
      /\ n.empty <=> page = <<>> /\ rows # <<>>
  <2> DEFINE more == Len(page) < Len(rows)
             last == IF page = <<>> THEN 0 ELSE Last(page)
             got == l.got \o page
             empty == page = <<>> /\ rows # <<>>
  <2>1. n = [l EXCEPT !.open = more, !.last = last, !.first = FALSE, !.got = got, !.empty = empty]
    BY DEF NextCursor, rows
  <2>2. more <=> m < c
    BY <1>5, <1>7
  <2> HIDE DEF l, more, last, got, empty, n
  <2>3. /\ DOMAIN n = ListingFields /\ n.kind = l.kind /\ n.state = l.state /\ n.high = l.high /\ n.due = l.due
        /\ n.got = got /\ n.first = FALSE /\ n.last = last /\ n.open = more /\ n.empty = empty
    BY <1>3, <2>1 DEF ListingFields
  <2>4. n.open <=> m < c
    BY <2>2, <2>3, Zenon
  <2>5. n.empty <=> empty
    BY <2>3, Zenon
  <2>6. QED BY <2>3, <2>4, <2>5 DEF last, got, empty
<1> HIDE DEF n
<1>9. ~n.empty
  <2>1. rows # <<>> => c # 0
    BY <1>5
  <2>2. m # 0 => page # <<>>
    BY <1>7
  <2>3. QED BY <1>6, <1>8, <2>1, <2>2
<1>10. /\ n.got \in Seq(Nat) /\ Len(n.got) = g + m /\ g + m <= d
       /\ \A i \in 1..(g + m) : n.got[i] = l.due[i]
  <2>1. l.got \in Seq(Nat) /\ l.due \in Seq(Nat) /\ \A i \in 1..g : l.got[i] = l.due[i]
    BY <1>3 DEF OpenInv
  <2> DEFINE q == l.got
             joined == q \o page
  <2>a. q \in Seq(Nat) /\ page \in Seq(Nat) /\ Len(q) = g /\ Len(page) = m /\ n.got = joined
    BY <1>7, <1>8, <2>1
  <2>b. g + m <= d
    <3> HIDE DEF g, d
    <3>1. QED BY <1>4, <1>6, <1>7
  <2> HIDE DEF l, d, q, g
  <2>2. n.got \in Seq(Nat) /\ Len(n.got) = g + m
    <3>1. joined \in Seq(Nat) /\ Len(joined) = Len(q) + Len(page)
      BY <2>a, Joined
    <3>2. QED BY <2>a, <3>1
  <2>3. g + m <= d
    BY <2>b
  <2>4. ASSUME NEW i \in 1..(g + m) PROVE n.got[i] = l.due[i]
    <3>1. CASE i <= g
      <4>1. i \in 1..Len(q)
        BY <1>4, <2>a, <3>1
      <4>2. joined[i] = q[i]
        BY <2>a, <4>1, Joined
      <4>3. QED BY <2>1, <2>a, <4>1, <4>2 DEF q
    <3>2. CASE i > g
      <4>1. i - g \in 1..m /\ g + (i - g) = i
        BY <1>4, <1>7, <3>2
      <4>2. n.got[i] = page[i - g]
        <5>1. joined[Len(q) + (i - g)] = page[i - g]
          BY <2>a, <4>1, Joined
        <5>2. QED BY <2>a, <4>1, <5>1
      <4>3. QED BY <1>7, <4>1, <4>2
    <3>3. QED BY <1>4, <3>1, <3>2
  <2>5. QED BY <2>2, <2>3, <2>4
<1>11. ASSUME ~n.open PROVE n.got = n.due
  <2>1. ~(m < c)
    BY <1>8, <1>11, Zenon
  <2>2. g + m = d
    <3> HIDE DEF g, d
    <3>1. QED BY <1>4, <1>5, <1>6, <1>7, <2>1
  <2>3. l.due \in Seq(Nat)
    BY <1>3 DEF OpenInv
  <2> DEFINE a == n.got
             b == l.due
  <2>4. a \in Seq(Nat) /\ b \in Seq(Nat) /\ Len(a) = Len(b) /\ \A i \in 1..Len(a) : a[i] = b[i]
    BY <1>10, <2>2, <2>3
  <2> HIDE DEF a, b
  <2>5. a = b
    BY <2>4
  <2>6. QED BY <1>8, <2>5 DEF a, b
<1>12. ASSUME n.open PROVE OpenInv(n, t)
  <2>0. m < c
    BY <1>8, <1>12, Zenon
  <2>1. m # 0 /\ g + m # 0
    <3> HIDE DEF g, c
    <3>1. QED BY <1>4, <1>5, <1>6, <1>7, <2>0
  <2>2. n.last = n.due[Len(n.got)]
    <3>1. page # <<>> /\ Last(page) = page[m]
      BY <1>7, <2>1 DEF Last
    <3>2. m \in 1..m
      BY <1>7, <2>1
    <3>3. QED BY <1>7, <1>8, <1>10, <3>1, <3>2
  <2> HIDE DEF t, l
  <2>3. QED BY <1>3, <1>4, <1>8, <1>10, <2>1, <2>2 DEF OpenInv
<1>13. Listed(listing.kind)' = t
  BY <1>1, <1>8 DEF Listed
<1>14. ListingInv'
  <2> HIDE DEF t, l
  <2>1. QED BY <1>1, <1>8, <1>9, <1>11, <1>12, <1>13 DEF ListingInv
<1>15. QED BY <1>2, <1>14 DEF LineageInv

(* A reader that stops half way.                                           *)
LEMMA AbandonKeepsListing == LineageInv /\ AbandonListing => LineageInv'
<1> SUFFICES ASSUME LineageInv, AbandonListing PROVE LineageInv'
  OBVIOUS
<1> DEFINE n == [listing EXCEPT !.open = FALSE, !.got = <<>>, !.due = <<>>]
<1>1. UNCHANGED <<stored, obs, mats>> /\ listing' = n
  BY DEF AbandonListing
<1>2. DOMAIN listing = ListingFields /\ ~listing.empty
  BY DEF LineageInv, ListingInv
<1>3. DOMAIN n = ListingFields /\ ~n.open /\ n.got = n.due /\ n.empty = listing.empty
  BY <1>2 DEF ListingFields
<1> HIDE DEF n
<1>4. ListingInv'
  BY <1>1, <1>2, <1>3 DEF ListingInv
<1>5. QED BY <1>1, <1>4 DEF LineageInv, StoredInv

(* The beginning of a sequence.                                            *)
LEMMA Part ==
  ASSUME NEW S, NEW a \in Seq(S), NEW n \in 0..Len(a)
  PROVE  /\ SubSeq(a, 1, n) \in Seq(S) /\ Len(SubSeq(a, 1, n)) = n
         /\ DOMAIN SubSeq(a, 1, n) = 1..n
         /\ \A i \in 1..n : SubSeq(a, 1, n)[i] = a[i]
<1>1. SubSeq(a, 1, n) \in Seq(S) /\ Len(SubSeq(a, 1, n)) = n
  OBVIOUS
<1>2. \A i \in 1..n : SubSeq(a, 1, n)[i] = a[i]
  OBVIOUS
<1>3. QED BY <1>1, <1>2

(* A state that is not made by a factory has its parent's history and one  *)
(* identity more.                                                          *)
LEMMA ParentIs ==
  ASSUME NEW h \in Histories, h # <<>>
  PROVE  /\ Len(h) \in Nat \ {0}
         /\ ParentOf(h) = <<>> => Len(h) = 1
         /\ \A k \in 1..Len(h) : \/ SubSeq(h, 1, k) = h
                                 \/ /\ ParentOf(h) # <<>> /\ k \in 1..Len(ParentOf(h))
                                    /\ SubSeq(h, 1, k) = SubSeq(ParentOf(h), 1, k)
<1>1. Len(h) \in Nat \ {0}
  BY DEF Histories
<1>2. CASE Len(h) = 1
  <2>1. SubSeq(h, 1, 1) = h
    BY <1>2 DEF Histories
  <2>2. QED BY <1>2, <2>1
<1>3. CASE Len(h) # 1
  <2>1. ParentOf(h) = SubSeq(h, 1, Len(h) - 1)
    BY <1>3 DEF ParentOf, Front
  <2>2. Len(ParentOf(h)) = Len(h) - 1
    <3>1. Len(h) - 1 \in 0..Len(h) /\ h \in Seq(Factories \cup Transforms)
      BY <1>1 DEF Histories
    <3>2. Len(SubSeq(h, 1, Len(h) - 1)) = Len(h) - 1
      BY <3>1, Part
    <3>3. QED BY <2>1, <3>2
  <2>3. ParentOf(h) # <<>>
    BY <1>1, <1>3, <2>2
  <2>4. SubSeq(h, 1, Len(h)) = h
    BY <1>1 DEF Histories
  <2>5. ASSUME NEW k \in 1..(Len(h) - 1) PROVE SubSeq(h, 1, k) = SubSeq(ParentOf(h), 1, k)
    BY <1>1, <2>1 DEF Histories
  <2>6. ASSUME NEW k \in 1..Len(h) PROVE k = Len(h) \/ k \in 1..(Len(h) - 1)
    BY <1>1
  <2>7. QED BY <1>1, <2>2, <2>3, <2>4, <2>5, <2>6
<1>4. QED BY <1>2, <1>3

(* A lineage is stored whole: its rows have the rows they were derived     *)
(* from, by the foreign key.                                               *)
LEMMA PutKeeps ==
  ASSUME LineageInv, NEW states \in Seq(Histories \ {<<>>}), NEW w \in Witnesses, PutStates(states, w)
  PROVE  LineageInv'
<1> DEFINE new == InOrder("provenance", {i \in DOMAIN states : ~Observed(states[i], w)})
           more == [i \in DOMAIN new |-> [state |-> states[new[i]], witness |-> w]]
<1>1. /\ UNCHANGED <<mats, listing>> /\ w <= MaxSemanticBytes
      /\ stored' = stored \cup ToSet(states)
      /\ obs' = obs \o more
  BY DEF PutStates, Admitted
<1>2. /\ stored \subseteq Histories \ {<<>>}
      /\ \A s \in stored : \A k \in 1..Len(s) : SubSeq(s, 1, k) \in stored
      /\ obs \in Seq(ObsRows) /\ mats \in Seq(TableRows)
  BY DEF LineageInv, StoredInv
<1>3. more \in Seq(ObsRows)
  <2> DEFINE I == {i \in DOMAIN states : ~Observed(states[i], w)}
             c == Cardinality(I)
  <2>1. Len(states) \in Nat /\ I \subseteq 1..Len(states)
    OBVIOUS
  <2> HIDE DEF I
  <2>2. Enumerates("provenance", InOrder("provenance", I), c, I)
    BY <2>1, InOrderIs
  <2>3. new = InOrder("provenance", I)
    BY DEF I
  <2> HIDE DEF new, c
  <2>4. c \in Nat /\ new \in [1..c -> I]
    BY <2>2, <2>3 DEF Enumerates
  <2>5. ASSUME NEW i \in 1..c PROVE states[new[i]] \in Histories
    <3>1. new[i] \in 1..Len(states)
      BY <2>1, <2>4
    <3> DEFINE j == new[i]
    <3> HIDE DEF j
    <3>2. j \in 1..Len(states)
      BY <3>1 DEF j
    <3>3. states[j] \in Histories
      BY <3>2
    <3>4. QED BY <3>3 DEF j
  <2>6. w \in 0..MaxPageBytes
    BY <1>1, LineageAssumption
  <2>7. \A i \in 1..c : [state |-> states[new[i]], witness |-> w] \in ObsRows
    BY <2>5, <2>6 DEF ObsRows
  <2>8. more \in [1..c -> ObsRows]
    BY <2>4, <2>7
  <2>9. QED BY <2>4, <2>8
<1> HIDE DEF more
<1>4. /\ obs' \in Seq(ObsRows) /\ Len(obs) \in Nat /\ Len(obs) <= Len(obs')
      /\ \A i \in 1..Len(obs) : obs'[i] = obs[i]
  <2>1. Len(obs) \in Nat /\ Len(more) \in Nat
    BY <1>2, <1>3
  <2>2. Len(obs') = Len(obs) + Len(more) /\ obs' \in Seq(ObsRows) /\ \A i \in 1..Len(obs) : obs'[i] = obs[i]
    BY <1>1, <1>2, <1>3, Joined
  <2>3. QED BY <2>1, <2>2
<1>5. Len(mats) \in Nat
  BY <1>2
<1>6. ListingInv'
  BY <1>1, <1>2, <1>4, <1>5, RowsAdded
<1>7. \A i \in 1..Len(states) : states[i] \in Histories /\ states[i] # <<>> /\ states[i] \in stored'
  BY <1>1 DEF ToSet
<1> DEFINE whole(s) == \A k \in 1..Len(s) : SubSeq(s, 1, k) \in stored'
           bad == {i \in Nat : i \in 1..Len(states) /\ ~whole(states[i])}
<1>8. bad = {}
  <2>1. SUFFICES ASSUME bad # {} PROVE FALSE
    OBVIOUS
  <2>2. PICK i \in bad : \A y \in bad : i <= y
    <3>1. bad \subseteq Nat
      OBVIOUS
    <3> HIDE DEF bad
    <3>2. QED BY <2>1, <3>1, NatMin
  <2>3. i \in 1..Len(states) /\ ~whole(states[i]) /\ \A j \in 1..Len(states) : j < i => whole(states[j])
    BY <2>2
  <2> DEFINE h == states[i]
             p == ParentOf(h)
  <2>4. p = <<>> \/ p \in stored \/ \E j \in 1..Len(states) : j < i /\ p = states[j]
    <3>1. CASE i = 1
      BY <3>1 DEF PutStates
    <3>2. CASE i # 1
      <4>1. i \in 2..Len(states)
        BY <2>3, <3>2
      <4>2. p \in stored \cup ToSet(SubSeq(states, 1, i - 1))
        BY <4>1 DEF PutStates
      <4>3. ToSet(SubSeq(states, 1, i - 1)) = {states[j] : j \in 1..(i - 1)}
        <5>1. i - 1 \in 0..Len(states)
          BY <4>1
        <5>2. DOMAIN SubSeq(states, 1, i - 1) = 1..(i - 1) /\ \A j \in 1..(i - 1) : SubSeq(states, 1, i - 1)[j] = states[j]
          BY <5>1, Part
        <5>3. QED BY <5>2 DEF ToSet
      <4>4. \A j \in 1..(i - 1) : j \in 1..Len(states) /\ j < i
        BY <4>1
      <4>5. QED BY <4>2, <4>3, <4>4
    <3>3. QED BY <3>1, <3>2
  <2>5. p = <<>> \/ whole(p)
    <3>1. \A s \in stored : whole(s)
      BY <1>1, <1>2
    <3> HIDE DEF whole, p
    <3>2. QED BY <2>3, <2>4, <3>1
  <2>6. h \in Histories /\ h # <<>> /\ h \in stored'
    BY <1>7, <2>3
  <2>7. whole(h)
    <3> HIDE DEF h, p
    <3>1. \A k \in 1..Len(h) : \/ SubSeq(h, 1, k) = h
                               \/ /\ p # <<>> /\ k \in 1..Len(p)
                                  /\ SubSeq(h, 1, k) = SubSeq(p, 1, k)
      BY <2>6, ParentIs DEF p
    <3>2. QED BY <2>5, <2>6, <3>1
  <2>8. QED BY <2>3, <2>7
<1>9. ASSUME NEW s \in stored' PROVE s \in Histories \ {<<>>} /\ whole(s)
  <2>1. CASE s \in stored
    BY <1>1, <1>2, <2>1
  <2>2. CASE s \in ToSet(states)
    <3>1. PICK i \in 1..Len(states) : s = states[i]
      BY <2>2 DEF ToSet
    <3>2. i \in Nat /\ i \notin bad
      BY <1>8
    <3>3. whole(states[i])
      BY <3>1, <3>2
    <3> HIDE DEF whole
    <3>4. QED BY <1>7, <3>1, <3>3
  <2>3. QED BY <1>1, <2>1, <2>2
<1>10. StoredInv'
  BY <1>1, <1>2, <1>4, <1>9 DEF StoredInv
<1>11. QED BY <1>6, <1>10 DEF LineageInv

(* The states of a recipe, of a suffix, and of a lineage that was received *)
(* are histories.                                                          *)
LEMMA ExtendIs ==
  ASSUME NEW anchor \in Histories, anchor # <<>>, NEW ts \in Seq(Transforms)
  PROVE  Extend(anchor, ts) \in Seq(Histories \ {<<>>}) /\ Len(Extend(anchor, ts)) = Len(ts)
<1>1. ASSUME NEW i \in 1..Len(ts) PROVE anchor \o SubSeq(ts, 1, i) \in Histories \ {<<>>}
  <2> DEFINE I == Factories \cup Transforms
             p == SubSeq(ts, 1, i)
  <2>1. ts \in Seq(I) /\ i \in 0..Len(ts) /\ anchor \in Seq(I)
    BY DEF Histories
  <2>2. p \in Seq(I) /\ Len(p) = i
    BY <2>1, Part
  <2>3. Len(anchor) \in Nat /\ Len(anchor) # 0
    BY <2>1
  <2> HIDE DEF p
  <2>4. anchor \o p \in Seq(I) /\ Len(anchor \o p) = Len(anchor) + Len(p)
    BY <2>1, <2>2, Joined
  <2>5. Len(anchor \o p) # 0
    BY <2>2, <2>3, <2>4
  <2>6. anchor \o p # <<>>
    BY <2>5
  <2>7. QED BY <2>4, <2>6 DEF Histories, p
<1> DEFINE H == Histories \ {<<>>}
           e == Extend(anchor, ts)
<1>2. Len(ts) \in Nat /\ e = [i \in 1..Len(ts) |-> anchor \o SubSeq(ts, 1, i)]
  BY DEF Extend
<1>3. e \in [1..Len(ts) -> H]
  BY <1>1, <1>2
<1> HIDE DEF e, H
<1>4. e \in Seq(H) /\ Len(e) = Len(ts)
  BY <1>2, <1>3
<1>5. QED BY <1>4 DEF e, H

(* The transforms of a recipe or of a suffix are a sequence.               *)
LEMMA TransformSeqsAre == TransformSeqs \subseteq Seq(Transforms)
BY LineageAssumption DEF TransformSeqs, BoundedSeq, SeqOf

(* The states of a recipe are histories, and every one has a factory.      *)
LEMMA RecipeIs ==
  ASSUME NEW f \in Factories, NEW ts \in TransformSeqs
  PROVE  BuildLineage(f, ts) \in Seq(Histories \ {<<>>})
<1> DEFINE H == Histories \ {<<>>}
           root == FactoryState(f)
<1>1. root \in Histories /\ root # <<>>
  BY DEF FactoryState, Histories
<1>2. Extend(root, ts) \in Seq(H)
  BY <1>1, TransformSeqsAre, ExtendIs
<1>3. <<root>> \in Seq(H)
  BY <1>1
<1> HIDE DEF H, root
<1>4. <<root>> \o Extend(root, ts) \in Seq(H)
  BY <1>2, <1>3, Joined
<1>5. QED BY <1>4 DEF BuildLineage, root, H

(* So are the states of a lineage that arrived, whatever it claims.        *)
LEMMA ReceivedIs ==
  ASSUME NEW a, NEW b \in Histories, b # <<>>, NEW ts \in TransformSeqs, NEW lost \in 0..Len(ts),
         Decode(Wire(a, b, ts, lost)) # <<>>
  PROVE  Decode(Wire(a, b, ts, lost))[1] \in Seq(Histories \ {<<>>})
<1> DEFINE H == Histories \ {<<>>}
           S == [transform : Transforms, state : H]
           all == [i \in DOMAIN ts |-> [transform |-> ts[i], state |-> Extend(b, ts)[i]]]
           steps == IF lost = 0 THEN all ELSE RemoveAt(all, lost)
<1>1. ts \in Seq(Transforms) /\ Len(ts) \in Nat /\ DOMAIN ts = 1..Len(ts)
  BY TransformSeqsAre
<1>2. Extend(b, ts) \in Seq(H) /\ Len(Extend(b, ts)) = Len(ts)
  BY <1>1, ExtendIs
<1>3. ASSUME NEW i \in 1..Len(ts) PROVE [transform |-> ts[i], state |-> Extend(b, ts)[i]] \in S
  <2>1. ts[i] \in Transforms /\ Extend(b, ts)[i] \in H
    <3> HIDE DEF H
    <3>1. QED BY <1>1, <1>2
  <2> HIDE DEF H
  <2>2. QED BY <2>1
<1>4. all \in [1..Len(ts) -> S]
  <2> HIDE DEF S
  <2>1. QED BY <1>1, <1>3
<1> HIDE DEF all, S
<1>5. all \in Seq(S) /\ Len(all) = Len(ts)
  BY <1>1, <1>4
<1>6. steps \in Seq(S)
  <2>1. CASE lost = 0
    BY <1>5, <2>1
  <2>2. CASE lost # 0
    <3>1. lost \in 1..Len(all)
      BY <1>1, <1>5, <2>2
    <3>2. SubSeq(all, 1, lost - 1) \in Seq(S) /\ SubSeq(all, lost + 1, Len(all)) \in Seq(S)
      BY <1>5, <3>1
    <3>3. QED BY <2>2, <3>2, Joined DEF RemoveAt
  <2>3. QED BY <2>1, <2>2
<1>7. Wire(a, b, ts, lost).steps = steps
  BY DEF Wire, all
<1> HIDE DEF steps
<1>8. Decode(Wire(a, b, ts, lost))[1] = [i \in DOMAIN steps |-> steps[i].state]
  BY <1>7 DEF Decode
<1>9. \A i \in 1..Len(steps) : steps[i].state \in H
  <2>1. \A i \in 1..Len(steps) : steps[i] \in S
    BY <1>6
  <2>2. \A x \in S : x.state \in H
    <3> HIDE DEF H
    <3>1. QED BY DEF S
  <2>3. QED BY <2>1, <2>2
<1> DEFINE states == [i \in DOMAIN steps |-> steps[i].state]
<1> HIDE DEF H
<1>10. states \in [1..Len(steps) -> H] /\ Len(steps) \in Nat
  BY <1>6, <1>9
<1> HIDE DEF states
<1>11. states \in Seq(H)
  BY <1>10
<1>12. QED BY <1>8, <1>11 DEF H, states

(* Writers and the one reader.                                             *)
LEMMA LineageInvStep == LineageInv /\ [LineageNext]_lineageVars => LineageInv'
<1> SUFFICES ASSUME LineageInv, [LineageNext]_lineageVars PROVE LineageInv'
  OBVIOUS
<1>1. ASSUME NEW f \in Factories, NEW ts \in TransformSeqs, NEW w \in Witnesses, PutRecipeLineage(f, ts, w)
      PROVE  LineageInv'
  BY <1>1, RecipeIs, PutKeeps DEF PutRecipeLineage
<1>2. ASSUME NEW a \in stored, NEW b \in stored, NEW ts \in TransformSeqs, NEW w \in Witnesses,
             NEW lost \in 0..Len(ts), ReceiveLineage(Wire(a, b, ts, lost), w)
      PROVE  LineageInv'
  <2> DEFINE states == Decode(Wire(a, b, ts, lost))[1]
  <2>1. Decode(Wire(a, b, ts, lost)) # <<>> /\ PutStates(states, w)
    BY <1>2 DEF ReceiveLineage, PutRelativeLineage
  <2>2. b \in Histories /\ b # <<>>
    BY DEF LineageInv, StoredInv
  <2>3. states \in Seq(Histories \ {<<>>})
    BY <2>1, <2>2, ReceivedIs
  <2> HIDE DEF states
  <2>4. QED BY <2>1, <2>3, PutKeeps
<1>3. ASSUME NEW id \in MatIds, NEW s \in stored, NEW size \in MatSizes, PutMaterialization(id, s, size)
      PROVE  LineageInv'
  BY <1>3, MaterialKeeps
<1>4. ASSUME NEW kind \in {"provenance", "materializations"}, NEW s \in stored, OpenListing(kind, s)
      PROVE  LineageInv'
  BY <1>4, OpenKeepsListing
<1>5. CASE ReadPage
  BY <1>5, ReadKeepsListing
<1>6. CASE AbandonListing
  BY <1>6, AbandonKeepsListing
<1>7. CASE UNCHANGED lineageVars
  <2>1. stored' = stored /\ obs' = obs /\ mats' = mats /\ listing' = listing
    BY <1>7 DEF lineageVars
  <2>2. StoredInv'
    BY <2>1 DEF LineageInv, StoredInv
  <2>3. ListingInv'
    BY <2>1 DEF LineageInv, ListingInv, OpenInv, Listed
  <2>4. QED BY <2>2, <2>3 DEF LineageInv
<1>8. QED BY <1>1, <1>2, <1>3, <1>4, <1>5, <1>6, <1>7 DEF LineageNext

(* A lineage within the limits of a trace is walked to its factory.        *)
LEMMA TraceIs == LineageInv => LineageTraced
<1> SUFFICES ASSUME LineageInv, NEW s \in stored, Len(s) <= MaxTransforms + 1, LineageBytes(s) <= MaxPageBytes
             PROVE  TraceLineage(s) # <<>> /\ TraceLineage(s) = [i \in DOMAIN s |-> SubSeq(s, 1, i)]
  BY DEF LineageTraced
<1> DEFINE n == Len(s)
           rows == Parents(s, n)
<1>1. /\ s \in Histories /\ s # <<>>
      /\ \A k \in 1..n : SubSeq(s, 1, k) \in stored
  BY DEF LineageInv, StoredInv
<1>2. n \in Nat \ {0} /\ DOMAIN s = 1..n
  BY <1>1 DEF Histories
<1>3. Min({n, MaxTransforms + 1}) = n
  <2>1. MaxTransforms \in Nat
    BY LineageAssumption
  <2>2. n \in {n, MaxTransforms + 1} /\ \A y \in {n, MaxTransforms + 1} : n <= y
    BY <1>2, <2>1
  <2>3. \A x \in {n, MaxTransforms + 1} : (\A y \in {n, MaxTransforms + 1} : x <= y) => x = n
    BY <1>2, <2>1
  <2> HIDE DEF n
  <2>4. QED BY <2>2, <2>3 DEF Min
<1>4. ASSUME NEW i \in 1..n
      PROVE  /\ rows[i] = SubSeq(s, 1, n + 1 - i) /\ n + 1 - i \in 1..n
             /\ Last(rows[i]) = s[n + 1 - i] /\ rows[i] \in stored
  <2>1. n + 1 - i \in 1..n /\ n + 1 - i \in 0..Len(s) /\ rows[i] = SubSeq(s, 1, n + 1 - i)
    BY <1>2 DEF Parents
  <2>2. Len(rows[i]) = n + 1 - i /\ rows[i][n + 1 - i] = s[n + 1 - i]
    BY <1>1, <2>1, Part DEF Histories
  <2>3. QED BY <1>1, <2>1, <2>2 DEF Last
<1>5. TotalBytes([i \in 1..n |-> RecordBytes[Last(rows[i])]]) <= MaxPageBytes
  <2>1. [i \in 1..n |-> RecordBytes[Last(rows[i])]] = [i \in DOMAIN s |-> RecordBytes[s[Len(s) + 1 - i]]]
    BY <1>2, <1>4
  <2>2. QED BY <2>1 DEF LineageBytes
<1>6. ParentOf(rows[n]) = <<>>
  <2>1. n \in 1..n /\ n + 1 - n = 1
    BY <1>2
  <2>2. rows[n] = SubSeq(s, 1, 1)
    BY <1>4, <2>1
  <2>3. Len(rows[n]) = 1
    BY <1>1, <1>2, <2>2, Part DEF Histories
  <2>4. QED BY <2>3 DEF ParentOf
<1>7. TraceLineage(s) = Reverse(rows)
  BY <1>3, <1>4, <1>5, <1>6 DEF TraceLineage
<1>8. Len(rows) = n
  BY <1>2 DEF Parents
<1>9. Reverse(rows) = [i \in 1..n |-> SubSeq(s, 1, i)]
  <2>1. ASSUME NEW i \in 1..n PROVE rows[(n - i) + 1] = SubSeq(s, 1, i)
    <3>1. (n - i) + 1 \in 1..n /\ n + 1 - ((n - i) + 1) = i
      BY <1>2
    <3>2. QED BY <1>4, <3>1
  <2> HIDE DEF rows
  <2>2. QED BY <1>8, <2>1 DEF Reverse
<1>10. [i \in 1..n |-> SubSeq(s, 1, i)] # <<>>
  BY <1>2
<1>11. QED BY <1>2, <1>7, <1>9, <1>10

(* PagesExact, PagesAdvance and LineageTraced of every execution: what is  *)
(* stored can be traced and listed whole, for any lineages, documents and  *)
(* sizes, with any writers between the pages (runtimev2store, sqlite).     *)
THEOREM LineagesAreSafe == Spec => []LineageSafe
<1>1. LineageInv => LineageSafe
  <2> SUFFICES ASSUME LineageInv PROVE LineageSafe
    OBVIOUS
  <2>1. PagesAdvance
    BY DEF LineageInv, ListingInv, PagesAdvance
  <2>2. PagesExact
    <3>1. CASE ~listing.open
      BY <3>1 DEF LineageInv, ListingInv, PagesExact
    <3>2. CASE listing.open
      <4> DEFINE g == listing.got
                 d == listing.due
      <4>1. OpenInv(listing, Listed(listing.kind))
        BY <3>2 DEF LineageInv, ListingInv
      <4>2. /\ g \in Seq(Nat) /\ d \in Seq(Nat) /\ Len(g) <= Len(d)
            /\ \A i \in 1..Len(g) : g[i] = d[i]
        BY <4>1 DEF OpenInv
      <4> HIDE DEF g, d
      <4>3. SubSeq(g, 1, Len(g)) = SubSeq(d, 1, Len(g))
        BY <4>2
      <4>4. IsPrefix(g, d)
        BY <4>2, <4>3 DEF IsPrefix
      <4>5. QED BY <3>2, <4>4 DEF PagesExact, g, d
    <3>3. QED BY <3>1, <3>2
  <2>3. QED BY <2>1, <2>2, TraceIs DEF LineageSafe
<1>2. QED BY <1>1, StoresInit, StoresStep, LineageInvInit, LineageInvStep, PTL DEF Spec

(* StoresSafe of every execution: a container, the files of a state, a     *)
(* cached digest and a lineage are what they are taken for (runtime,       *)
(* snapshot, resolver, runtimev2store).                                    *)
THEOREM StoresAreSafe == StrongFS /\ FineStamps => (Spec => []StoresSafe)
<1> SUFFICES ASSUME StrongFS, FineStamps PROVE Spec => []StoresSafe
  OBVIOUS
<1>1. StateFilesSafe /\ ManagedStopClean /\ StoppedIsGone /\ ResolverSafe /\ LineageSafe => StoresSafe
  BY DEF StoresSafe
<1>2. Spec => []ResolverSafe
  BY ResolutionsAreSafe
<1>3. QED BY <1>1, <1>2, StateFilesAreSafe, ContainersAreSafe, LineagesAreSafe, PTL
=============================================================================
