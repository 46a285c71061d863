------------------------------ MODULE MCStores ------------------------------
(***************************************************************************)
(* What is kept on disk and in stores, under TLC: the files of a state,    *)
(* containers, sessions, the lineage store, the resolver of local files,   *)
(* the two ways to set up a store, alias files, and what the stages of a   *)
(* command leave behind.  They share no state: a behaviour is one of one   *)
(* of them, named by part, and the others keep an initial state.           *)
(***************************************************************************)
EXTENDS StateFiles, Containers, AuthSession, LineageStore, Resolver, LinuxStore, WslStore,
        AliasCases, CliStages

VARIABLE part
storeVars == <<part, stateFileVars, containerVars, authVars, lineageVars, resolverVars, linuxVars,
               wslVars, aliasVars, stageVars>>

RowBytes == [v \in {"f", "x"} |-> 1]   \* LineageStore: f, x, x just fits both limits of a trace
Replaced == {<<2, 2>>}   \* Resolver: a second content, in both halves
AnInvocation == CHOOSE i \in Invocations : i.cmd = "run"

Init ==
  /\ part \in {"files", "container", "auth", "lineage", "resolve", "linux", "wsl", "alias", "stages"}
  /\ ContainersInit /\ LineageInit /\ ResolverInit /\ AliasInit
  /\ IF part = "stages" THEN CliInit ELSE CliStart(AnInvocation)
  /\ StateFilesInit /\ (part # "files" => backend = "copy")
  /\ AuthInit /\ (part # "auth" => asRotates /\ asMode = "remoteSession")
  /\ LinuxInit /\ (part # "linux" => lsKind = "image" /\ lsHost = "ext4" /\ lsMount = NoMount)
  /\ WslInit /\ (part # "wsl" => wsForeign = "none")

Next ==
  \/ /\ part = "files" /\ StateFilesNext
     /\ UNCHANGED <<part, containerVars, authVars, lineageVars, resolverVars, linuxVars, wslVars,
                    aliasVars, stageVars>>
  \/ /\ part = "container" /\ ContainersNext
     /\ UNCHANGED <<part, stateFileVars, authVars, lineageVars, resolverVars, linuxVars, wslVars,
                    aliasVars, stageVars>>
  \/ /\ part = "auth" /\ AuthNext
     /\ UNCHANGED <<part, stateFileVars, containerVars, lineageVars, resolverVars, linuxVars,
                    wslVars, aliasVars, stageVars>>
  \/ /\ part = "lineage" /\ LineageNext
     /\ UNCHANGED <<part, stateFileVars, containerVars, authVars, resolverVars, linuxVars, wslVars,
                    aliasVars, stageVars>>
  \/ /\ part = "resolve" /\ ResolverNext
     /\ UNCHANGED <<part, stateFileVars, containerVars, authVars, lineageVars, linuxVars, wslVars,
                    aliasVars, stageVars>>
  \/ /\ part = "linux" /\ LinuxNext
     /\ UNCHANGED <<part, stateFileVars, containerVars, authVars, lineageVars, resolverVars,
                    wslVars, aliasVars, stageVars>>
  \/ /\ part = "wsl" /\ WslNext
     /\ UNCHANGED <<part, stateFileVars, containerVars, authVars, lineageVars, resolverVars,
                    linuxVars, aliasVars, stageVars>>
  \/ /\ part = "alias" /\ AliasNext
     /\ UNCHANGED <<part, stateFileVars, containerVars, authVars, lineageVars, resolverVars,
                    linuxVars, wslVars, stageVars>>
  \/ /\ part = "stages" /\ CliNext
     /\ UNCHANGED <<part, stateFileVars, containerVars, authVars, lineageVars, resolverVars,
                    linuxVars, wslVars, aliasVars>>

Spec == Init /\ [][Next]_storeVars

-----------------------------------------------------------------------------
\* A managed container is stopped cleanly before its data is used and a runtime
\* reported as stopped is gone (Containers); a published state is a whole copy of
\* a stopped server, on every back end (StateFiles); a cached digest is that of the
\* file it is returned for (Resolver); a listing returns every record once while
\* records are added (LineageStore).
StoresSafe ==
  CASE part = "files" -> StateFilesSafe
    [] part = "container" -> ManagedStopClean /\ StoppedIsGone
    [] part = "resolve" -> ResolverSafe
    [] part = "lineage" -> LineageSafe
    [] OTHER -> TRUE

\* A session belongs to the account it was made for, stays reachable and keeps its
\* newest token (AuthSession); setting up a store formats nothing that holds data
\* unless told to (LinuxStore, WslStore).
SetupSafe ==
  CASE part = "auth" -> AuthSafe
    [] part = "linux" -> LinuxStoreSafe
    [] part = "wsl" -> WslStoreSafe
    [] OTHER -> TRUE

\* A command reads, runs and cleans up what its invocation says, at every exit
\* (CliStages); an alias means at run what it meant when created, and is listed
\* under a name that finds it (AliasFiles).
CommandSafe ==
  CASE part = "stages" -> CliStagesSafe
    [] part = "alias" -> AliasFilesSafe
    [] OTHER -> TRUE
=============================================================================
