----------------------------- MODULE AuthSession ------------------------------
(* Remote sessions of the CLI: login, token resolution with refresh, logout and *)
(* the migration of a legacy credential (authsession/manager.go, app/auth.go,   *)
(* app/init.go), by several CLI processes that share the credential store of    *)
(* the system and the workspace configuration without a lock.                  *)
EXTENDS Integers, FiniteSets

CONSTANTS
    AuthClis,        \* CLI processes
    Users,           \* subjects of the identity provider
    MaxLogins, MaxRefreshes,  \* bounds
    NoSession

VARIABLES
    asStore,      \* credential store: key -> session
    asMode, asEndpoint,   \* the profile: "oidcSession" or "remoteSession"; its endpoint
    asGrants,     \* refresh tokens the provider honours
    asRotates,    \* the provider replaces a refresh token when it is used
    asPc, asCopy, asKey, \* every process: where it is, the session it holds, its key
    asLogins, asRefreshes,
    asHeld,       \* history: the profile has a session nobody gave up
    asLost,       \* history: refresh tokens that were replaced, the answer not stored
    asRevoked     \* history: refresh tokens that a logout revoked

authVars == <<asStore, asMode, asEndpoint, asGrants, asRotates, asPc, asCopy,
              asKey, asLogins, asRefreshes, asHeld, asLost, asRevoked>>
asProfile == <<asMode, asEndpoint>>
asProvider == <<asGrants, asRotates, asLogins, asRefreshes>>
asTokens == <<asLost, asRevoked>>
asHistory == <<asHeld, asTokens>>

\* Mutant of stableName.
StableNameByEndpoint(mode, endpoint) == <<"legacy", endpoint>>

\* stableName: an installation is the trust anchor of a remote session, whatever
\* the endpoint; the legacy key contains the endpoint.
stableName(mode, endpoint) == IF mode = "remoteSession" THEN <<"installation">> ELSE <<"legacy", endpoint>>
Keys == {<<"installation">>, <<"legacy", "control">>, <<"legacy", "org">>}
ProfileKey == stableName(asMode, asEndpoint)

\* A refresh token belongs to a login (its nonce) of a subject; gen counts rotations.
Grant(u, n, g) == [sub |-> u, nonce |-> n, gen |-> g]
Session(u, n, g, f) == [sub |-> u, nonce |-> n, grant |-> g, id |-> u, fresh |-> f]
Sessions == [sub : Users, nonce : Nat, grant : [sub : Users, nonce : Nat, gen : Nat], id : Users, fresh : BOOLEAN]

ASSUME AuthAssumption == NoSession \notin Sessions

AuthInit ==
    /\ asRotates \in BOOLEAN /\ asEndpoint = "control"
    /\ asPc = [p \in AuthClis |-> "idle"]
    /\ asKey = [p \in AuthClis |-> <<"installation">>]
    /\ asCopy = [p \in AuthClis |-> NoSession]
    /\ asLogins = 0 /\ asRefreshes = 0 /\ asLost = {} /\ asRevoked = {}
    /\ \/ /\ asMode = "remoteSession" /\ asHeld = FALSE /\ asGrants = {}
          /\ asStore = [k \in Keys |-> NoSession]
       \/ /\ asMode = "oidcSession" /\ asHeld = TRUE
          /\ \E u \in Users :
               /\ asGrants = {Grant(u, 0, 0)}
               /\ asStore = [k \in Keys |-> IF k = <<"legacy", "control">>
                                              THEN Session(u, 0, Grant(u, 0, 0), FALSE) ELSE NoSession]

GoAuth(p, l, c) ==
    /\ asPc' = [asPc EXCEPT ![p] = l] /\ asCopy' = [asCopy EXCEPT ![p] = c]
    /\ asKey' = [asKey EXCEPT ![p] = IF asPc[p] = "idle" THEN ProfileKey ELSE @]
EndAuth(p) ==
    /\ asPc' = [asPc EXCEPT ![p] = "idle"] /\ asCopy' = [asCopy EXCEPT ![p] = NoSession]
    /\ asKey' = [asKey EXCEPT ![p] = <<"installation">>]

-----------------------------------------------------------------------------
(* LoginOIDC, then reconcileLoginEndpoint.                                    *)

\* The callback carries the state of this login, the exchange is bound to its
\* verifier and nonce, and the claims are those of the issuer, client and nonce.
LoginOIDC(p, u) ==
    /\ asPc[p] = "idle" /\ asMode = "remoteSession" /\ asLogins < MaxLogins
    /\ LET g == Grant(u, asLogins + 1, 0) IN
       /\ asGrants' = asGrants \cup {g}
       /\ GoAuth(p, "storeLogin", Session(u, asLogins + 1, g, TRUE))
    /\ asLogins' = asLogins + 1
    /\ UNCHANGED <<asStore, asProfile, asRotates, asRefreshes, asHistory>>

StoreLogin(p) ==
    /\ asPc[p] = "storeLogin"
    /\ asStore' = [asStore EXCEPT ![<<"installation">>] = asCopy[p]]
    /\ asHeld' = TRUE
    /\ GoAuth(p, "reconcile", NoSession)
    /\ UNCHANGED <<asProfile, asProvider, asTokens>>

\* The only organisation of the user becomes the endpoint of the profile; other
\* answers leave it, an error is a warning.
reconcileLoginEndpoint(p) ==
    /\ asPc[p] = "reconcile"
    /\ asEndpoint' \in {asEndpoint, "org"}
    /\ EndAuth(p)
    /\ UNCHANGED <<asStore, asMode, asProvider, asHistory>>

-----------------------------------------------------------------------------
(* ResolveBearerToken, before every command in remote mode.                   *)

\* A fresh ID token is used as it is; a missing session asks for a login.
UseSession(p) ==
    /\ asPc[p] = "idle"
    /\ asStore[ProfileKey] # NoSession => asStore[ProfileKey].fresh
    /\ UNCHANGED authVars

\* ShouldRefresh: the ID token has expired or is about to.
ReadSession(p) ==
    /\ asPc[p] = "idle"
    /\ asStore[ProfileKey] # NoSession /\ ~asStore[ProfileKey].fresh
    /\ GoAuth(p, "refresh", asStore[ProfileKey])
    /\ UNCHANGED <<asStore, asProfile, asProvider, asHistory>>

\* Mutant of RefreshSession.
RefreshTrustsAnswer(p) ==
    /\ asPc[p] = "refresh" /\ asRefreshes < MaxRefreshes
    /\ asCopy[p].grant \in asGrants
    /\ asRefreshes' = asRefreshes + 1
    /\ LET s == asCopy[p]
           g == IF asRotates THEN [s.grant EXCEPT !.gen = @ + 1] ELSE s.grant IN
       /\ asGrants' = (asGrants \ {s.grant}) \cup {g}
       /\ \E u \in Users : GoAuth(p, "storeRefresh", [s EXCEPT !.grant = g, !.id = u, !.fresh = TRUE])
    /\ UNCHANGED <<asStore, asProfile, asRotates, asLogins, asHistory>>

\* The provider honours the token and may replace it; the ID token of the answer
\* is checked against the login: subject and nonce.  The copy is updated.
RefreshSession(p) ==
    /\ asPc[p] = "refresh" /\ asRefreshes < MaxRefreshes
    /\ asCopy[p].grant \in asGrants
    /\ asRefreshes' = asRefreshes + 1
    /\ LET s == asCopy[p]
           g == IF asRotates THEN [s.grant EXCEPT !.gen = @ + 1] ELSE s.grant IN
       /\ asGrants' = (asGrants \ {s.grant}) \cup {g}
       /\ \E u \in Users :
            IF u = s.sub
              THEN /\ GoAuth(p, "storeRefresh", [s EXCEPT !.grant = g, !.id = u, !.fresh = TRUE])
                   /\ UNCHANGED asLost
              ELSE EndAuth(p) /\ asLost' = IF asRotates THEN asLost \cup {s.grant} ELSE asLost
    /\ UNCHANGED <<asStore, asProfile, asRotates, asLogins, asHeld, asRevoked>>

\* invalid_grant, a network error, a provider that changed: the session stays.
RefreshFails(p) ==
    /\ asPc[p] = "refresh"
    /\ EndAuth(p)
    /\ UNCHANGED <<asStore, asProfile, asProvider, asHistory>>

\* Mutant of StoreRefresh.
StoreRefreshTokenOnly(p) ==
    /\ asPc[p] = "storeRefresh"
    /\ asStore' = [asStore EXCEPT ![asKey[p]] = [asCopy[p] EXCEPT !.grant.gen = 0]]
    /\ EndAuth(p)
    /\ UNCHANGED <<asProfile, asProvider, asHistory>>

\* The whole session is written back under the key it was read from.
StoreRefresh(p) ==
    /\ asPc[p] = "storeRefresh"
    /\ asStore' = [asStore EXCEPT ![asKey[p]] = asCopy[p]]
    /\ EndAuth(p)
    /\ UNCHANGED <<asProfile, asProvider, asHistory>>

\* The write fails or the process is killed before it.
StoreRefreshFails(p) ==
    /\ asPc[p] = "storeRefresh"
    /\ asLost' = asLost \cup {[asCopy[p].grant EXCEPT !.gen = @ - 1]}
    /\ EndAuth(p)
    /\ UNCHANGED <<asStore, asProfile, asProvider, asHeld, asRevoked>>

-----------------------------------------------------------------------------
(* Logout: revocation is optional and its failure only reported.               *)

BeginLogout(p) ==
    /\ asPc[p] = "idle" /\ asStore[ProfileKey] # NoSession
    /\ GoAuth(p, "revoke", asStore[ProfileKey])
    /\ asHeld' = FALSE
    /\ UNCHANGED <<asStore, asProfile, asProvider, asTokens>>

Revoke(p) ==
    /\ asPc[p] = "revoke"
    /\ \/ UNCHANGED <<asGrants, asRevoked>>
       \/ asGrants' = asGrants \ {asCopy[p].grant} /\ asRevoked' = asRevoked \cup {asCopy[p].grant}
    /\ GoAuth(p, "forget", NoSession)
    /\ UNCHANGED <<asStore, asProfile, asRotates, asLogins, asRefreshes, asHeld, asLost>>

\* Clear deletes by key whatever session is there: one that another process has
\* stored meanwhile goes too, and counts as given up like the one logged out.
Forget(p) ==
    /\ asPc[p] = "forget"
    /\ asStore' = [asStore EXCEPT ![asKey[p]] = NoSession]
    /\ EndAuth(p)
    /\ asHeld' = FALSE
    /\ UNCHANGED <<asProfile, asProvider, asTokens>>

-----------------------------------------------------------------------------
(* MigrateLegacyCredential, called by sqlrs init remote --update.              *)

\* The destination exists: only the configuration changes.  The legacy session
\* cannot be used (another origin, or none): commit, and a login is required.
BeginMigration(p) ==
    /\ asPc[p] = "idle" /\ asMode = "oidcSession"
    /\ \/ /\ asStore[<<"installation">>] # NoSession
          /\ GoAuth(p, "commit", NoSession) /\ UNCHANGED asHeld
       \/ /\ asStore[<<"installation">>] = NoSession
          /\ GoAuth(p, "commit", NoSession) /\ asHeld' = FALSE
       \/ /\ asStore[<<"installation">>] = NoSession /\ asStore[ProfileKey] # NoSession
          /\ GoAuth(p, "copy", asStore[ProfileKey]) /\ UNCHANGED asHeld
    /\ UNCHANGED <<asStore, asProfile, asProvider, asTokens>>

CopyCredential(p) ==
    /\ asPc[p] = "copy"
    /\ asStore' = [asStore EXCEPT ![<<"installation">>] = asCopy[p]]
    /\ GoAuth(p, "verify", asCopy[p])
    /\ UNCHANGED <<asProfile, asProvider, asHistory>>

\* Read back and compare.
VerifyCredential(p) ==
    /\ asPc[p] = "verify"
    /\ IF asStore[<<"installation">>] = asCopy[p] THEN GoAuth(p, "commit", asCopy[p]) ELSE EndAuth(p)
    /\ UNCHANGED <<asStore, asProfile, asProvider, asHistory>>

\* Mutant of CommitProfile.
CommitProfileLast(p) ==
    /\ asPc[p] = "commit"
    /\ asMode' = IF asCopy[p] = NoSession THEN "remoteSession" ELSE asMode
    /\ IF asCopy[p] = NoSession THEN EndAuth(p) ELSE GoAuth(p, "erase", NoSession)
    /\ UNCHANGED <<asStore, asEndpoint, asProvider, asHistory>>

CommitProfile(p) ==
    /\ asPc[p] = "commit"
    /\ asMode' = "remoteSession"
    /\ IF asCopy[p] = NoSession THEN EndAuth(p) ELSE GoAuth(p, "erase", NoSession)
    /\ UNCHANGED <<asStore, asEndpoint, asProvider, asHistory>>

EraseLegacy(p) ==
    /\ asPc[p] = "erase"
    /\ asStore' = [asStore EXCEPT ![<<"legacy", "control">>] = NoSession]
    /\ EndAuth(p)
    /\ UNCHANGED <<asProfile, asProvider, asHistory>>

\* A step of the store or of the configuration fails, or the process is killed.
AuthFails(p) ==
    /\ asPc[p] \in {"storeLogin", "reconcile", "revoke", "forget", "copy", "verify", "commit", "erase"}
    /\ EndAuth(p)
    /\ UNCHANGED <<asStore, asProfile, asProvider, asHistory>>

\* ID tokens expire: ShouldRefresh.
ExpireTokens ==
    /\ \E k \in Keys : asStore[k] # NoSession /\ asStore[k].fresh
    /\ asStore' = [k \in Keys |-> IF asStore[k] = NoSession THEN NoSession ELSE [asStore[k] EXCEPT !.fresh = FALSE]]
    /\ UNCHANGED <<asProfile, asProvider, asPc, asCopy, asKey, asHistory>>

AuthNext ==
    \/ \E p \in AuthClis :
         \/ \E u \in Users : LoginOIDC(p, u)
         \/ StoreLogin(p) \/ reconcileLoginEndpoint(p)
         \/ UseSession(p) \/ ReadSession(p) \/ RefreshSession(p)
         \/ RefreshFails(p) \/ StoreRefresh(p) \/ StoreRefreshFails(p)
         \/ BeginLogout(p) \/ Revoke(p) \/ Forget(p)
         \/ BeginMigration(p) \/ CopyCredential(p) \/ VerifyCredential(p) \/ CommitProfile(p) \/ EraseLegacy(p)
         \/ AuthFails(p)
    \/ ExpireTokens

-----------------------------------------------------------------------------
(* Properties.                                                                *)

\* A session is of one login: subject, nonce, refresh token and ID token of what
\* is stored, and of what a command is about to use, belong together, whoever
\* refreshed it.
SessionBound ==
    \A s \in {asStore[k] : k \in Keys} \cup {asCopy[p] : p \in AuthClis} :
        s # NoSession => s.id = s.sub /\ s.grant.sub = s.sub /\ s.grant.nonce = s.nonce

\* A session nobody gave up is found under the key of the profile at every moment:
\* also between the steps of a migration and after one that failed, after a
\* refresh that failed, and after the login moved the endpoint.
SessionReachable == asHeld => asStore[ProfileKey] # NoSession

\* A stored refresh token that the provider no longer honours was revoked, is about
\* to be replaced by the process that used it, or its replacement was lost with it.
\* (Sessions of LoginOIDC; a migration may copy a token while it is being replaced.)
RotationKept ==
    LET s == asStore[ProfileKey] IN
    s # NoSession /\ s.nonce > 0 =>
        \/ s.grant \in asGrants \cup asLost \cup asRevoked
        \/ \E p \in AuthClis : asPc[p] = "storeRefresh" /\ asCopy[p].nonce = s.nonce

AuthSafe == SessionBound /\ SessionReachable /\ RotationKept
=============================================================================
