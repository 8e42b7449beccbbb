------------------------------ MODULE RepoCache ------------------------------
(***************************************************************************)
(* The cache of repositories in the core server, and the registration of   *)
(* their keys (core/server: Config.cpp, repoCacheThread of CoreServer.cpp, *)
(* procRepoCreate, procRepoUpdate and procRepoDelete of ClientWorker.cpp), *)
(* together with the authentication manager that holds the keys.  Client   *)
(* workers change a repository in the database and then raise a flag; a    *)
(* thread that polls the flag reads all repositories and caches them.      *)
(*                                                                         *)
(* The settings of repositories are taken to be valid.  A repository is    *)
(* named by its key, and its version is the change that made it.           *)
(***************************************************************************)
EXTENDS AuthKeys

CONSTANTS Repos,      \* keys of repositories
          MaxChanges  \* bound: changes of repositories

ASSUME CacheAssumption == Repos \subseteq Keys /\ MaxChanges \in Nat

VARIABLES repo,    \* repositories in the database: version, 0 for none
          changes, \* changes of repositories so far
          untold,  \* changes for which the flag is not raised yet
          refresh, \* m_trigger_repo_refresh
          cached,  \* m_repos: version, 0 for none
          load     \* the thread: what it has left of what it read, and the
                   \* repository whose key it has looked up

cacheVars == <<repo, changes, untold, refresh, cached, load>>
serverVars == <<authVars, cacheVars>>

Idle == [pc |-> "sleep", left |-> [r \in Repos |-> 0], at |-> NoKey, found |-> {}]
Left == {r \in Repos : load.left[r] # 0}

-----------------------------------------------------------------------------
CacheInit == /\ repo = [r \in Repos |-> 0]
             /\ changes = 0
             /\ untold = 0
             /\ refresh = TRUE
             /\ cached = [r \in Repos |-> 0]
             /\ load = Idle

\* The change in the database, and then triggerRepoCacheRefresh.
ChangeRepo(r, v) ==
  /\ untold = 0 /\ changes < MaxChanges
  /\ IF v = 0 THEN repo[r] # 0 ELSE v = changes + 1
  /\ changes' = changes + 1
  /\ repo' = [repo EXCEPT ![r] = v]
  /\ untold' = 1
  /\ UNCHANGED <<authVars, refresh, cached, load>>

\* Mutant: the flag is not raised.
TriggerRefresh_none ==
  /\ untold > 0
  /\ untold' = 0
  /\ UNCHANGED <<authVars, repo, changes, refresh, cached, load>>

TriggerRefresh ==
  /\ untold > 0
  /\ untold' = 0
  /\ refresh' = TRUE
  /\ UNCHANGED <<authVars, repo, changes, cached, load>>

\* loadRepositoryConfig
LoadStart ==
  /\ load.pc = "sleep" /\ refresh
  /\ load' = [load EXCEPT !.pc = "read"]
  /\ UNCHANGED <<authVars, repo, changes, untold, refresh, cached>>
LoadRead ==
  /\ load.pc = "read"
  /\ load' = IF \A r \in Repos : repo[r] = 0 THEN Idle
             ELSE [load EXCEPT !.pc = "repos", !.left = repo]
  /\ UNCHANGED <<authVars, repo, changes, untold, refresh, cached>>
LoadLookUp(r) ==
  /\ load.pc = "repos" /\ load.at = NoKey /\ r \in Left
  /\ load' = [load EXCEPT !.at = r,
                          !.found = {m \in {"trans", "session"} :
                                       r \in Present(IF m = "trans" THEN trans ELSE session)}]
  /\ UNCHANGED <<authVars, repo, changes, untold, refresh, cached>>

\* migrateKey or addKey: a key cannot be moved from the transient map, nor from
\* the session map when it is not there any more.  Then the load is given up.
CanRegister(r) == "trans" \notin load.found /\ ("session" \in load.found => r \in Present(session))
LoadFails ==
  /\ load.at # NoKey /\ ~CanRegister(load.at)
  /\ load' = Idle
  /\ UNCHANGED <<authVars, repo, changes, untold, refresh, cached>>

\* The flag is cleared for each repository.
Cache(r) ==
  /\ cached' = [cached EXCEPT ![r] = load.left[r]]
  /\ refresh' = FALSE
  /\ load' = IF Left = {r} THEN Idle
             ELSE [load EXCEPT !.left[r] = 0, !.at = NoKey, !.found = {}]

\* Mutant: a session key is moved and does not arrive.
LoadRepo_removes(r) ==
  /\ load.at = r /\ CanRegister(r)
  /\ session' = IF "session" \in load.found THEN [session EXCEPT ![r] = NoKey] ELSE session
  /\ persistent' = IF "session" \in load.found THEN persistent ELSE persistent \cup {r}
  /\ Cache(r)
  /\ UNCHANGED <<now, trans, nextPurge, proxy, anon, repo, changes, untold>>

LoadRepo(r) ==
  /\ load.at = r /\ CanRegister(r)
  /\ session' = IF "session" \in load.found THEN [session EXCEPT ![r] = NoKey] ELSE session
  /\ persistent' = persistent \cup {r}
  /\ Cache(r)
  /\ UNCHANGED <<now, trans, nextPurge, proxy, anon, repo, changes, untold>>

\* One step of the authentication manager, or of the cache.
CacheStep == \/ \E r \in Repos, v \in 0..MaxChanges : ChangeRepo(r, v)
             \/ TriggerRefresh
             \/ LoadStart
             \/ LoadRead
             \/ \E r \in Repos : LoadLookUp(r)
             \/ LoadFails
             \/ \E r \in Repos : LoadRepo(r)
ServerInit == AuthInit /\ CacheInit
ServerNext == \/ AuthNext /\ UNCHANGED cacheVars
              \/ CacheStep
ServerSpec == ServerInit /\ [][ServerNext]_serverVars

\* The runs leave out what loses a refresh: a change, or its trigger, during a
\* load, whose first repository clears the flag; and a load that is given up
\* after its first repository.
CleanCacheStep ==
  \/ \E r \in Repos, v \in 0..MaxChanges : load.pc = "sleep" /\ ChangeRepo(r, v)
  \/ TriggerRefresh
  \/ LoadStart
  \/ LoadRead
  \/ \E r \in Repos : LoadLookUp(r)
  \/ refresh /\ LoadFails
  \/ \E r \in Repos : LoadRepo(r)
ServerCleanNext == \/ AuthNext /\ UNCHANGED cacheVars
                   \/ CleanCacheStep
ServerCleanSpec == ServerInit /\ [][ServerCleanNext]_serverVars
-----------------------------------------------------------------------------
\* The check at the end of loadRepositoryConfig ("KEY MISSING!"): the key of a
\* cached repository is persistent, whatever clients and purges did with it
\* between the look-up and the migration.
RepoKeysKnown == \A r \in Repos : cached[r] # 0 => r \in persistent

\* When no refresh is due, no load is under way and every change has raised the
\* flag, the cache has every repository as it is in the database.
CacheFresh == ~refresh /\ load.pc = "sleep" /\ untold = 0
                => \A r \in Repos : repo[r] # 0 => cached[r] = repo[r]
=============================================================================
