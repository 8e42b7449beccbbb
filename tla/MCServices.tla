------------------------------- MODULE MCServices -------------------------------
(***************************************************************************)
(* Six services that share no state: aliases and permissions, tags,        *)
(* schemas, the keys and the repository cache of the core server, and      *)
(* metrics.  A behaviour is one of one service, chosen at its start, while *)
(* the others stay as they are.                                            *)
(***************************************************************************)
EXTENDS MCAccess, Tags, Schemas, RepoCache, Metrics

CONSTANTS n1, n2, zero, sort

coreVars == <<tagVars, schVars, serverVars, metVars>>
svcVars == <<accessVars, coreVars>>

MCIndexOf == (zero :> 0)
\* Bound: the count of a tag, which grows when it is taken for an index or a name.
MaxUses == 4
SvcInit == /\ part \in {"aliases", "permissions", "tags", "schemas", "server", "metrics"}
           /\ AliasInit /\ PermsInit /\ TagsInit /\ SchInit /\ ServerInit /\ MetInit

SvcNext ==
  \/ part \in {"aliases", "permissions"} /\ AccessNext /\ UNCHANGED coreVars
  \/ /\ UNCHANGED accessVars
     /\ \/ /\ part = "tags" /\ TagsCleanNext /\ \A t \in TagNames : count'[t] <= MaxUses
           /\ UNCHANGED <<schVars, serverVars, metVars>>
        \/ part = "schemas" /\ SchCleanNext /\ UNCHANGED <<tagVars, serverVars, metVars>>
        \/ part = "server" /\ ServerCleanNext /\ UNCHANGED <<tagVars, schVars, metVars>>
        \/ part = "metrics" /\ MetNext /\ UNCHANGED <<tagVars, schVars, serverVars>>

SvcSpec == SvcInit /\ [][SvcNext]_svcVars
=============================================================================
