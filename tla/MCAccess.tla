-------------------------------- MODULE MCAccess --------------------------------
(***************************************************************************)
(* Instances of Aliases and Permissions, which share no state.  A          *)
(* behaviour is one of either of them, chosen at its start, while the      *)
(* other stays as it is.                                                   *)
(***************************************************************************)
EXTENDS Aliases, Permissions, TLC

CONSTANTS u, p,                   \* a user and a project
          r1, r2, coll,           \* objects with aliases
          rec,
          root, mid, low, home,   \* collections of p, one below the other, and of u
          mems, grp,              \* the members of p, and a group of u
          me

VARIABLE part

accessVars == <<part, aliasVars, permVars>>

MCUppers == root :> {root} @@ mid :> {root, mid} @@ low :> {root, mid, low} @@ home :> {home}
MCOwnerOf == root :> p @@ mid :> p @@ low :> p @@ home :> u @@ mems :> p @@ grp :> u
MCGrants == {[grant |-> {"list", "read"}, inhgrant |-> {}],
             [grant |-> {"del"}, inhgrant |-> {"list", "del"}]}

\* The records of Aliases; they are nothing in Permissions.  In other instances that
\* extend this one they stand for other things that are alike.
Symmetry == Permutations({r1, r2})

AccessInit == part \in {"aliases", "permissions"} /\ AliasInit /\ PermsInit

AccessNext == /\ UNCHANGED part
              /\ \/ part = "aliases" /\ AliasNext /\ UNCHANGED permVars
                 \/ part = "permissions" /\ PermsCleanNext /\ UNCHANGED aliasVars

AccessSpec == AccessInit /\ [][AccessNext]_accessVars
=============================================================================
