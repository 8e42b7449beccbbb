---------------------------- MODULE ServicesProofs ----------------------------
(***************************************************************************)
(* Tags, schemas, the keys and the repository cache of the core server,    *)
(* and metrics, with any number of whatever they are about.                *)
(***************************************************************************)
EXTENDS Tags, Schemas, RepoCache, Metrics, TLAPS, FiniteSetTheorems, WellFoundedInduction

-----------------------------------------------------------------------------
\* Induction, over numbers and over the subsets of a finite set, by the least one
\* that is not in C.
LEMMA NatSets ==
  ASSUME NEW C, 0 \in C, \A n \in Nat : n \in C => n + 1 \in C
  PROVE  Nat \subseteq C
  <1> SUFFICES ASSUME Nat \ C # {} PROVE FALSE
    OBVIOUS
  <1>1. PICK n \in Nat \ C : \A m \in Nat \ C : ~(<<m, n>> \in OpToRel(<, Nat))
    BY NatLessThanWellFounded, WFMin
  <1>2. \A m \in Nat \ C : ~(m < n)
    BY <1>1 DEF OpToRel
  <1>3. n - 1 \in Nat /\ n - 1 \in C
    BY <1>2
  <1> QED BY <1>3

\* The element that the folds take first.
Pick(s) == CHOOSE x \in s : TRUE

LEMMA PickRest ==
  ASSUME NEW T, IsFiniteSet(T), NEW s \in SUBSET T, s # {}
  PROVE  /\ Pick(s) \in s /\ s \ {Pick(s)} \in SUBSET T
         /\ Cardinality(s) \in Nat \ {0} /\ Cardinality(s \ {Pick(s)}) = Cardinality(s) - 1
  <1>1. Pick(s) \in s
    BY DEF Pick
  <1>2. IsFiniteSet(s)
    BY FS_Subset
  <1> QED BY <1>1, <1>2, FS_RemoveElement, FS_CardinalityType, FS_EmptySet

LEMMA SubsetSets ==
  ASSUME NEW T, IsFiniteSet(T), NEW C, {} \in C,
         \A s \in SUBSET T : s # {} /\ s \ {Pick(s)} \in C => s \in C
  PROVE  SUBSET T \subseteq C
  <1> DEFINE D == {n \in Nat : \A s \in SUBSET T : Cardinality(s) = n => s \in C}
  <1>1. \A s \in SUBSET T : IsFiniteSet(s) /\ Cardinality(s) \in Nat
    BY FS_Subset, FS_CardinalityType
  <1>2. 0 \in D
    BY <1>1, FS_EmptySet
  <1>3. \A n \in Nat : n \in D => n + 1 \in D
    <2> SUFFICES ASSUME NEW n \in D, NEW s \in SUBSET T, Cardinality(s) = n + 1 PROVE s \in C
      OBVIOUS
    <2>1. s # {}
      BY FS_EmptySet
    <2>2. Cardinality(s \ {Pick(s)}) = n /\ s \ {Pick(s)} \in SUBSET T
      BY <2>1, PickRest
    <2> QED BY <2>1, <2>2
  <1> HIDE DEF D
  <1>4. Nat \subseteq D
    BY <1>2, <1>3, NatSets
  <1> QED BY <1>1, <1>4 DEF D

\* A sum over a finite set is what the fold computes for it, step by step.
SumStep(f, g, s) == IF s = {} THEN 0 ELSE f[Pick(s)] + g[s \ {Pick(s)}]
IsSum(f, g, T) == g = [s \in SUBSET T |-> SumStep(f, g, s)]

LEMMA SumExists ==
  ASSUME NEW T, IsFiniteSet(T), NEW f
  PROVE  \E g : IsSum(f, g, T)
  <1> DEFINE UpTo(g, n) == \A s \in SUBSET T : Cardinality(s) <= n => g[s] = SumStep(f, g, s)
             C == {n \in Nat : \E g : g = [s \in SUBSET T |-> g[s]] /\ UpTo(g, n)}
  <1>1. \A s \in SUBSET T : IsFiniteSet(s) /\ Cardinality(s) \in Nat
    BY FS_Subset, FS_CardinalityType
  <1>2. 0 \in C
    <2> DEFINE g == [s \in SUBSET T |-> 0]
    <2>1. \A s \in SUBSET T : Cardinality(s) <= 0 => s = {}
      BY <1>1, FS_EmptySet
    <2>2. g = [s \in SUBSET T |-> g[s]] /\ UpTo(g, 0)
      BY <2>1 DEF SumStep
    <2> QED BY <2>2
  <1>3. ASSUME NEW n \in Nat, n \in C PROVE n + 1 \in C
    <2>1. PICK g : g = [s \in SUBSET T |-> g[s]] /\ UpTo(g, n)
      BY <1>3
    <2> DEFINE h == [s \in SUBSET T |-> IF Cardinality(s) <= n THEN g[s] ELSE SumStep(f, g, s)]
    <2>2. \A s \in SUBSET T : h[s] = SumStep(f, g, s) \/ Cardinality(s) > n + 1
      BY <1>1, <2>1
    <2>3. ASSUME NEW s \in SUBSET T, Cardinality(s) <= n + 1 PROVE SumStep(f, h, s) = SumStep(f, g, s)
      <3>1. CASE s = {}
        BY <3>1 DEF SumStep
      <3>2. CASE s # {}
        <4>1. s \ {Pick(s)} \in SUBSET T /\ Cardinality(s \ {Pick(s)}) <= n
          BY <1>1, <2>3, <3>2, PickRest
        <4>2. h[s \ {Pick(s)}] = g[s \ {Pick(s)}]
          BY <4>1
        <4> QED BY <3>2, <4>2 DEF SumStep
      <3> QED BY <3>1, <3>2
    <2>4. UpTo(h, n + 1)
      BY <1>1, <2>1, <2>2, <2>3
    <2>5. h = [s \in SUBSET T |-> h[s]]
      OBVIOUS
    <2>6. \E x : x = [s \in SUBSET T |-> x[s]] /\ UpTo(x, n + 1)
      <3> HIDE DEF h, UpTo
      <3> QED BY <2>4, <2>5
    <2> HIDE DEF UpTo
    <2> QED BY <2>6
  <1> HIDE DEF C
  <1>4. Cardinality(T) \in C
    BY <1>1, <1>2, <1>3, NatSets
  <1>5. PICK g : g = [s \in SUBSET T |-> g[s]] /\ UpTo(g, Cardinality(T))
    BY <1>4 DEF C
  <1>6. \A s \in SUBSET T : Cardinality(s) <= Cardinality(T)
    BY FS_Subset
  <1>7. g = [s \in SUBSET T |-> SumStep(f, g, s)]
    BY <1>5, <1>6
  <1> QED BY <1>7 DEF IsSum

\* Sums of naturals are naturals.
LEMMA SumNat ==
  ASSUME NEW T, IsFiniteSet(T), NEW f, \A t \in T : f[t] \in Nat, NEW g, IsSum(f, g, T)
  PROVE  \A s \in SUBSET T : g[s] \in Nat
  <1> DEFINE C == {s \in SUBSET T : g[s] \in Nat}
  <1>1. \A s \in SUBSET T : g[s] = SumStep(f, g, s)
    BY DEF IsSum
  <1>2. {} \in C
    BY <1>1 DEF SumStep
  <1>3. ASSUME NEW s \in SUBSET T, s # {}, s \ {Pick(s)} \in C PROVE s \in C
    BY <1>1, <1>3, PickRest DEF SumStep
  <1> HIDE DEF C
  <1>4. SUBSET T \subseteq C
    BY <1>2, <1>3, SubsetSets
  <1> QED BY <1>4 DEF C

-----------------------------------------------------------------------------
\* Metrics.  The total of the messages of a user.
LEMMA TotalIs ==
  ASSUME NEW msg
  PROVE  \E g : IsSum(msg, g, MetTypes) /\ TotalOf(msg) = g[MetTypes]
  <1> DEFINE g == CHOOSE g : g = [s \in SUBSET MetTypes |-> IF s = {} THEN 0
                                     ELSE LET x == CHOOSE x \in s : TRUE IN msg[x] + g[s \ {x}]]
  <1>1. TotalOf(msg) = g[MetTypes]
    BY Zenon DEF TotalOf, MapThenSumSet, MapThenFoldSet
  <1>2. g = CHOOSE x : IsSum(msg, x, MetTypes)
    BY Zenon DEF IsSum, SumStep, Pick
  <1> HIDE DEF g
  <1> QED BY <1>1, <1>2, SumExists, MetAssumption

LEMMA TotalNat ==
  ASSUME NEW msg, \A t \in MetTypes : msg[t] \in Nat
  PROVE  TotalOf(msg) \in Nat
  BY TotalIs, SumNat, MetAssumption

LEMMA TotalAdds ==
  ASSUME NEW f, NEW g, NEW h, \A t \in MetTypes : f[t] \in Nat /\ g[t] \in Nat /\ h[t] = f[t] + g[t]
  PROVE  TotalOf(h) = TotalOf(f) + TotalOf(g)
  <1>1. PICK sf : IsSum(f, sf, MetTypes) /\ TotalOf(f) = sf[MetTypes]
    BY TotalIs
  <1>2. PICK sg : IsSum(g, sg, MetTypes) /\ TotalOf(g) = sg[MetTypes]
    BY TotalIs
  <1>3. PICK sh : IsSum(h, sh, MetTypes) /\ TotalOf(h) = sh[MetTypes]
    BY TotalIs
  <1> DEFINE C == {s \in SUBSET MetTypes : sh[s] = sf[s] + sg[s]}
  <1>4. \A s \in SUBSET MetTypes : /\ sf[s] = SumStep(f, sf, s) /\ sg[s] = SumStep(g, sg, s)
                          /\ sh[s] = SumStep(h, sh, s)
    BY <1>1, <1>2, <1>3 DEF IsSum
  <1>5. {} \in C
    <2>1. sf[{}] = 0 /\ sg[{}] = 0 /\ sh[{}] = 0
      BY <1>4 DEF SumStep
    <2> QED BY <2>1
  <1>6. \A s \in SUBSET MetTypes : sf[s] \in Nat /\ sg[s] \in Nat
    BY <1>1, <1>2, SumNat, MetAssumption
  <1>7. ASSUME NEW s \in SUBSET MetTypes, s # {}, s \ {Pick(s)} \in C PROVE s \in C
    <2> DEFINE x == Pick(s)
               r == s \ {x}
    <2>1. x \in MetTypes /\ r \in SUBSET MetTypes /\ sh[r] = sf[r] + sg[r]
      BY <1>7, PickRest, MetAssumption
    <2>2. sf[s] = f[x] + sf[r] /\ sg[s] = g[x] + sg[r] /\ sh[s] = h[x] + sh[r]
      BY <1>4, <1>7 DEF SumStep
    <2>3. f[x] \in Nat /\ g[x] \in Nat /\ h[x] = f[x] + g[x] /\ sf[r] \in Nat /\ sg[r] \in Nat
      BY <1>6, <2>1
    <2> HIDE DEF x, r
    <2> QED BY <2>1, <2>2, <2>3
  <1> HIDE DEF C
  <1>8. SUBSET MetTypes \subseteq C
    BY <1>5, <1>7, SubsetSets, MetAssumption
  <1> QED BY <1>1, <1>2, <1>3, <1>8 DEF C

LEMMA Halves == \A n \in Nat : n + n = n => n = 0
  OBVIOUS

LEMMA TotalSame ==
  ASSUME NEW f, NEW h, \A t \in MetTypes : f[t] \in Nat /\ h[t] = f[t]
  PROVE  TotalOf(h) = TotalOf(f)
  <1> DEFINE z == [t \in MetTypes |-> 0]
  <1>1. \A t \in MetTypes : z[t] \in Nat /\ z[t] = z[t] + z[t] /\ h[t] = f[t] + z[t]
    OBVIOUS
  <1> HIDE DEF z
  <1>2. TotalOf(z) + TotalOf(z) = TotalOf(z) /\ TotalOf(h) = TotalOf(f) + TotalOf(z)
    BY <1>1, TotalAdds
  <1>3. TotalOf(z) \in Nat /\ TotalOf(f) \in Nat
    BY <1>1, TotalNat
  <1>4. TotalOf(z) = 0
    BY <1>2, <1>3, Halves
  <1> QED BY <1>2, <1>3, <1>4

MsgCounts == [MetTypes \cup {0} -> Nat]
MetTypeOK ==
  /\ counted \in [MetUsers -> MsgCounts] /\ live \in [MetUsers -> MsgCounts]
  /\ batch \in [MetUsers -> MsgCounts] /\ saved \in [MetUsers -> MsgCounts]

\* The totals of what is uploaded cover it.
TotalsSent == round = "upload" => \A u \in MetUsers : batch[u][0] >= TotalOf(batch[u])

MetIInv == MetTypeOK /\ TotalsSent /\ MetricsKept

LEMMA ZeroCounts ==
  /\ Zero \in [MetUsers -> MsgCounts]
  /\ \A u \in MetUsers : TotalOf(Zero[u]) = 0 /\ \A t \in MetTypes \cup {0} : Zero[u][t] = 0
  <1>1. Zero \in [MetUsers -> MsgCounts]
    BY DEF Zero, MsgCounts
  <1>2. ASSUME NEW u \in MetUsers PROVE TotalOf(Zero[u]) = 0
    <2> DEFINE z == Zero[u]
    <2>1. \A t \in MetTypes : z[t] \in Nat /\ z[t] = z[t] + z[t]
      BY DEF Zero
    <2> HIDE DEF z
    <2>2. TotalOf(z) + TotalOf(z) = TotalOf(z) /\ TotalOf(z) \in Nat
      BY <2>1, TotalAdds, TotalNat
    <2>3. TotalOf(z) = 0
      BY <2>2, Halves
    <2> QED BY <2>3 DEF z
  <1> QED BY <1>1, <1>2 DEF Zero

LEMMA MetInitOK == MetInit => MetIInv
  BY ZeroCounts DEF MetInit, MetIInv, MetTypeOK, TotalsSent, MetricsKept

LEMMA CountMsgStep ==
  ASSUME MetIInv, NEW u \in MetUsers, NEW t \in MetTypes, CountMsg(u, t)
  PROVE  MetIInv'
  <1> USE MetAssumption DEF MetIInv
  <1>1. MetTypeOK'
    <2>1. ASSUME NEW map \in [MetUsers -> MsgCounts] PROVE [map EXCEPT ![u][t] = @ + 1] \in [MetUsers -> MsgCounts]
      <3>1. map[u] \in MsgCounts /\ map[u][t] + 1 \in Nat
        BY DEF MsgCounts
      <3>2. [map[u] EXCEPT ![t] = @ + 1] \in MsgCounts
        BY <3>1 DEF MsgCounts
      <3> QED BY <3>2
    <2> QED BY <2>1 DEF MetTypeOK, CountMsg
  <1>2. TotalsSent'
    BY DEF TotalsSent, CountMsg
  <1>3. ASSUME NEW x \in MetUsers PROVE /\ \A y \in MetTypes : saved'[x][y] + live'[x][y] + batch'[x][y] >= counted'[x][y]
                                        /\ saved'[x][0] >= TotalOf(saved'[x])
    <2>1. UNCHANGED <<saved, batch>>
      BY DEF CountMsg
    <2>2. ASSUME NEW y \in MetTypes PROVE \/ live'[x][y] = live[x][y] /\ counted'[x][y] = counted[x][y]
                                          \/ live'[x][y] = live[x][y] + 1 /\ counted'[x][y] = counted[x][y] + 1
      BY DEF CountMsg, MetTypeOK, MsgCounts
    <2>3. \A y \in MetTypes : saved[x][y] \in Nat /\ live[x][y] \in Nat /\ batch[x][y] \in Nat /\ counted[x][y] \in Nat
      BY DEF MetTypeOK, MsgCounts
    <2> QED BY <2>1, <2>2, <2>3 DEF MetricsKept
  <1>4. MetricsKept'
    BY <1>3 DEF MetricsKept
  <1> QED BY <1>1, <1>2, <1>4

LEMMA SwapMapsStep ==
  ASSUME MetIInv, SwapMaps
  PROVE  MetIInv'
  <1> USE MetAssumption DEF MetIInv
  <1>1. \A u \in MetUsers : TotalOf(live[u]) \in Nat
    BY TotalNat DEF MetTypeOK, MsgCounts
  <1>2. /\ UNCHANGED <<counted, saved>> /\ live' = batch
        /\ batch' = [u \in MetUsers |-> [live[u] EXCEPT ![0] = TotalOf(live[u]) + @]]
    BY DEF SwapMaps
  <1>3. MetTypeOK'
    <2>1. ASSUME NEW u \in MetUsers PROVE [live[u] EXCEPT ![0] = TotalOf(live[u]) + @] \in MsgCounts
      <3>1. live[u] \in MsgCounts
        BY DEF MetTypeOK
      <3>2. live[u][0] \in Nat
        BY <3>1 DEF MsgCounts
      <3>3. TotalOf(live[u]) + live[u][0] \in Nat
        BY <1>1, <3>2
      <3> QED BY <3>1, <3>3 DEF MsgCounts
    <2> QED BY <1>2, <2>1 DEF MetTypeOK
  <1>4. ASSUME NEW u \in MetUsers
        PROVE  /\ \A t \in MetTypes : batch'[u][t] = live[u][t] /\ live[u][t] \in Nat /\ live'[u][t] = batch[u][t]
               /\ batch'[u][0] = TotalOf(live[u]) + live[u][0] /\ live[u][0] \in Nat
    BY <1>2 DEF MetTypeOK, MsgCounts
  <1>5. ASSUME NEW u \in MetUsers PROVE batch'[u][0] >= TotalOf(batch'[u])
    <2>1. TotalOf(batch'[u]) = TotalOf(live[u])
      BY <1>4, TotalSame
    <2> QED BY <1>1, <1>4, <2>1
  <1>6. TotalsSent'
    BY <1>5 DEF TotalsSent
  <1>7. ASSUME NEW u \in MetUsers, NEW t \in MetTypes
        PROVE  saved'[u][t] + live'[u][t] + batch'[u][t] >= counted'[u][t]
    <2>1. saved[u][t] \in Nat /\ live[u][t] \in Nat /\ batch[u][t] \in Nat /\ counted[u][t] \in Nat
      BY DEF MetTypeOK, MsgCounts
    <2>2. saved[u][t] + live[u][t] + batch[u][t] >= counted[u][t]
      BY DEF MetricsKept
    <2>3. saved'[u][t] = saved[u][t] /\ counted'[u][t] = counted[u][t]
      BY <1>2
    <2> QED BY <1>4, <2>1, <2>2, <2>3
  <1>8. MetricsKept'
    BY <1>2, <1>7 DEF MetricsKept
  <1> QED BY <1>3, <1>6, <1>8

\* Of the users whose records were saved the totals were saved too.
LEMMA SavedCovers ==
  ASSUME MetIInv, round = "upload", NEW us \in SUBSET MetUsers, saved' = SavedOf(us)
  PROVE  /\ saved' \in [MetUsers -> MsgCounts]
         /\ \A u \in MetUsers : /\ saved'[u][0] >= TotalOf(saved'[u])
                                /\ \A t \in MetTypes : /\ saved'[u][t] >= saved[u][t]
                                                       /\ u \in us => saved'[u][t] = saved[u][t] + batch[u][t]
  <1> USE MetAssumption DEF MetIInv
  <1>1. \A u \in MetUsers : \A t \in MetTypes \cup {0} : saved[u][t] \in Nat /\ batch[u][t] \in Nat
    BY DEF MetTypeOK, MsgCounts
  <1>2. saved' = [u \in MetUsers |-> IF u \in us THEN [t \in MetTypes \cup {0} |-> saved[u][t] + batch[u][t]]
                                   ELSE saved[u]]
    BY DEF SavedOf
  <1>3. saved' \in [MetUsers -> MsgCounts]
    <2>1. ASSUME NEW u \in MetUsers PROVE [t \in MetTypes \cup {0} |-> saved[u][t] + batch[u][t]] \in MsgCounts
      BY <1>1 DEF MsgCounts
    <2> QED BY <1>2, <2>1 DEF MetTypeOK
  <1>4. ASSUME NEW u \in us
        PROVE  /\ \A t \in MetTypes \cup {0} : saved'[u][t] = saved[u][t] + batch[u][t]
               /\ saved'[u][0] >= TotalOf(saved'[u])
    <2>1. \A t \in MetTypes \cup {0} : saved'[u][t] = saved[u][t] + batch[u][t]
      BY <1>2
    <2>2. TotalOf(saved'[u]) = TotalOf(saved[u]) + TotalOf(batch[u])
      BY <1>1, <2>1, TotalAdds
    <2>3. TotalOf(saved[u]) \in Nat /\ TotalOf(batch[u]) \in Nat
      BY <1>1, TotalNat
    <2>4. saved[u][0] >= TotalOf(saved[u]) /\ batch[u][0] >= TotalOf(batch[u])
      BY DEF MetricsKept, TotalsSent
    <2> QED BY <1>1, <2>1, <2>2, <2>3, <2>4
  <1>5. \A u \in MetUsers \ us : saved'[u] = saved[u]
    BY <1>2
  <1>6. \A u \in MetUsers : saved[u][0] >= TotalOf(saved[u])
    BY DEF MetricsKept
  <1> QED BY <1>1, <1>3, <1>4, <1>5, <1>6

LEMMA UploadStep ==
  ASSUME MetIInv, NEW us \in SUBSET MetUsers, UploadDone \/ UploadFails(us)
  PROVE  MetIInv'
  <1> USE MetAssumption DEF MetIInv
  <1>1. PICK ok \in SUBSET MetUsers :
          /\ saved' = SavedOf(ok)
          /\ batch' = batch \/ (batch' = Zero /\ ok = MetUsers)
    BY DEF UploadDone, UploadFails
  <1>2. round = "upload" /\ round' = "sleep" /\ UNCHANGED <<counted, live>>
    BY DEF UploadDone, UploadFails
  <1>3. /\ saved' \in [MetUsers -> MsgCounts]
        /\ \A u \in MetUsers : /\ saved'[u][0] >= TotalOf(saved'[u])
                               /\ \A t \in MetTypes : /\ saved'[u][t] >= saved[u][t]
                                                      /\ u \in ok => saved'[u][t] = saved[u][t] + batch[u][t]
    <2>1. saved' = SavedOf(ok) /\ round = "upload" /\ MetIInv
      BY <1>1, <1>2
    <2> QED BY ONLY <2>1, SavedCovers
  <1>4. MetTypeOK'
    BY <1>1, <1>2, <1>3, ZeroCounts DEF MetTypeOK
  <1>5. TotalsSent'
    BY <1>2 DEF TotalsSent
  <1>6. ASSUME NEW u \in MetUsers, NEW t \in MetTypes
        PROVE  saved'[u][t] + live'[u][t] + batch'[u][t] >= counted'[u][t]
    <2>1. /\ saved[u][t] \in Nat /\ live[u][t] \in Nat /\ batch[u][t] \in Nat /\ counted[u][t] \in Nat
          /\ saved'[u][t] \in Nat
      BY <1>3 DEF MetTypeOK, MsgCounts
    <2>2. saved[u][t] + live[u][t] + batch[u][t] >= counted[u][t]
      BY DEF MetricsKept
    <2>3. CASE batch' = batch
      BY <1>2, <1>3, <2>1, <2>2, <2>3
    <2>4. CASE batch' = Zero /\ ok = MetUsers
      <3>1. saved'[u][t] = saved[u][t] + batch[u][t]
        BY <1>3, <2>4
      <3>2. batch'[u][t] = 0
        BY <2>4, ZeroCounts
      <3>3. live'[u][t] = live[u][t] /\ counted'[u][t] = counted[u][t]
        BY <1>2
      <3> QED BY <2>1, <2>2, <3>1, <3>2, <3>3
    <2> QED BY <1>1, <2>3, <2>4
  <1>7. MetricsKept'
    BY <1>3, <1>6 DEF MetricsKept
  <1> QED BY <1>4, <1>5, <1>7

LEMMA MetStep == MetIInv /\ [MetNext]_metVars => MetIInv'
  <1> SUFFICES ASSUME MetIInv, [MetNext]_metVars PROVE MetIInv'
    OBVIOUS
  <1>1. CASE UNCHANGED metVars
    BY <1>1 DEF metVars, MetIInv, MetTypeOK, TotalsSent, MetricsKept
  <1>2. UploadDone => MetIInv'
    BY UploadStep
  <1> QED BY <1>1, <1>2, CountMsgStep, SwapMapsStep, UploadStep DEF MetNext

\* Whatever uploads fail, and however far they got, every message that was counted
\* was saved or is in one of the two maps, and the totals saved cover the messages.
THEOREM NoMessageLost == MetSpec => []MetricsKept
  <1>1. MetSpec => []MetIInv
    BY MetInitOK, MetStep, PTL DEF MetSpec
  <1>2. MetIInv => MetricsKept
    BY DEF MetIInv
  <1> QED BY <1>1, <1>2, PTL

-----------------------------------------------------------------------------
\* The keys of the core server.
Entries == [exp : Nat, cnt : Nat]
AuthTypeOK ==
  /\ now \in Nat
  /\ trans \in [Keys -> Entries \cup {NoKey}] /\ session \in [Keys -> Entries \cup {NoKey}]
  /\ nextPurge \in [trans : Nat, session : Nat]
  /\ anon \in [Keys -> Nat]

\* When a client waits for its log-in before it sends another one: who wants to log
\* in has no key in the maps, and a key is in one of them at most.
OnceIn == \A k \in Keys : /\ anon[k] > 0 => k \notin Present(trans) \cup Present(session)
                          /\ anon[k] <= 1
                          /\ k \notin Present(trans) \cap Present(session)

\* A session key that expires later than the next purge is one that was used.
UsedOrDue == \A k \in Present(session) : session[k].cnt >= ResetCount \/ session[k].exp <= nextPurge.session

AuthIInv == AuthTypeOK /\ OnceIn /\ UsedOrDue

LEMMA EntryApart == \A e \in Entries : e # NoKey
  BY AuthAssumption DEF Entries

LEMMA AuthInitOK == AuthInit => AuthIInv
  BY AuthAssumption DEF AuthInit, AuthIInv, AuthTypeOK, OnceIn, UsedOrDue, Present

\* What a purge of the transient keys makes of a key that has no session.
LEMMA Promoted ==
  ASSUME AuthIInv, NEW k \in Expired(trans)
  PROVE  \/ Promote(k) = NoKey
         \/ /\ Promote(k) \in Entries /\ Promote(k).cnt >= ResetCount
            /\ Promote(k).exp = now + SessionInterval
  <1>1. k \in Keys /\ trans[k] \in Entries /\ session[k] = NoKey
    BY DEF Expired, Present, AuthIInv, AuthTypeOK, OnceIn
  <1>2. CASE trans[k].cnt >= PromoteCount
    <2> DEFINE s == [exp |-> now + SessionInterval, cnt |-> 0]
    <2>1. s \in Entries
      BY AuthAssumption DEF Entries, AuthIInv, AuthTypeOK
    <2>2. Promote(k) = [s EXCEPT !.cnt = trans[k].cnt]
      BY <1>2, <2>1, EntryApart DEF Promote
    <2>3. trans[k].cnt \in Nat /\ trans[k].cnt >= ResetCount
      BY <1>1, <1>2, AuthAssumption DEF Entries
    <2> QED BY <2>1, <2>2, <2>3 DEF Entries
  <1>3. CASE ~(trans[k].cnt >= PromoteCount)
    BY <1>1, <1>3 DEF Promote
  <1> QED BY <1>2, <1>3

LEMMA PurgeTransientStep ==
  ASSUME AuthIInv, NEW k \in Keys, PurgeTransient(k)
  PROVE  AuthIInv' /\ \A x \in Present(session) : session'[x] = session[x]
  <1>1. CASE UNCHANGED <<session, trans, nextPurge>>
    BY <1>1 DEF PurgeTransient, AuthIInv, AuthTypeOK, OnceIn, UsedOrDue, Present
  <1>2. CASE ~UNCHANGED <<session, trans, nextPurge>>
    <2>1. /\ session' = [x \in Keys |-> IF x \in Expired(trans) THEN Promote(x) ELSE session[x]]
          /\ trans' = [x \in Keys |-> IF x \in Expired(trans) THEN NoKey ELSE trans[x]]
          /\ nextPurge' = [nextPurge EXCEPT !.trans = now + TransInterval]
          /\ UNCHANGED <<now, anon>>
      BY <1>2 DEF PurgeTransient
    <2>2. AuthTypeOK'
      BY <2>1, Promoted, AuthAssumption DEF AuthIInv, AuthTypeOK
    <2>3. \A x \in Expired(trans) : x \in Keys /\ x \in Present(trans) /\ x \notin Present(session)
      BY DEF Expired, Present, AuthIInv, OnceIn
    <2>4. ASSUME NEW x \in Keys
          PROVE  /\ x \in Present(trans') => x \in Present(trans) /\ x \notin Expired(trans)
                 /\ x \in Present(session') => x \in Present(session) \/ x \in Expired(trans)
      BY <2>1 DEF Present
    <2>5. OnceIn'
      BY <2>1, <2>3, <2>4 DEF AuthIInv, OnceIn, Present
    <2>6. ASSUME NEW x \in Present(session')
          PROVE  session'[x].cnt >= ResetCount \/ session'[x].exp <= nextPurge'.session
      <3>0. x \in Keys /\ nextPurge'.session = nextPurge.session
        BY <2>1 DEF Present, AuthIInv, AuthTypeOK
      <3>1. CASE x \in Expired(trans)
        BY <2>1, <2>6, <3>0, <3>1, Promoted DEF Present
      <3>2. CASE x \notin Expired(trans)
        BY <2>1, <2>4, <2>6, <3>0, <3>2 DEF AuthIInv, UsedOrDue
      <3> QED BY <3>1, <3>2
    <2>7. UsedOrDue'
      BY <2>6 DEF UsedOrDue, Present
    <2>8. \A x \in Present(session) : session'[x] = session[x]
      BY <2>1, <2>3 DEF Present
    <2> QED BY <2>2, <2>5, <2>7, <2>8 DEF AuthIInv
  <1> QED BY <1>1, <1>2

LEMMA PurgeSessionStep ==
  ASSUME AuthIInv, PurgeSession
  PROVE  /\ AuthIInv'
         /\ \A x \in Present(session) : session'[x] = NoKey => session[x].exp <= now
  <1>1. CASE UNCHANGED <<session, nextPurge>>
    BY <1>1 DEF PurgeSession, AuthIInv, AuthTypeOK, OnceIn, UsedOrDue, Present
  <1>2. CASE ~UNCHANGED <<session, nextPurge>>
    <2>1. /\ session' = [x \in Keys |-> IF x \in Expired(session) THEN Reset(x) ELSE session[x]]
          /\ nextPurge' = [nextPurge EXCEPT !.session = now + SessionInterval]
          /\ now >= nextPurge.session /\ UNCHANGED <<now, anon, trans>>
      BY <1>2 DEF PurgeSession
    <2>2. ASSUME NEW x \in Expired(session)
          PROVE  \/ Reset(x) = NoKey /\ session[x].cnt < ResetCount
                 \/ Reset(x) \in Entries /\ Reset(x).exp = now + SessionInterval
      <3>1. session[x] \in Entries
        BY DEF Expired, Present, AuthIInv, AuthTypeOK
      <3>2. CASE session[x].cnt >= ResetCount
        <4>1. Reset(x) = [session[x] EXCEPT !.exp = now + SessionInterval, !.cnt = 0]
          BY <3>2 DEF Reset
        <4>2. now + SessionInterval \in Nat
          BY AuthAssumption DEF AuthIInv, AuthTypeOK
        <4>3. Reset(x) = [exp |-> now + SessionInterval, cnt |-> 0]
          BY <3>1, <4>1 DEF Entries
        <4> QED BY <4>2, <4>3 DEF Entries
      <3>3. CASE ~(session[x].cnt >= ResetCount)
        <4>1. Reset(x) = NoKey
          BY <3>3 DEF Reset
        <4> QED BY <3>1, <3>3, <4>1, AuthAssumption DEF Entries
      <3> QED BY <3>2, <3>3
    <2>3. AuthTypeOK'
      BY <2>1, <2>2, AuthAssumption DEF AuthIInv, AuthTypeOK
    <2>4. \A x \in Keys : x \in Present(session') => x \in Present(session)
      BY <2>1 DEF Present, Expired
    <2>5. OnceIn'
      BY <2>1, <2>4 DEF AuthIInv, OnceIn, Present
    <2>6. ASSUME NEW x \in Present(session')
          PROVE  session'[x].cnt >= ResetCount \/ session'[x].exp <= nextPurge'.session
      <3>0. /\ x \in Keys /\ nextPurge'.session = now + SessionInterval /\ x \in Present(session)
            /\ session[x] \in Entries
        BY <2>1, <2>4 DEF Present, AuthIInv, AuthTypeOK
      <3>1. CASE x \in Expired(session)
        <4>1. session'[x] = Reset(x) /\ Reset(x) # NoKey
          BY <2>1, <2>6, <3>0, <3>1 DEF Present
        <4> QED BY <2>2, <3>0, <3>1, <4>1, AuthAssumption DEF Entries, AuthIInv, AuthTypeOK
      <3>2. CASE x \notin Expired(session)
        <4>1. session'[x] = session[x] /\ ~(session[x].exp >= now)
          BY <2>1, <3>0, <3>2 DEF Expired
        <4> QED BY <3>0, <4>1, AuthAssumption DEF Entries, AuthIInv, AuthTypeOK
      <3> QED BY <3>1, <3>2
    <2>7. UsedOrDue'
      BY <2>6 DEF UsedOrDue, Present
    <2>8. ASSUME NEW x \in Present(session), session'[x] = NoKey PROVE session[x].exp <= now
      <3>1. x \in Keys /\ session[x] # NoKey /\ session[x] \in Entries
        BY DEF Present, AuthIInv, AuthTypeOK
      <3>2. session[x].cnt < ResetCount
        BY <2>1, <2>2, <2>8, <3>1, EntryApart
      <3>3. session[x].exp <= nextPurge.session
        BY <3>1, <3>2, AuthAssumption DEF AuthIInv, UsedOrDue, Entries
      <3> QED BY <2>1, <3>1, <3>3 DEF Entries, AuthIInv, AuthTypeOK
    <2> QED BY <2>3, <2>5, <2>7, <2>8 DEF AuthIInv
  <1> QED BY <1>1, <1>2

\* A message counts for the key, and lets who has none ask for a log-in.
LEMMA AccessStep ==
  ASSUME AuthIInv, MaxAnon = 1, proxy.key \in Keys, Access
  PROVE  AuthIInv' /\ \A x \in Present(session) : session'[x] # NoKey
  <1> DEFINE k == proxy.key
             Counted2(map) == [map EXCEPT ![k].cnt = IF @ < MaxCount THEN @ + 1 ELSE @]
  <1>1. ASSUME NEW map \in [Keys -> Entries \cup {NoKey}], k \in Present(map)
        PROVE  /\ Counted2(map) \in [Keys -> Entries \cup {NoKey}]
               /\ Present(Counted2(map)) = Present(map)
               /\ \A x \in Present(map) : /\ Counted2(map)[x].cnt >= map[x].cnt
                                          /\ Counted2(map)[x].exp = map[x].exp
    <2>1. map[k] \in Entries
      BY <1>1 DEF Present
    <2>2. [map[k] EXCEPT !.cnt = IF @ < MaxCount THEN @ + 1 ELSE @] \in Entries
      BY <2>1 DEF Entries
    <2>3. Counted2(map) \in [Keys -> Entries \cup {NoKey}]
      BY <2>2
    <2>4. /\ Counted2(map)[k] = [map[k] EXCEPT !.cnt = IF @ < MaxCount THEN @ + 1 ELSE @]
          /\ \A x \in Keys \ {k} : Counted2(map)[x] = map[x]
      OBVIOUS
    <2>5. Counted2(map)[k] # NoKey
      BY <2>2, <2>4, EntryApart
    <2>6. Present(Counted2(map)) = Present(map)
      BY <1>1, <2>4, <2>5 DEF Present
    <2>7. Counted2(map)[k].cnt >= map[k].cnt /\ Counted2(map)[k].exp = map[k].exp
      BY <2>1, <2>4 DEF Entries
    <2>8. \A x \in Present(map) \ {k} : map[x].cnt \in Nat /\ x \in Keys
      BY DEF Present, Entries
    <2> HIDE DEF Counted2
    <2>9. ASSUME NEW x \in Present(map)
          PROVE  Counted2(map)[x].cnt >= map[x].cnt /\ Counted2(map)[x].exp = map[x].exp
      <3>1. CASE x = k
        BY <2>7, <3>1
      <3>2. CASE x # k
        <4>1. Counted2(map)[x] = map[x] /\ map[x].cnt \in Nat
          BY <2>4, <2>8, <2>9, <3>2
        <4> QED BY <4>1
      <3> QED BY <3>1, <3>2
    <2> QED BY <2>3, <2>6, <2>9
  <1>2. /\ trans' = IF k \in Present(trans) THEN Counted2(trans) ELSE trans
        /\ session' = IF k \in Present(session) \ Present(trans) THEN Counted2(session) ELSE session
        /\ anon' = IF k \in Present(trans) \cup Present(session) \cup persistent THEN anon
                   ELSE [anon EXCEPT ![k] = IF @ < MaxAnon THEN @ + 1 ELSE @]
        /\ UNCHANGED <<now, persistent, nextPurge>>
    BY DEF Access
  <1> HIDE DEF Counted2
  <1>3. /\ trans' \in [Keys -> Entries \cup {NoKey}] /\ Present(trans') = Present(trans)
        /\ session' \in [Keys -> Entries \cup {NoKey}] /\ Present(session') = Present(session)
    BY <1>1, <1>2 DEF AuthIInv, AuthTypeOK
  <1>4. /\ anon' \in [Keys -> Nat]
        /\ \A x \in Keys : /\ anon'[x] = anon[x] \/ (anon[x] < 1 /\ anon'[x] = anon[x] + 1
                                                    /\ x \notin Present(trans) \cup Present(session))
    BY <1>2 DEF AuthIInv, AuthTypeOK
  <1>5. AuthTypeOK'
    BY <1>2, <1>3, <1>4 DEF AuthIInv, AuthTypeOK
  <1>6. OnceIn'
    <2>1. ASSUME NEW x \in Keys
          PROVE  /\ anon'[x] > 0 => x \notin Present(trans') \cup Present(session')
                 /\ anon'[x] <= 1
                 /\ x \notin Present(trans') \cap Present(session')
      <3>1. anon[x] \in Nat
        BY DEF AuthIInv, AuthTypeOK
      <3> QED BY <1>3, <1>4, <3>1 DEF AuthIInv, OnceIn
    <2> QED BY <2>1 DEF OnceIn, Present
  <1>7. \A x \in Present(session) : session'[x].cnt >= session[x].cnt /\ session'[x].exp = session[x].exp
    <2>1. \A x \in Present(session) : session[x].cnt \in Nat
      BY DEF Present, AuthIInv, AuthTypeOK, Entries
    <2> QED BY <1>1, <1>2, <2>1 DEF AuthIInv, AuthTypeOK
  <1>8. UsedOrDue'
    <2>1. ASSUME NEW x \in Present(session')
          PROVE  session'[x].cnt >= ResetCount \/ session'[x].exp <= nextPurge'.session
      <3>1. x \in Present(session) /\ session[x].cnt \in Nat /\ session'[x].cnt \in Nat
        BY <1>3 DEF Present, AuthIInv, AuthTypeOK, Entries
      <3> QED BY <1>2, <1>7, <3>1, AuthAssumption DEF AuthIInv, UsedOrDue
    <2> QED BY <2>1 DEF UsedOrDue, Present
  <1> QED BY <1>3, <1>5, <1>6, <1>8 DEF AuthIInv, Present

LEMMA AuthenticateStep ==
  ASSUME AuthIInv, NEW k \in Keys, Authenticate(k)
  PROVE  AuthIInv' /\ UNCHANGED session
  <1>1. /\ anon[k] > 0 /\ anon' = [anon EXCEPT ![k] = @ - 1]
        /\ trans' = [trans EXCEPT ![k] = [exp |-> now + TransInterval, cnt |-> 0]]
        /\ UNCHANGED <<now, session, persistent, nextPurge, proxy>>
    BY DEF Authenticate
  <1>2. [exp |-> now + TransInterval, cnt |-> 0] \in Entries
    BY AuthAssumption DEF Entries, AuthIInv, AuthTypeOK
  <1>3. anon[k] = 1 /\ k \notin Present(session)
    BY <1>1 DEF AuthIInv, AuthTypeOK, OnceIn
  <1>4. AuthTypeOK'
    BY <1>1, <1>2, <1>3 DEF AuthIInv, AuthTypeOK
  <1>5. /\ anon'[k] = 0
        /\ \A x \in Keys \ {k} : anon'[x] = anon[x] /\ trans'[x] = trans[x]
    BY <1>1, <1>3 DEF AuthIInv, AuthTypeOK
  <1>6. OnceIn'
    BY <1>1, <1>3, <1>5 DEF AuthIInv, OnceIn, Present
  <1>7. UsedOrDue'
    BY <1>1 DEF AuthIInv, UsedOrDue, Present
  <1> QED BY <1>1, <1>4, <1>6, <1>7 DEF AuthIInv

\* The proxy has the key of the message that it received.
ProxySound == /\ proxy \in [pc : {"idle", "session", "access"}, key : Keys \cup {NoKey}]
              /\ proxy.pc # "idle" => proxy.key \in Keys

AuthFullInv == AuthIInv /\ ProxySound

\* Every step of the manager keeps the invariant, and drops a session key only
\* when it expired.
LEMMA AuthStep ==
  ASSUME AuthFullInv, MaxAnon = 1, AuthNext
  PROVE  AuthFullInv' /\ \A x \in Present(session) : session'[x] = NoKey => session[x].exp <= now
  <1>1. CASE Tick
    BY <1>1 DEF Tick, AuthFullInv, AuthIInv, AuthTypeOK, OnceIn, UsedOrDue, ProxySound, Present
  <1>2. ASSUME NEW k \in Keys, PurgeTransient(k)
        PROVE  AuthFullInv' /\ \A x \in Present(session) : session'[x] # NoKey
    <2>1. proxy' = [pc |-> "session", key |-> k]
      BY <1>2 DEF PurgeTransient
    <2>2. ProxySound'
      BY <2>1 DEF ProxySound
    <2> QED BY <1>2, <2>2, PurgeTransientStep DEF AuthFullInv, Present
  <1>3. CASE PurgeSession
    <2>1. proxy.pc = "session" /\ proxy' = [proxy EXCEPT !.pc = "access"]
      BY <1>3 DEF PurgeSession
    <2>2. ProxySound'
      BY <2>1 DEF ProxySound, AuthFullInv
    <2> QED BY <1>3, <2>2, PurgeSessionStep DEF AuthFullInv
  <1>4. CASE Access
    <2>1. proxy.pc = "access" /\ proxy' = [pc |-> "idle", key |-> NoKey]
      BY <1>4 DEF Access
    <2>2. ProxySound' /\ proxy.key \in Keys
      BY <2>1 DEF ProxySound, AuthFullInv
    <2> QED BY <1>4, <2>2, AccessStep DEF AuthFullInv
  <1>5. ASSUME NEW k \in Keys, Authenticate(k)
        PROVE  AuthFullInv' /\ UNCHANGED session
    <2>1. ProxySound'
      BY <1>5 DEF Authenticate, AuthFullInv, ProxySound
    <2> QED BY <1>5, <2>1, AuthenticateStep DEF AuthFullInv
  <1> QED BY <1>1, <1>2, <1>3, <1>4, <1>5 DEF AuthNext, Tick, Present

-----------------------------------------------------------------------------
\* The cache of repositories and the keys that it registers.

\* A step of the cache disturbs the manager only by moving a key.
LEMMA CacheMovesKeys ==
  ASSUME AuthFullInv, CacheStep
  PROVE  AuthFullInv' /\ \A x \in Present(session) : session'[x] = NoKey => x \in persistent'
  <1>1. CASE UNCHANGED authVars
    BY <1>1 DEF authVars, AuthFullInv, AuthIInv, AuthTypeOK, OnceIn, UsedOrDue, ProxySound, Present
  <1>2. ASSUME NEW r \in Repos, LoadRepo(r)
        PROVE  AuthFullInv' /\ \A x \in Present(session) : session'[x] = NoKey => x \in persistent'
    <2>1. /\ session' = [session EXCEPT ![r] = NoKey] \/ session' = session
          /\ persistent' = persistent \cup {r}
          /\ UNCHANGED <<now, trans, nextPurge, proxy, anon>>
      BY <1>2 DEF LoadRepo
    <2>2. AuthTypeOK'
      BY <2>1 DEF AuthFullInv, AuthIInv, AuthTypeOK
    <2>3. \A x \in Keys : \/ session'[x] = session[x]
                          \/ x = r /\ session'[x] = NoKey
      BY <2>1 DEF AuthFullInv, AuthIInv, AuthTypeOK
    <2>4. OnceIn'
      BY <2>1, <2>3 DEF AuthFullInv, AuthIInv, OnceIn, Present
    <2>5. UsedOrDue'
      BY <2>1, <2>3 DEF AuthFullInv, AuthIInv, UsedOrDue, Present
    <2>6. ProxySound'
      BY <2>1 DEF AuthFullInv, ProxySound
    <2> QED BY <2>1, <2>2, <2>3, <2>4, <2>5, <2>6 DEF AuthFullInv, AuthIInv, Present
  <1> QED BY <1>1, <1>2 DEF CacheStep, ChangeRepo, TriggerRefresh, LoadStart, LoadRead,
             LoadLookUp, LoadFails, Present, authVars

\* When every client has one log-in under way at most, no purge drops a session key
\* before a whole interval has gone since the key was promoted, or last kept.
THEOREM KeysLast ==
  ASSUME MaxAnon = 1
  PROVE  ServerSpec => SessionLasts
  <1>1. ServerInit => AuthFullInv
    BY AuthInitOK DEF ServerInit, AuthInit, AuthFullInv, ProxySound
  <1>2. ASSUME AuthFullInv, [ServerNext]_serverVars
        PROVE  AuthFullInv'
    <2>1. CASE UNCHANGED serverVars
      BY <1>2, <2>1 DEF serverVars, authVars, AuthFullInv, AuthIInv, AuthTypeOK, OnceIn,
         UsedOrDue, ProxySound, Present
    <2> QED BY <1>2, <2>1, AuthStep, CacheMovesKeys DEF ServerNext
  <1>3. ASSUME AuthFullInv, [ServerNext]_serverVars
        PROVE  [\A k \in Keys : k \in Present(session) /\ session'[k] = NoKey /\ k \notin persistent'
                                => session[k].exp <= now]_authVars
    <2>1. CASE UNCHANGED serverVars
      BY <2>1 DEF serverVars
    <2>2. CASE AuthNext
      BY <1>3, <2>2, AuthStep
    <2>3. CASE CacheStep
      BY <1>3, <2>3, CacheMovesKeys
    <2> QED BY <1>3, <2>1, <2>2, <2>3 DEF ServerNext
  <1> QED BY <1>1, <1>2, <1>3, PTL DEF ServerSpec, SessionLasts

\* Once registered a key stays, and a repository is cached when its key is registered.
KeysInv == cached = [r \in Repos |-> cached[r]] /\ RepoKeysKnown

\* The key of a cached repository is persistent, whatever clients, purges and
\* changes of repositories do between the look-up and the migration.
THEOREM CachedIsKnown == ServerSpec => []RepoKeysKnown
  <1>1. ServerInit => KeysInv
    BY DEF ServerInit, CacheInit, KeysInv, RepoKeysKnown
  <1>2. ASSUME KeysInv, [ServerNext]_serverVars
        PROVE  KeysInv'
    <2>1. CASE UNCHANGED <<cached, persistent>>
      BY <1>2, <2>1 DEF KeysInv, RepoKeysKnown
    <2>2. ASSUME NEW r \in Repos, LoadRepo(r)
          PROVE  KeysInv'
      <3>1. cached' = [cached EXCEPT ![r] = load.left[r]] /\ persistent' = persistent \cup {r}
        BY <2>2 DEF LoadRepo, Cache
      <3> QED BY <1>2, <3>1 DEF KeysInv, RepoKeysKnown
    <2>3. AuthNext /\ UNCHANGED cacheVars => UNCHANGED <<cached, persistent>>
      BY DEF AuthNext, cacheVars, Tick, PurgeTransient, PurgeSession, Access, Authenticate
    <2>4. CacheStep => UNCHANGED <<cached, persistent>> \/ \E r \in Repos : LoadRepo(r)
      BY DEF CacheStep, authVars, ChangeRepo, TriggerRefresh, LoadStart, LoadRead, LoadLookUp, LoadFails
    <2> QED BY <1>2, <2>1, <2>2, <2>3, <2>4 DEF ServerNext, serverVars, authVars, cacheVars
  <1> QED BY <1>1, <1>2, PTL DEF ServerSpec, KeysInv

\* What is left of a load was read after the last change, and what is not left
\* has been cached.
CacheTypeOK == /\ repo \in [Repos -> Nat] /\ cached \in [Repos -> Nat]
               /\ changes \in Nat /\ untold \in {0, 1} /\ refresh \in BOOLEAN
               /\ load \in [pc : {"sleep", "read", "repos"}, left : [Repos -> Nat],
                            at : Repos \cup {NoKey}, found : SUBSET {"trans", "session"}]
LoadSound == /\ load.at # NoKey => load.pc = "repos" /\ load.at \in Left
             /\ load.pc # "repos" => \A r \in Repos : load.left[r] = 0
             /\ load.pc = "read" => refresh
             /\ load.pc = "repos" => \A r \in Repos : \/ load.left[r] = repo[r]
                                                      \/ load.left[r] = 0 /\ cached[r] = repo[r]
CacheIInv == CacheTypeOK /\ LoadSound /\ CacheFresh

LEMMA IdleLoad == /\ Idle \in [pc : {"sleep", "read", "repos"}, left : [Repos -> Nat],
                               at : Repos \cup {NoKey}, found : SUBSET {"trans", "session"}]
                  /\ Idle.pc = "sleep" /\ Idle.at = NoKey /\ \A r \in Repos : Idle.left[r] = 0
  BY DEF Idle

LEMMA CacheInitOK == CacheInit => CacheIInv
  BY IdleLoad DEF CacheInit, CacheIInv, CacheTypeOK, LoadSound, CacheFresh

LEMMA LoadRepoStep ==
  ASSUME CacheIInv, NEW r \in Repos, LoadRepo(r)
  PROVE  CacheIInv'
  <1>1. /\ load.at = r /\ cached' = [cached EXCEPT ![r] = load.left[r]] /\ refresh' = FALSE
        /\ load' = IF Left = {r} THEN Idle ELSE [load EXCEPT !.left[r] = 0, !.at = NoKey, !.found = {}]
        /\ UNCHANGED <<repo, changes, untold>>
    BY DEF LoadRepo, Cache
  <1>2. r # NoKey
    BY CacheAssumption, AuthAssumption
  <1>3. /\ load.pc = "repos" /\ r \in Left
        /\ cached'[r] = repo[r] /\ \A x \in Repos \ {r} : cached'[x] = cached[x]
    BY <1>1, <1>2 DEF CacheIInv, CacheTypeOK, LoadSound, Left
  <1>4. CASE Left = {r}
    <2>1. CacheTypeOK' /\ LoadSound'
      BY <1>1, <1>4, IdleLoad DEF CacheIInv, CacheTypeOK, LoadSound
    <2>2. \A x \in Repos : repo[x] # 0 => cached'[x] = repo[x]
      BY <1>3, <1>4 DEF CacheIInv, LoadSound, Left
    <2> QED BY <1>1, <2>1, <2>2 DEF CacheIInv, CacheFresh
  <1>5. CASE Left # {r}
    <2>1. load' = [load EXCEPT !.left[r] = 0, !.at = NoKey, !.found = {}]
      BY <1>1, <1>5
    <2>2. /\ load'.pc = "repos" /\ load'.at = NoKey /\ load'.left = [load.left EXCEPT ![r] = 0]
          /\ load'.found = {} /\ load' \in [pc : {"sleep", "read", "repos"}, left : [Repos -> Nat],
                            at : Repos \cup {NoKey}, found : SUBSET {"trans", "session"}]
      BY <1>3, <2>1 DEF CacheIInv, CacheTypeOK
    <2>3. CacheTypeOK'
      BY <1>1, <2>2 DEF CacheIInv, CacheTypeOK
    <2>4. \A x \in Repos : \/ load'.left[x] = repo'[x]
                           \/ load'.left[x] = 0 /\ cached'[x] = repo'[x]
      BY <1>1, <1>3, <2>2 DEF CacheIInv, CacheTypeOK, LoadSound
    <2>5. LoadSound'
      BY <2>2, <2>4 DEF LoadSound
    <2>6. CacheFresh'
      BY <2>2 DEF CacheFresh
    <2> QED BY <2>3, <2>5, <2>6 DEF CacheIInv
  <1> QED BY <1>4, <1>5

LEMMA CleanStep == ASSUME CacheIInv, CleanCacheStep PROVE CacheIInv'
  <1>1. ASSUME NEW r \in Repos, NEW v \in 0 .. MaxChanges, load.pc = "sleep", ChangeRepo(r, v)
        PROVE  CacheIInv'
    BY <1>1 DEF ChangeRepo, CacheIInv, CacheTypeOK, LoadSound, CacheFresh, Left
  <1>2. CASE TriggerRefresh
    BY <1>2 DEF TriggerRefresh, CacheIInv, CacheTypeOK, LoadSound, CacheFresh, Left
  <1>3. CASE LoadStart
    <2>1. load.pc = "sleep" /\ refresh /\ load' = [load EXCEPT !.pc = "read"]
          /\ UNCHANGED <<repo, changes, untold, refresh, cached>>
      BY <1>3 DEF LoadStart
    <2>2. /\ load'.pc = "read" /\ load'.left = load.left /\ load'.at = load.at /\ load'.found = load.found
          /\ CacheTypeOK'
      BY <2>1 DEF CacheIInv, CacheTypeOK
    <2> QED BY <2>1, <2>2 DEF CacheIInv, LoadSound, CacheFresh, Left
  <1>4. CASE LoadRead
    <2>1. load.pc = "read" /\ UNCHANGED <<repo, changes, untold, refresh, cached>>
      BY <1>4 DEF LoadRead
    <2>2. CASE load' = Idle
      BY <2>1, <2>2, IdleLoad DEF CacheIInv, CacheTypeOK, LoadSound, CacheFresh
    <2>3. CASE load' = [load EXCEPT !.pc = "repos", !.left = repo]
      <3>1. /\ load'.pc = "repos" /\ load'.left = repo /\ load'.at = load.at /\ CacheTypeOK'
        BY <2>1, <2>3 DEF CacheIInv, CacheTypeOK
      <3>2. load.at = NoKey
        BY <2>1 DEF CacheIInv, LoadSound
      <3>3. LoadSound'
        BY <2>1, <3>1, <3>2 DEF LoadSound
      <3>4. CacheFresh'
        BY <3>1 DEF CacheFresh
      <3> QED BY <3>1, <3>3, <3>4 DEF CacheIInv
    <2> QED BY <1>4, <2>2, <2>3 DEF LoadRead
  <1>5. ASSUME NEW r \in Repos, LoadLookUp(r)
        PROVE  CacheIInv'
    <2> DEFINE found == {m \in {"trans", "session"} :
                           r \in Present(IF m = "trans" THEN trans ELSE session)}
    <2>1. /\ load.pc = "repos" /\ r \in Left /\ load' = [load EXCEPT !.at = r, !.found = found]
          /\ UNCHANGED <<repo, changes, untold, refresh, cached>>
      BY <1>5 DEF LoadLookUp
    <2>2. found \in SUBSET {"trans", "session"}
      OBVIOUS
    <2> HIDE DEF found
    <2>3. /\ load'.pc = "repos" /\ load'.left = load.left /\ load'.at = r /\ CacheTypeOK'
      BY <2>1, <2>2 DEF CacheIInv, CacheTypeOK
    <2> QED BY <2>1, <2>3 DEF CacheIInv, LoadSound, CacheFresh, Left
  <1>6. CASE refresh /\ LoadFails
    BY <1>6, IdleLoad DEF LoadFails, CacheIInv, CacheTypeOK, LoadSound, CacheFresh
  <1> QED BY <1>1, <1>2, <1>3, <1>4, <1>5, <1>6, LoadRepoStep DEF CleanCacheStep

\* With the steps that lose a refresh left out, the cache has every repository as it
\* is in the database when nothing is due and no load is under way.
THEOREM CacheConverged == ServerCleanSpec => []CacheFresh
  <1>1. ServerInit => CacheIInv
    BY CacheInitOK DEF ServerInit
  <1>2. ASSUME CacheIInv, [ServerCleanNext]_serverVars
        PROVE  CacheIInv'
    <2>1. CASE UNCHANGED cacheVars
      BY <1>2, <2>1 DEF cacheVars, CacheIInv, CacheTypeOK, LoadSound, CacheFresh, Left
    <2> QED BY <1>2, <2>1, CleanStep DEF ServerCleanNext, serverVars
  <1> QED BY <1>1, <1>2, PTL DEF ServerCleanSpec, CacheIInv

-----------------------------------------------------------------------------
\* Schemas, where nothing comes between the two halves of a deletion.
SchDoc == [id : SchNames, ver : Versions, cnt : Int, refs : SUBSET (SchNames \X Versions)]
SchTypeOK == /\ sch \in [SchDocs -> SchDoc \cup {NoSch}]
             /\ schSpent \in Nat /\ SchLive \subseteq 1..schSpent
             /\ recSch \in [SchRecs -> SchDocs \cup {NoSch}]

\* What is being deleted is as the deletion found it.
DeletionHolds == /\ \A s \in removing : s \in SchLive /\ Unused(s)
                 /\ \A s, x \in removing : s = x

SchIInv == SchTypeOK /\ DeletionHolds /\ SchemasHeld /\ RefsSound /\ OneChain

LEMMA DocApart == \A d \in SchDoc : d # NoSch
  BY SchemasAssumption DEF SchDoc

LEMMA DocIs == \A d \in SchDoc : d = [id |-> d.id, ver |-> d.ver, cnt |-> d.cnt, refs |-> d.refs]
  BY DEF SchDoc

LEMMA LiveDocs ==
  ASSUME SchTypeOK, NEW s \in SchLive
  PROVE  /\ s \in SchDocs /\ sch[s] \in SchDoc /\ s \in 1..schSpent
         /\ sch[s].id \in SchNames /\ sch[s].ver \in Nat /\ sch[s].cnt \in Int
         /\ NameOf(s) \in SchNames \X Versions
  BY SchemasAssumption DEF SchTypeOK, SchLive, SchDoc, NameOf, Versions

LEMMA SchInitOK == SchInit => SchIInv
  <1> SUFFICES ASSUME SchInit PROVE SchIInv
    OBVIOUS
  <1>1. SchLive = {}
    BY DEF SchInit, SchLive
  <1> QED BY <1>1 DEF SchInit, SchIInv, SchTypeOK, DeletionHolds, SchemasHeld, SchCounted, RecordsServed,
             RefsSound, RefsResolve, RefsAcyclic, OneChain

\* A schema is saved that is new, or that nothing refers to: what it refers to is
\* there and is not itself, so that no cycle is closed.
LEMMA SavedRefs ==
  ASSUME SchTypeOK, RefsSound, NEW s \in SchDocs, ~Referenced(s),
         NEW refs, RefsOK(s, refs), SetRefs(s, refs),
         NEW id, NEW ver, NEW cnt, sch' = [sch EXCEPT ![s] = [id |-> id, ver |-> ver, cnt |-> cnt, refs |-> refs]],
         s \in SchLive'
  PROVE  RefsSound'
  <1>1. /\ \A x \in SchDocs \ {s} : sch'[x] = sch[x]
        /\ sch'[s] = [id |-> id, ver |-> ver, cnt |-> cnt, refs |-> refs]
    BY DEF SchTypeOK
  <1>2. SchLive' = SchLive \cup {s}
    BY <1>1 DEF SchLive
  <1>3. schDep' = {e \in schDep : e[1] # s} \cup {<<s, x>> : x \in {y \in SchLive \ {s} : NameOf(y) \in refs}}
    BY DEF SetRefs
  <1>4. \A e \in schDep : e \in SchLive \X SchLive /\ e[2] # s
    BY DEF RefsSound, Referenced
  <1>5. RefsResolve'
    <2> SUFFICES ASSUME NEW z \in SchLive', NEW n \in sch'[z].refs
                 PROVE  \E x \in SchLive' : NameOf(x)' = n /\ <<z, x>> \in schDep'
      BY DEF RefsResolve
    <2>1. CASE z = s
      <3>0. n \in refs
        BY <1>1, <2>1
      <3>1. PICK x \in SchLive \ {s} : NameOf(x) = n
        BY <3>0 DEF RefsOK
      <3>2. <<s, x>> \in schDep' /\ sch'[x] = sch[x] /\ x \in SchLive'
        BY <1>1, <1>2, <1>3, <3>0, <3>1 DEF SchLive
      <3> QED BY <2>1, <3>1, <3>2 DEF NameOf
    <2>2. CASE z # s
      <3>1. z \in SchLive /\ sch'[z] = sch[z]
        BY <1>1, <1>2, <2>2 DEF SchLive
      <3>2. PICK x \in SchLive : NameOf(x) = n /\ <<z, x>> \in schDep
        BY <3>1 DEF RefsSound, RefsResolve
      <3>3. x # s
        BY <1>4, <3>2
      <3>4. <<z, x>> \in schDep' /\ sch'[x] = sch[x] /\ x \in SchLive'
        BY <1>1, <1>2, <1>3, <2>2, <3>2, <3>3 DEF SchLive
      <3> QED BY <3>2, <3>4 DEF NameOf
    <2> QED BY <2>1, <2>2
  <1>6. RefsAcyclic'
    <2> SUFFICES ASSUME NEW S \in (SUBSET SchDocs) \ {{}}
                 PROVE  \E x \in S : \A y \in S : <<x, y>> \notin schDep'
      BY DEF RefsAcyclic
    <2>1. CASE S = {s}
      BY <1>3, <1>4, <2>1
    <2>2. CASE S # {s}
      <3>1. PICK x \in S \ {s} : \A y \in S \ {s} : <<x, y>> \notin schDep
        BY <2>2 DEF RefsSound, RefsAcyclic
      <3>2. \A y \in S : <<x, y>> \notin schDep'
        BY <1>3, <1>4, <3>1
      <3> QED BY <3>2
    <2> QED BY <2>1, <2>2
  <1>7. schDep' \subseteq SchLive' \X SchLive'
    BY <1>2, <1>3, <1>4
  <1> QED BY <1>5, <1>6, <1>7 DEF RefsSound

\* A new schema has a new key, which no edge and no record has.
LEMMA SaveStep ==
  ASSUME SchIInv, NEW s \in SchDocs, NEW id \in SchNames, NEW ver, NEW refs \in RefSets,
         Save(s, id, ver, refs), UNCHANGED recSch
  PROVE  /\ SchTypeOK' /\ SchemasHeld' /\ RefsSound'
         /\ s \notin SchLive /\ SchLive' = SchLive \cup {s}
         /\ sch'[s].id = id /\ sch'[s].ver = ver
         /\ \A x \in SchLive : sch'[x] = sch[x]
  <1> DEFINE d == [id |-> id, ver |-> ver, cnt |-> 0, refs |-> refs]
  <1>1. /\ s = schSpent + 1 /\ ver \in Versions /\ RefsOK(s, refs)
        /\ sch' = [sch EXCEPT ![s] = d] /\ schSpent' = s /\ SetRefs(s, refs)
    BY DEF Save
  <1>2. s \notin SchLive
    BY <1>1 DEF SchIInv, SchTypeOK
  <1>3. refs \in SUBSET (SchNames \X Versions)
    BY LiveDocs DEF RefSets, SchIInv
  <1>4. d \in SchDoc
    BY <1>1, <1>3 DEF SchDoc
  <1>5. /\ sch'[s] = d /\ \A x \in SchDocs \ {s} : sch'[x] = sch[x]
        /\ sch' \in [SchDocs -> SchDoc \cup {NoSch}]
    BY <1>1, <1>4 DEF SchIInv, SchTypeOK
  <1>6. SchLive' = SchLive \cup {s} /\ \A x \in SchLive : sch'[x] = sch[x]
    BY <1>2, <1>4, <1>5, DocApart DEF SchLive
  <1>7. SchTypeOK'
    BY <1>1, <1>5, <1>6 DEF SchIInv, SchTypeOK, SchDocs
  <1>8. SchemasHeld'
    <2>1. {r \in SchRecs : recSch[r] = s} = {}
      BY <1>2, SchemasAssumption DEF SchIInv, SchemasHeld, RecordsServed
    <2>2. Cardinality({r \in SchRecs : recSch[r] = s}) = 0
      BY <2>1, FS_EmptySet
    <2>3. ASSUME NEW x \in SchLive'
          PROVE  sch'[x].cnt = Cardinality({r \in SchRecs : recSch'[r] = x})
      <3>1. CASE x = s
        BY <1>5, <2>2, <3>1
      <3>2. CASE x # s
        BY <1>6, <2>3, <3>2 DEF SchIInv, SchemasHeld, SchCounted
      <3> QED BY <3>1, <3>2
    <2>4. RecordsServed'
      BY <1>6 DEF SchIInv, SchemasHeld, RecordsServed
    <2> QED BY <2>3, <2>4 DEF SchemasHeld, SchCounted
  <1>9. ~Referenced(s)
    BY <1>2 DEF SchIInv, RefsSound, Referenced
  <1>10. RefsSound'
    BY <1>1, <1>6, <1>9, SavedRefs DEF SchIInv
  <1> QED BY <1>2, <1>5, <1>6, <1>7, <1>8, <1>10

\* Schemas that stay as they are stay in order.
LEMMA OldChain ==
  ASSUME OneChain, NEW z \in SchLive, NEW x \in SchLive, sch'[z] = sch[z], sch'[x] = sch[x],
         SchLive \subseteq SchLive', \A y \in SchLive : sch'[y] = sch[y], schVer \subseteq schVer',
         sch'[z].id = sch'[x].id
  PROVE  /\ NameOf(z)' = NameOf(x)' => z = x
         /\ sch'[z].ver < sch'[x].ver =>
              \E y \in SchLive' : /\ NameOf(y)' = <<sch'[z].id, sch'[z].ver + 1>>
                                  /\ <<z, y>> \in schVer'
  <1>1. NameOf(z)' = NameOf(x)' => z = x
    BY DEF OneChain, NameOf
  <1>2. ASSUME sch'[z].ver < sch'[x].ver
        PROVE  \E y \in SchLive' : /\ NameOf(y)' = <<sch'[z].id, sch'[z].ver + 1>>
                                   /\ <<z, y>> \in schVer'
    <2>1. PICK y \in SchLive : NameOf(y) = <<sch[z].id, sch[z].ver + 1>> /\ <<z, y>> \in schVer
      BY <1>2 DEF OneChain
    <2> QED BY <2>1 DEF NameOf
  <1> QED BY <1>1, <1>2

LEMMA CreateStep ==
  ASSUME SchIInv, removing = {}, NEW s \in SchDocs, NEW id \in SchNames, NEW refs \in RefSets,
         \A x \in SchLive : sch[x].id # id, SchemaCreate(s, id, refs)
  PROVE  SchIInv'
  <1>1. Save(s, id, 0, refs) /\ UNCHANGED <<schVer, recSch, removing>>
    BY DEF SchemaCreate
  <1>2. /\ SchTypeOK' /\ SchemasHeld' /\ RefsSound'
        /\ SchLive' = SchLive \cup {s} /\ sch'[s].id = id
        /\ \A x \in SchLive : sch'[x] = sch[x]
    BY <1>1, SaveStep
  <1>3. OneChain'
    <2> SUFFICES ASSUME NEW z \in SchLive', NEW x \in SchLive', sch'[z].id = sch'[x].id
                 PROVE  /\ NameOf(z)' = NameOf(x)' => z = x
                        /\ sch'[z].ver < sch'[x].ver =>
                             \E y \in SchLive' : /\ NameOf(y)' = <<sch'[z].id, sch'[z].ver + 1>>
                                                 /\ <<z, y>> \in schVer'
      BY DEF OneChain
    <2>1. CASE z \in SchLive /\ x \in SchLive
      BY <1>1, <1>2, <2>1, OldChain DEF SchIInv
    <2>2. CASE z = s \/ x = s
      <3>1. z = s /\ x = s
        BY <1>2, <2>2
      <3>2. sch'[s].ver = 0
        BY <1>1, SaveStep
      <3> QED BY <3>1, <3>2
    <2> QED BY <1>2, <2>1, <2>2
  <1> QED BY <1>1, <1>2, <1>3 DEF SchIInv, DeletionHolds

\* The newest revision gets the next version, and the link to it.
LEMMA ReviseStep ==
  ASSUME SchIInv, removing = {}, NEW s \in SchDocs, NEW new \in SchDocs, NEW refs \in RefSets,
         SchemaRevise(s, new, refs)
  PROVE  SchIInv'
  <1>1. /\ s \in SchLive /\ Successor(s) = {} /\ Save(new, sch[s].id, sch[s].ver + 1, refs)
        /\ schVer' = schVer \cup {<<s, new>>} /\ UNCHANGED <<recSch, removing>>
    BY DEF SchemaRevise
  <1>2. sch[s].id \in SchNames /\ \A x \in SchLive : sch[x].ver \in Nat
    BY <1>1, LiveDocs DEF SchIInv
  <1>3. /\ SchTypeOK' /\ SchemasHeld' /\ RefsSound'
        /\ new \notin SchLive /\ SchLive' = SchLive \cup {new}
        /\ sch'[new].id = sch[s].id /\ sch'[new].ver = sch[s].ver + 1
        /\ \A x \in SchLive : sch'[x] = sch[x]
    BY <1>1, <1>2, SaveStep
  <1>4. \A x \in SchLive : NameOf(x) # <<sch[s].id, sch[s].ver + 1>>
    BY <1>1, <1>3 DEF Save, NameFree
  <1>5. \A x \in SchLive : sch[x].id = sch[s].id => ~(sch[s].ver < sch[x].ver)
    <2> SUFFICES ASSUME NEW x \in SchLive, sch[x].id = sch[s].id, sch[s].ver < sch[x].ver PROVE FALSE
      OBVIOUS
    <2>1. PICK y \in SchLive : <<s, y>> \in schVer
      BY <1>1 DEF SchIInv, OneChain
    <2>2. <<s, y>>[2] \in Successor(s)
      BY <2>1 DEF Successor
    <2> QED BY <1>1, <2>2
  <1>6. \A x \in SchLive : sch[x].id = sch[s].id => sch[x].ver < sch[s].ver \/ x = s
    BY <1>1, <1>2, <1>5 DEF SchIInv, OneChain, NameOf
  <1>7. OneChain'
    <2> SUFFICES ASSUME NEW z \in SchLive', NEW x \in SchLive', sch'[z].id = sch'[x].id
                 PROVE  /\ NameOf(z)' = NameOf(x)' => z = x
                        /\ sch'[z].ver < sch'[x].ver =>
                             \E y \in SchLive' : /\ NameOf(y)' = <<sch'[z].id, sch'[z].ver + 1>>
                                                 /\ <<z, y>> \in schVer'
      BY DEF OneChain
    <2>1. CASE z \in SchLive /\ x \in SchLive
      BY <1>1, <1>3, <2>1, OldChain DEF SchIInv
    <2>2. CASE z = new /\ x \in SchLive
      BY <1>1, <1>2, <1>3, <1>4, <1>6, <2>2 DEF NameOf
    <2>3. CASE z \in SchLive /\ x = new
      <3>1. NameOf(z)' = NameOf(z) /\ NameOf(x)' = <<sch[s].id, sch[s].ver + 1>> /\ sch[z].id = sch[s].id
        BY <1>3, <2>3 DEF NameOf
      <3>2. CASE z = s
        BY <1>1, <1>3, <1>4, <2>3, <3>1, <3>2 DEF NameOf
      <3>3. CASE z # s
        <4>1. sch[z].ver < sch[s].ver
          BY <1>6, <2>3, <3>1, <3>3
        <4>2. PICK y \in SchLive : NameOf(y) = <<sch[z].id, sch[z].ver + 1>> /\ <<z, y>> \in schVer
          BY <1>1, <2>3, <3>1, <4>1 DEF SchIInv, OneChain
        <4> QED BY <1>1, <1>3, <1>4, <2>3, <3>1, <4>2 DEF NameOf
      <3> QED BY <3>2, <3>3
    <2>4. CASE z = new /\ x = new
      BY <1>1, <1>2, <1>3, <2>4
    <2> QED BY <1>3, <2>1, <2>2, <2>3, <2>4
  <1> QED BY <1>1, <1>3, <1>7 DEF SchIInv, DeletionHolds

\* A schema that no record has and nothing refers to gets a new definition, and a
\* new name when it is the only one of its id.
LEMMA UpdateStep ==
  ASSUME SchIInv, removing = {}, NEW s \in SchLive, NEW id \in SchNames, NEW refs \in RefSets,
         \A x \in SchLive \ {s} : sch[x].id = id => sch[s].id = id, SchemaUpdate(s, id, refs)
  PROVE  SchIInv'
  <1> DEFINE d == [sch[s] EXCEPT !.id = id, !.refs = refs]
  <1>1. /\ ~Referenced(s) /\ RefsOK(s, refs) /\ SetRefs(s, refs)
        /\ id # sch[s].id => sch[s].ver = 0 /\ Successor(s) = {}
        /\ UNCHANGED <<schSpent, schVer, recSch, removing>>
    BY DEF SchemaUpdate
  <1>2. s \in SchDocs /\ sch[s] \in SchDoc
    BY LiveDocs DEF SchIInv
  <1>3. sch' = [sch EXCEPT ![s] = d]
    BY <1>2 DEF SchemaUpdate, SchIInv, SchTypeOK
  <1>4. refs \in SUBSET (SchNames \X Versions)
    BY LiveDocs DEF RefSets, SchIInv
  <1>5. /\ d = [id |-> id, ver |-> sch[s].ver, cnt |-> sch[s].cnt, refs |-> refs] /\ d \in SchDoc
        /\ d.id = id /\ d.ver = sch[s].ver /\ d.cnt = sch[s].cnt
    <2>1. d = [id |-> id, ver |-> sch[s].ver, cnt |-> sch[s].cnt, refs |-> refs]
      <3>1. d.id = id /\ d.ver = sch[s].ver /\ d.cnt = sch[s].cnt /\ d.refs = refs /\ d \in SchDoc
        BY <1>2, <1>4 DEF SchDoc
      <3> QED BY <3>1, DocIs
    <2>2. sch[s].ver \in Versions /\ sch[s].cnt \in Int
      BY <1>2 DEF SchDoc
    <2> QED BY <1>4, <2>1, <2>2 DEF SchDoc
  <1> HIDE DEF d
  <1>6. /\ sch'[s] = d /\ \A x \in SchDocs \ {s} : sch'[x] = sch[x]
        /\ sch' \in [SchDocs -> SchDoc \cup {NoSch}]
    BY <1>2, <1>3, <1>5 DEF SchIInv, SchTypeOK
  <1>7. SchLive' = SchLive
    BY <1>2, <1>5, <1>6, DocApart DEF SchLive
  <1>8. SchTypeOK'
    BY <1>1, <1>6, <1>7 DEF SchIInv, SchTypeOK
  <1>9. \A x \in SchLive : sch'[x].cnt = sch[x].cnt /\ sch'[x].ver = sch[x].ver
    BY <1>5, <1>6 DEF SchLive
  <1>10. SchemasHeld'
    BY <1>1, <1>7, <1>9 DEF SchIInv, SchemasHeld, SchCounted, RecordsServed
  <1>11. RefsSound'
    BY <1>1, <1>2, <1>3, <1>5, <1>7, SavedRefs DEF SchIInv
  <1>12. OneChain'
    <2>1. CASE id = sch[s].id
      <3>1. \A x \in SchLive : sch'[x].id = sch[x].id /\ NameOf(x)' = NameOf(x)
        BY <1>5, <1>6, <1>9, <2>1 DEF SchLive, NameOf
      <3> QED BY <1>1, <1>7, <1>9, <3>1 DEF SchIInv, OneChain
    <2>2. CASE id # sch[s].id
      <3>1. \A x \in SchLive \ {s} : sch[x].id # id /\ sch'[x] = sch[x]
        BY <1>6, <2>2 DEF SchLive
      <3>2. sch'[s].id = id /\ sch[s].ver = 0 /\ \A x \in SchLive : sch[x].ver \in Nat
        BY <1>1, <1>5, <1>6, <2>2, LiveDocs DEF SchIInv
      <3> SUFFICES ASSUME NEW z \in SchLive', NEW x \in SchLive', sch'[z].id = sch'[x].id
                   PROVE  /\ NameOf(z)' = NameOf(x)' => z = x
                          /\ sch'[z].ver < sch'[x].ver =>
                               \E y \in SchLive' : /\ NameOf(y)' = <<sch'[z].id, sch'[z].ver + 1>>
                                                   /\ <<z, y>> \in schVer'
        BY DEF OneChain
      <3>3. CASE z = s \/ x = s
        <4>1. z = s /\ x = s
          BY <1>7, <3>1, <3>2, <3>3
        <4> QED BY <1>9, <3>2, <4>1
      <3>4. CASE z # s /\ x # s
        <4>1. z \in SchLive /\ x \in SchLive /\ sch'[z] = sch[z] /\ sch'[x] = sch[x]
          BY <1>7, <3>1, <3>4
        <4>2. NameOf(z)' = NameOf(x)' => z = x
          BY <4>1 DEF NameOf, SchIInv, OneChain
        <4>3. ASSUME sch'[z].ver < sch'[x].ver
              PROVE  \E y \in SchLive' : /\ NameOf(y)' = <<sch'[z].id, sch'[z].ver + 1>>
                                         /\ <<z, y>> \in schVer'
          <5>1. PICK y \in SchLive : NameOf(y) = <<sch[z].id, sch[z].ver + 1>> /\ <<z, y>> \in schVer
            BY <4>1, <4>3 DEF SchIInv, OneChain
          <5>2. y # s
            BY <3>2, <4>1, <5>1 DEF NameOf
          <5> QED BY <1>1, <1>7, <3>1, <4>1, <5>1, <5>2 DEF NameOf
        <4> QED BY <4>2, <4>3
      <3> QED BY <3>3, <3>4
    <2> QED BY <2>1, <2>2
  <1> QED BY <1>1, <1>8, <1>10, <1>11, <1>12 DEF SchIInv, DeletionHolds

LEMMA DeleteStep ==
  ASSUME SchIInv, removing = {}, NEW s \in SchDocs, SchemaDelete(s)
  PROVE  SchIInv'
  <1>1. s \in SchLive /\ Unused(s) /\ removing' = {s}
        /\ UNCHANGED <<sch, schSpent, schDep, schVer, recSch>>
    BY DEF SchemaDelete
  <1>2. SchLive' = SchLive /\ Unused(s)'
    BY <1>1 DEF SchLive, Unused, Referenced, Successor, Predecessor
  <1>3. SchTypeOK' /\ SchemasHeld' /\ RefsSound' /\ OneChain'
    <2>1. SchTypeOK'
      BY <1>1, <1>2 DEF SchIInv, SchTypeOK
    <2>2. SchemasHeld'
      BY <1>1, <1>2 DEF SchIInv, SchemasHeld, SchCounted, RecordsServed
    <2>3. RefsSound'
      BY <1>1, <1>2 DEF SchIInv, RefsSound, RefsResolve, RefsAcyclic, NameOf
    <2>4. OneChain'
      BY <1>1, <1>2 DEF SchIInv, OneChain, NameOf
    <2> QED BY <2>1, <2>2, <2>3, <2>4
  <1>4. DeletionHolds'
    BY <1>1, <1>2 DEF DeletionHolds
  <1> QED BY <1>3, <1>4 DEF SchIInv

\* A revision that goes is the oldest or the newest one.
LEMMA DeleteEndStep ==
  ASSUME SchIInv, NEW s \in SchDocs, SchemaDeleteEnd(s)
  PROVE  SchIInv'
  <1>1. /\ s \in removing /\ removing' = removing \ {s}
        /\ sch' = [sch EXCEPT ![s] = NoSch]
        /\ schDep' = {e \in schDep : s \notin {e[1], e[2]}}
        /\ schVer' = {e \in schVer : s \notin {e[1], e[2]}}
        /\ UNCHANGED <<schSpent, recSch>>
    BY DEF SchemaDeleteEnd, Removed
  <1>2. /\ s \in SchLive /\ sch[s].cnt = 0 /\ ~Referenced(s)
        /\ Successor(s) = {} \/ Predecessor(s) = {}
    BY <1>1 DEF SchIInv, DeletionHolds, Unused
  <1>3. SchLive' = SchLive \ {s} /\ \A x \in SchLive' : sch'[x] = sch[x] /\ x # s /\ x \in SchLive
    BY <1>1 DEF SchLive, SchIInv, SchTypeOK
  <1>4. SchTypeOK'
    BY <1>1, <1>3 DEF SchIInv, SchTypeOK
  <1>5. DeletionHolds'
    BY <1>1 DEF SchIInv, DeletionHolds
  <1>6. \A r \in SchRecs : recSch[r] # s
    <2>1. Cardinality({r \in SchRecs : recSch[r] = s}) = 0
      BY <1>2 DEF SchIInv, SchemasHeld, SchCounted
    <2>2. IsFiniteSet({r \in SchRecs : recSch[r] = s})
      BY SchemasAssumption, FS_Subset
    <2>3. {r \in SchRecs : recSch[r] = s} = {}
      BY <2>1, <2>2, FS_EmptySet
    <2> QED BY <2>3
  <1>7. SchemasHeld'
    BY <1>1, <1>3, <1>6 DEF SchIInv, SchemasHeld, SchCounted, RecordsServed
  <1>8. \A e \in schDep : e \in SchLive \X SchLive /\ e[2] # s
    BY <1>2 DEF SchIInv, RefsSound, Referenced
  <1>9. RefsResolve'
    <2> SUFFICES ASSUME NEW z \in SchLive', NEW n \in sch'[z].refs
                 PROVE  \E x \in SchLive' : NameOf(x)' = n /\ <<z, x>> \in schDep'
      BY DEF RefsResolve
    <2>1. PICK x \in SchLive : NameOf(x) = n /\ <<z, x>> \in schDep
      BY <1>3 DEF SchIInv, RefsSound, RefsResolve
    <2>2. x # s
      BY <1>8, <2>1
    <2>3. <<z, x>> \in schDep' /\ x \in SchLive'
      BY <1>1, <1>3, <2>1, <2>2
    <2> QED BY <1>3, <2>1, <2>3 DEF NameOf
  <1>10. RefsAcyclic'
    BY <1>1 DEF SchIInv, RefsSound, RefsAcyclic
  <1>11. schDep' \subseteq SchLive' \X SchLive'
    BY <1>1, <1>3, <1>8
  <1>12. OneChain'
    <2> SUFFICES ASSUME NEW z \in SchLive', NEW x \in SchLive', sch'[z].id = sch'[x].id
                 PROVE  /\ NameOf(z)' = NameOf(x)' => z = x
                        /\ sch'[z].ver < sch'[x].ver =>
                             \E y \in SchLive' : /\ NameOf(y)' = <<sch'[z].id, sch'[z].ver + 1>>
                                                 /\ <<z, y>> \in schVer'
      BY DEF OneChain
    <2>1. /\ z \in SchLive /\ x \in SchLive /\ sch'[z] = sch[z] /\ sch'[x] = sch[x]
          /\ z # s /\ x # s
      BY <1>3
    <2>2. NameOf(z)' = NameOf(x)' => z = x
      BY <2>1 DEF SchIInv, OneChain, NameOf
    <2>3. ASSUME sch'[z].ver < sch'[x].ver
          PROVE  \E y \in SchLive' : /\ NameOf(y)' = <<sch'[z].id, sch'[z].ver + 1>>
                                     /\ <<z, y>> \in schVer'
      <3>1. PICK y \in SchLive : NameOf(y) = <<sch[z].id, sch[z].ver + 1>> /\ <<z, y>> \in schVer
        BY <2>1, <2>3 DEF SchIInv, OneChain
      <3>2. y # s
        <4> SUFFICES ASSUME y = s PROVE FALSE
          OBVIOUS
        <4>1. sch[s].id = sch[x].id /\ sch[s].ver = sch[z].ver + 1
          BY <2>1, <3>1 DEF NameOf
        <4>2. <<z, s>>[1] \in Predecessor(s)
          BY <3>1 DEF Predecessor
        <4>3. sch[s].ver # sch[x].ver
          BY <1>2, <2>1, <4>1 DEF SchIInv, OneChain, NameOf
        <4>4. sch[z].ver \in Nat /\ sch[x].ver \in Nat
          BY <2>1, LiveDocs DEF SchIInv
        <4>5. sch[s].ver < sch[x].ver
          BY <2>1, <2>3, <4>1, <4>3, <4>4
        <4>6. PICK w \in SchLive : <<s, w>> \in schVer
          BY <1>2, <2>1, <4>1, <4>5 DEF SchIInv, OneChain
        <4>7. <<s, w>>[2] \in Successor(s)
          BY <4>6 DEF Successor
        <4> QED BY <1>2, <4>2, <4>7
      <3>3. y \in SchLive' /\ sch'[y] = sch[y] /\ <<z, y>> \in schVer'
        BY <1>1, <1>3, <2>1, <3>1, <3>2
      <3> QED BY <2>1, <3>1, <3>3 DEF NameOf
    <2> QED BY <2>2, <2>3
  <1> QED BY <1>4, <1>5, <1>7, <1>9, <1>10, <1>11, <1>12 DEF SchIInv, RefsSound

\* A count changes, and nothing else of a schema.
CountKept(S, T, s, n) ==
  /\ T \in [SchDocs -> SchDoc \cup {NoSch}]
  /\ \A x \in SchDocs : T[x] = NoSch <=> S[x] = NoSch
  /\ \A x \in SchDocs : S[x] # NoSch =>
       /\ T[x].id = S[x].id /\ T[x].ver = S[x].ver /\ T[x].refs = S[x].refs
       /\ T[x].cnt = S[x].cnt + IF x = s THEN n ELSE 0

LEMMA CountChanges ==
  ASSUME NEW S \in [SchDocs -> SchDoc \cup {NoSch}], NEW s \in SchDocs \cup {NoSch}, NEW n \in Int
  PROVE  CountKept(S, Counted(S, s, n), s, n)
  <1>0. \A x \in SchDocs : S[x] # NoSch => S[x] \in SchDoc /\ S[x].cnt \in Int
    BY DEF SchDoc
  <1>1. CASE s \in SchDocs /\ S[s] # NoSch
    <2> DEFINE d == [S[s] EXCEPT !.cnt = @ + n]
    <2>1. S[s] \in SchDoc
      BY <1>0, <1>1
    <2>2. /\ d \in SchDoc /\ d.id = S[s].id /\ d.ver = S[s].ver /\ d.refs = S[s].refs
          /\ d.cnt = S[s].cnt + n
      BY <2>1 DEF SchDoc
    <2>3. Counted(S, s, n) = [S EXCEPT ![s] = d]
      BY <1>1 DEF Counted
    <2> HIDE DEF d
    <2>4. Counted(S, s, n)[s] = d /\ \A x \in SchDocs \ {s} : Counted(S, s, n)[x] = S[x]
      BY <1>1, <2>3
    <2>5. Counted(S, s, n) \in [SchDocs -> SchDoc \cup {NoSch}]
      BY <2>2, <2>3
    <2>6. d # NoSch
      BY <2>2, DocApart
    <2>7. ASSUME NEW x \in SchDocs, x # s, S[x] # NoSch
          PROVE  Counted(S, s, n)[x].cnt = S[x].cnt + IF x = s THEN n ELSE 0
      BY <1>0, <2>4, <2>7
    <2> QED BY <1>1, <2>2, <2>4, <2>5, <2>6, <2>7 DEF CountKept
  <1>2. CASE ~(s \in SchDocs /\ S[s] # NoSch)
    <2>1. Counted(S, s, n) = S
      BY <1>2 DEF Counted
    <2>2. \A x \in SchDocs : S[x] # NoSch => x # s
      BY <1>2
    <2> QED BY <1>0, <2>1, <2>2 DEF CountKept
  <1> QED BY <1>1, <1>2

\* A record comes to have schema s, or none.
LEMMA RecordStep ==
  ASSUME SchIInv, removing = {}, UNCHANGED <<schSpent, schDep, schVer, removing>>,
         NEW r \in SchRecs, NEW s \in SchLive \cup {NoSch}, recSch' = [recSch EXCEPT ![r] = s],
         sch' = Counted(Counted(sch, s, 1), recSch[r], -1)
  PROVE  SchIInv'
  <1> DEFINE mid == Counted(sch, s, 1)
  <1>0. 1 \in Int /\ -1 \in Int
    OBVIOUS
  <1>1. s \in SchDocs \cup {NoSch} /\ recSch[r] \in SchLive \cup {NoSch}
    BY DEF SchIInv, SchTypeOK, SchLive, SchemasHeld, RecordsServed
  <1>2. recSch[r] \in SchDocs \cup {NoSch} /\ sch \in [SchDocs -> SchDoc \cup {NoSch}]
    BY <1>1 DEF SchIInv, SchTypeOK
  <1>3. CountKept(sch, mid, s, 1)
    BY <1>0, <1>1, <1>2, CountChanges
  <1>4. mid \in [SchDocs -> SchDoc \cup {NoSch}] /\ \A x \in SchDocs : mid[x] = NoSch <=> sch[x] = NoSch
    BY <1>3 DEF CountKept
  <1>5. \A x \in SchDocs : sch[x] # NoSch =>
          /\ mid[x].id = sch[x].id /\ mid[x].ver = sch[x].ver /\ mid[x].refs = sch[x].refs
          /\ mid[x].cnt = sch[x].cnt + IF x = s THEN 1 ELSE 0
    BY <1>3 DEF CountKept
  <1> HIDE DEF mid
  <1>6. CountKept(mid, sch', recSch[r], -1)
    <2>1. sch' = Counted(mid, recSch[r], -1)
      BY DEF mid
    <2> QED BY <1>0, <1>2, <1>4, <2>1, CountChanges
  <1>7. sch' \in [SchDocs -> SchDoc \cup {NoSch}] /\ \A x \in SchDocs : sch'[x] = NoSch <=> mid[x] = NoSch
    BY <1>6 DEF CountKept
  <1>8. \A x \in SchDocs : mid[x] # NoSch =>
          /\ sch'[x].id = mid[x].id /\ sch'[x].ver = mid[x].ver /\ sch'[x].refs = mid[x].refs
          /\ sch'[x].cnt = mid[x].cnt + IF x = recSch[r] THEN -1 ELSE 0
    BY <1>6 DEF CountKept
  <1>9. SchLive' = SchLive
    BY <1>4, <1>7 DEF SchLive
  <1>10. \A x \in SchLive : /\ x \in SchDocs /\ NameOf(x)' = NameOf(x) /\ sch'[x].id = sch[x].id
                            /\ sch'[x].ver = sch[x].ver /\ sch'[x].refs = sch[x].refs
    BY <1>4, <1>5, <1>8 DEF SchLive, NameOf
  <1>11. SchTypeOK'
    BY <1>1, <1>7, <1>9 DEF SchIInv, SchTypeOK, SchLive
  <1>12. RefsSound'
    BY <1>9, <1>10 DEF SchIInv, RefsSound, RefsResolve, RefsAcyclic
  <1>13. OneChain'
    BY <1>9, <1>10 DEF SchIInv, OneChain
  <1>14. RecordsServed'
    BY <1>9 DEF SchIInv, SchTypeOK, SchemasHeld, RecordsServed
  <1>15. ASSUME NEW x \in SchLive
         PROVE  sch'[x].cnt = Cardinality({q \in SchRecs : recSch'[q] = x})
    <2> DEFINE A == {q \in SchRecs : recSch[q] = x}
    <2>1. x \in SchDocs /\ x # NoSch /\ sch[x].cnt = Cardinality(A) /\ sch[x].cnt \in Int
      BY SchemasAssumption, LiveDocs DEF SchIInv, SchemasHeld, SchCounted
    <2>2. sch'[x].cnt = (sch[x].cnt + (IF x = s THEN 1 ELSE 0)) + (IF x = recSch[r] THEN -1 ELSE 0)
      BY <1>4, <1>5, <1>8, <2>1 DEF SchLive
    <2>3. \A q \in SchRecs : recSch'[q] = IF q = r THEN s ELSE recSch[q]
      BY DEF SchIInv, SchTypeOK
    <2>4. IsFiniteSet(A) /\ r \in SchRecs
      BY SchemasAssumption, FS_Subset
    <2>5. CASE x = s /\ x # recSch[r]
      <3>1. {q \in SchRecs : recSch'[q] = x} = A \cup {r} /\ r \notin A
        BY <2>3, <2>5
      <3> HIDE DEF A
      <3>2. Cardinality(A \cup {r}) = Cardinality(A) + 1
        BY <2>4, <3>1, FS_AddElement
      <3>3. sch'[x].cnt = sch[x].cnt + 1
        BY <2>1, <2>2, <2>5
      <3> QED BY <2>1, <3>1, <3>2, <3>3
    <2>6. CASE x # s /\ x = recSch[r]
      <3>1. {q \in SchRecs : recSch'[q] = x} = A \ {r} /\ r \in A
        BY <2>3, <2>6
      <3> HIDE DEF A
      <3>2. Cardinality(A \ {r}) = Cardinality(A) - 1
        BY <2>4, <3>1, FS_RemoveElement
      <3>3. sch'[x].cnt = sch[x].cnt - 1
        BY <2>1, <2>2, <2>6
      <3> QED BY <2>1, <3>1, <3>2, <3>3
    <2>7. CASE x = s <=> x = recSch[r]
      <3>1. {q \in SchRecs : recSch'[q] = x} = A
        BY <2>3, <2>7
      <3> HIDE DEF A
      <3>3. sch'[x].cnt = sch[x].cnt
        BY <2>1, <2>2, <2>7
      <3> QED BY <2>1, <3>1, <3>3
    <2> QED BY <2>5, <2>6, <2>7
  <1>16. SchemasHeld'
    BY <1>9, <1>14, <1>15 DEF SchemasHeld, SchCounted
  <1> QED BY <1>11, <1>12, <1>13, <1>16 DEF SchIInv, DeletionHolds

LEMMA SchStep ==
  ASSUME SchIInv, SchCleanNext
  PROVE  SchIInv'
  <1>1. ASSUME NEW r \in SchRecs, NEW s \in SchDocs \cup {NoSch}, removing = {}, RecordSchema(r, s)
        PROVE  SchIInv'
    BY <1>1, RecordStep DEF RecordSchema
  <1>2. ASSUME NEW r \in SchRecs, removing = {}, RecordDeleted(r)
        PROVE  SchIInv'
    <2>1. Counted(sch, NoSch, 1) = sch
      BY SchemasAssumption DEF Counted
    <2> QED BY <1>2, <2>1, RecordStep DEF RecordDeleted
  <1>3. ASSUME NEW s \in SchDocs, NEW new \in SchDocs, NEW refs \in RefSets, removing = {},
               SchemaRevise(s, new, refs)
        PROVE  SchIInv'
    BY <1>3, ReviseStep
  <1>4. ASSUME NEW s \in SchLive, NEW id \in SchNames, NEW refs \in RefSets, removing = {},
               \A x \in SchLive \ {s} : sch[x].id = id => sch[s].id = id, SchemaUpdate(s, id, refs)
        PROVE  SchIInv'
    BY <1>4, UpdateStep
  <1>5. ASSUME NEW s \in SchDocs, NEW id \in SchNames, NEW refs \in RefSets, removing = {},
               \A x \in SchLive : sch[x].id # id, SchemaCreate(s, id, refs)
        PROVE  SchIInv'
    BY <1>5, CreateStep
  <1> QED BY <1>1, <1>2, <1>3, <1>4, <1>5, DeleteStep, DeleteEndStep DEF SchCleanNext

LEMMA SchInvariant == SchCleanSpec => []SchIInv
  <1>1. ASSUME SchIInv, UNCHANGED schVars
        PROVE  SchIInv'
    <2>1. SchLive' = SchLive /\ \A s \in SchDocs : Unused(s)' = Unused(s) /\ NameOf(s)' = NameOf(s)
      BY <1>1 DEF schVars, SchLive, Unused, Referenced, Successor, Predecessor, NameOf
    <2>2. SchTypeOK' /\ DeletionHolds'
      BY <1>1, <2>1 DEF schVars, SchIInv, SchTypeOK, DeletionHolds, SchLive
    <2>3. SchemasHeld'
      BY <1>1, <2>1 DEF schVars, SchIInv, SchemasHeld, SchCounted, RecordsServed
    <2>4. RefsSound'
      BY <1>1, <2>1 DEF schVars, SchIInv, RefsSound, RefsResolve, RefsAcyclic, NameOf
    <2>5. OneChain'
      <3>1. sch' = sch /\ schVer' = schVer
        BY <1>1 DEF schVars
      <3>2. OneChain /\ SchLive' = SchLive
        BY <1>1, <2>1 DEF SchIInv
      <3> QED BY <3>1, <3>2 DEF OneChain, NameOf
    <2> QED BY <2>2, <2>3, <2>4, <2>5 DEF SchIInv
  <1> QED BY <1>1, SchInitOK, SchStep, PTL DEF SchCleanSpec

\* A schema is counted once for each record that has it, and none in use is deleted.
THEOREM SchemasStayHeld == SchCleanSpec => []SchemasHeld
  BY SchInvariant, PTL DEF SchIInv

\* What a definition refers to is there, and no chain of references is a cycle.
THEOREM RefsStaySound == SchCleanSpec => []RefsSound
  BY SchInvariant, PTL DEF SchIInv

\* The versions of a schema follow one another, whichever are revised or deleted.
THEOREM VersionsChain == SchCleanSpec => []OneChain
  BY SchInvariant, PTL DEF SchIInv

-----------------------------------------------------------------------------
\* Tags.  No collection has a tag twice.
TagTypeOK ==
  /\ tags \in [Tagged -> TagLists \cup {NoList}]
  /\ count \in [TagNames -> Nat]
  /\ \A o \in Tagged : tags[o] # NoList => tags[o] \in CleanLists(o)

TagIInv == TagTypeOK /\ TagsCounted

\* Where a list has a tag.
Places(t, list) == {i \in DOMAIN list : list[i] = t}

LEMMA ListIs ==
  ASSUME NEW list \in TagLists, NEW t
  PROVE  /\ list # NoList /\ DOMAIN list \subseteq 1..MaxTags
         /\ IsFiniteSet(Places(t, list)) /\ Times(t, list) = Cardinality(Places(t, list))
         /\ Times(t, list) \in Nat /\ (t \notin Range(list) => Times(t, list) = 0)
  <1>1. PICK n \in 0..MaxTags : list \in [1..n -> TagNames]
    BY DEF TagLists
  <1>2. DOMAIN list \subseteq 1..MaxTags /\ IsFiniteSet(1..MaxTags)
    BY <1>1, FS_Interval, TagsAssumption
  <1>3. IsFiniteSet(Places(t, list))
    <2>1. Places(t, list) \subseteq 1..MaxTags
      BY <1>2 DEF Places
    <2> QED BY <1>2, <2>1, FS_Subset
  <1>4. Times(t, list) = Cardinality(Places(t, list))
    BY DEF Times, Places
  <1>5. t \notin Range(list) => Places(t, list) = {}
    BY DEF Places, Range
  <1> QED BY <1>2, <1>3, <1>4, <1>5, FS_CardinalityType, FS_EmptySet, TagsAssumption

\* A list without repetitions has a tag once or not at all.
LEMMA OnceInList ==
  ASSUME NEW list \in TagLists, IsInjective(list), NEW t \in Range(list)
  PROVE  Times(t, list) = 1
  <1>1. PICK i \in DOMAIN list : list[i] = t
    BY DEF Range
  <1>2. Places(t, list) = {i}
    BY <1>1 DEF Places, IsInjective
  <1> QED BY <1>2, ListIs, FS_Singleton

\* One list changes: its uses are replaced.
Had(o, t) == IF tags[o] = NoList THEN 0 ELSE Times(t, tags[o])

LEMMA UsesChange ==
  ASSUME TagTypeOK, NEW o \in Tagged, NEW new \in TagLists \cup {NoList}, tags' = [tags EXCEPT ![o] = new],
         NEW t \in TagNames
  PROVE  /\ Cardinality(Uses(t)) \in Nat /\ Had(o, t) \in Nat /\ Had(o, t) <= Cardinality(Uses(t))
         /\ Cardinality(Uses(t)') = Cardinality(Uses(t)) - Had(o, t) + Had(o, t)'
  <1> DEFINE All == Tagged \X (1..MaxTags)
             At(l) == {o} \X IF l = NoList THEN {} ELSE Places(t, l)
             Else == {use \in Uses(t) : use[1] # o}
             Number(l) == IF l = NoList THEN 0 ELSE Times(t, l)
  <1>1. IsFiniteSet(All)
    <2>1. IsFiniteSet(Tagged) /\ IsFiniteSet(1..MaxTags)
      BY FS_Interval, TagsAssumption
    <2> QED BY <2>1, FS_Product, Zenon
  <1>2. /\ tags \in [Tagged -> TagLists \cup {NoList}] /\ tags[o] \in TagLists \cup {NoList}
        /\ tags'[o] = new /\ \A x \in Tagged \ {o} : tags'[x] = tags[x]
    BY DEF TagTypeOK
  <1>3. ASSUME NEW l \in TagLists \cup {NoList}
        PROVE  /\ IsFiniteSet(At(l)) /\ Cardinality(At(l)) = Number(l) /\ Number(l) \in Nat
               /\ At(l) \subseteq All
    <2>1. CASE l = NoList
      <3>1. At(l) = {}
        BY <2>1
      <3> QED BY <2>1, <3>1, FS_EmptySet
    <2>2. CASE l # NoList
      <3>1. /\ At(l) = {o} \X Places(t, l) /\ IsFiniteSet(Places(t, l)) /\ Places(t, l) \subseteq DOMAIN l
            /\ Times(t, l) = Cardinality(Places(t, l)) /\ Times(t, l) \in Nat /\ DOMAIN l \subseteq 1..MaxTags
        BY <2>2, ListIs DEF Places
      <3>2. IsFiniteSet(At(l)) /\ Cardinality(At(l)) = 1 * Times(t, l)
        <4>1. IsFiniteSet({o}) /\ Cardinality({o}) = 1
          BY FS_Singleton, Zenon
        <4>2. /\ IsFiniteSet({o} \X Places(t, l))
              /\ Cardinality({o} \X Places(t, l)) = Cardinality({o}) * Cardinality(Places(t, l))
          BY <3>1, <4>1, FS_Product, Zenon
        <4> HIDE DEF At
        <4> QED BY <3>1, <4>1, <4>2
      <3>3. At(l) \subseteq All
        BY <3>1
      <3> QED BY <2>2, <3>1, <3>2, <3>3
    <2> QED BY <2>1, <2>2
  <1>4. Uses(t) = Else \cup At(tags[o]) /\ Uses(t)' = Else \cup At(new)
    <2>1. Uses(t) \subseteq Else \cup At(tags[o])
      BY DEF Uses, Places
    <2>2. At(tags[o]) \subseteq Uses(t)
      BY <1>2, <1>3 DEF Uses, Places
    <2>3. Uses(t)' \subseteq Else \cup At(new)
      BY <1>2 DEF Uses, Places
    <2>4. Else \subseteq Uses(t)'
      BY <1>2 DEF Uses
    <2>5. At(new) \subseteq Uses(t)'
      BY <1>2, <1>3 DEF Uses, Places
    <2> QED BY <2>1, <2>2, <2>3, <2>4, <2>5
  <1>5. IsFiniteSet(Else) /\ Else \cap At(tags[o]) = {} /\ Else \cap At(new) = {}
    <2>1. Else \subseteq All
      BY DEF Uses
    <2>2. IsFiniteSet(Else)
      BY <1>1, <2>1, FS_Subset
    <2> QED BY <2>2
  <1>6. Number(tags[o]) = Had(o, t) /\ Number(new) = Had(o, t)'
    BY <1>2 DEF Had, Times
  <1> HIDE DEF All, At, Else, Number
  <1>7. Cardinality(Else) \in Nat /\ Cardinality({}) = 0
    BY <1>5, FS_CardinalityType, FS_EmptySet
  <1>8. /\ Cardinality(Uses(t)) = Cardinality(Else) + Number(tags[o])
        /\ Cardinality(Uses(t)') = Cardinality(Else) + Number(new)
        /\ Number(tags[o]) \in Nat /\ Number(new) \in Nat
    <2>1. /\ Cardinality(Uses(t)) = Cardinality(Else) + Cardinality(At(tags[o])) - Cardinality({})
          /\ Cardinality(Uses(t)') = Cardinality(Else) + Cardinality(At(new)) - Cardinality({})
      BY <1>2, <1>3, <1>4, <1>5, FS_Union
    <2> QED BY <1>2, <1>3, <1>7, <2>1
  <1> QED BY <1>6, <1>7, <1>8

\* What is added and removed, as numbers.
LEMMA TagsSums ==
  ASSUME NEW cnt, NEW list, NEW X, NEW t \in TagNames, cnt[t] \in Nat, Times(t, list) \in Nat
  PROVE  /\ AddTags(cnt, list, X)[t] = IF t \in X THEN cnt[t] + Times(t, list) ELSE cnt[t]
         /\ AddTags(cnt, list, X)[t] \in Nat /\ RemoveTags(cnt, list, X)[t] \in Nat
         /\ t \in X /\ Times(t, list) <= cnt[t] => RemoveTags(cnt, list, X)[t] = cnt[t] - Times(t, list)
         /\ t \notin X => RemoveTags(cnt, list, X)[t] = cnt[t]
  <1>1. RemoveTags(cnt, list, X)[t] = CASE t \notin X -> cnt[t]
                                        [] t \in X /\ Times(t, list) < cnt[t] -> cnt[t] - Times(t, list)
                                        [] OTHER -> 0
    BY DEF RemoveTags
  <1>2. AddTags(cnt, list, X)[t] = IF t \in X THEN cnt[t] + Times(t, list) ELSE cnt[t]
    BY DEF AddTags
  <1> HIDE DEF RemoveTags, AddTags
  <1>3. CASE t \notin X
    BY <1>1, <1>2, <1>3
  <1>4. CASE t \in X /\ Times(t, list) < cnt[t]
    BY <1>1, <1>2, <1>4
  <1>5. CASE t \in X /\ ~(Times(t, list) < cnt[t])
    BY <1>1, <1>2, <1>5
  <1> QED BY <1>3, <1>4, <1>5

\* Counts stay counts.
LEMMA CountsAre ==
  ASSUME NEW cnt \in [TagNames -> Nat], NEW list \in TagLists, NEW X
  PROVE  AddTags(cnt, list, X) \in [TagNames -> Nat] /\ RemoveTags(cnt, list, X) \in [TagNames -> Nat]
  <1>1. ASSUME NEW t \in TagNames
        PROVE  AddTags(cnt, list, X)[t] \in Nat /\ RemoveTags(cnt, list, X)[t] \in Nat
    <2>1. Times(t, list) \in Nat /\ cnt[t] \in Nat
      BY ListIs
    <2> QED BY <2>1, TagsSums
  <1>2. /\ AddTags(cnt, list, X) = [t \in TagNames |-> AddTags(cnt, list, X)[t]]
        /\ RemoveTags(cnt, list, X) = [t \in TagNames |-> RemoveTags(cnt, list, X)[t]]
    BY DEF AddTags, RemoveTags
  <1> QED BY <1>1, <1>2

LEMMA TagsChange ==
  ASSUME TagIInv, NEW o \in Tagged, NEW new \in CleanLists(o) \cup {NoList}, tags' = [tags EXCEPT ![o] = new],
         count' \in [TagNames -> Nat],
         \A t \in PlainTags : count'[t] = count[t] - Had(o, t) + Had(o, t)'
  PROVE  TagIInv'
  <1> USE DEF TagIInv
  <1>1. new \in TagLists \cup {NoList} /\ tags \in [Tagged -> TagLists \cup {NoList}]
    BY DEF CleanLists, TagTypeOK
  <1>2. ASSUME NEW t \in PlainTags PROVE count'[t] = Cardinality(Uses(t)')
    <2>0. t \in TagNames
      BY DEF PlainTags
    <2>1. /\ Cardinality(Uses(t)) \in Nat /\ Had(o, t) \in Nat /\ Had(o, t) <= Cardinality(Uses(t))
          /\ Cardinality(Uses(t)') = Cardinality(Uses(t)) - Had(o, t) + Had(o, t)'
      BY <1>1, <2>0, UsesChange
    <2>2. Had(o, t)' \in Nat
      <3>1. tags'[o] = new
        BY <1>1
      <3>2. CASE new = NoList
        BY <3>1, <3>2 DEF Had
      <3>3. CASE new # NoList
        <4>1. Times(t, new) \in Nat
          BY <1>1, <3>3, ListIs
        <4>2. Had(o, t)' = Times(t, new)
          BY <3>1, <3>3 DEF Had, Times
        <4> QED BY <4>1, <4>2
      <3> QED BY <3>2, <3>3
    <2>3. count[t] = Cardinality(Uses(t))
      BY DEF TagsCounted
    <2> QED BY <2>1, <2>2, <2>3
  <1>3. TagsCounted'
    BY <1>2 DEF TagsCounted, PlainTags
  <1>4. TagTypeOK'
    <2>2. tags' \in [Tagged -> TagLists \cup {NoList}]
      BY <1>1
    <2>3. \A x \in Tagged : tags'[x] # NoList => tags'[x] \in CleanLists(x)
      BY <1>1 DEF TagTypeOK
    <2> QED BY <2>2, <2>3 DEF TagTypeOK, CleanLists
  <1> QED BY <1>3, <1>4

\* What a list has counts.
LEMMA HadIs ==
  ASSUME TagIInv, NEW o \in Tagged, tags[o] # NoList
  PROVE  /\ tags[o] \in CleanLists(o) /\ tags[o] \in TagLists
         /\ \A t \in PlainTags : /\ Had(o, t) = Times(t, tags[o]) /\ Had(o, t) \in Nat
                                 /\ count[t] \in Nat /\ Had(o, t) <= count[t]
  <1>1. tags[o] \in CleanLists(o) /\ tags[o] \in TagLists
    BY DEF TagIInv, TagTypeOK, CleanLists
  <1>2. ASSUME NEW t \in PlainTags
        PROVE  /\ Had(o, t) = Times(t, tags[o]) /\ Had(o, t) \in Nat
               /\ count[t] \in Nat /\ Had(o, t) <= count[t]
    <2>1. Had(o, t) = Times(t, tags[o])
      BY DEF Had
    <2>2. Times(t, tags[o]) \in Nat
      BY <1>1, ListIs
    <2> DEFINE At == {o} \X Places(t, tags[o])
    <2>3. /\ IsFiniteSet(Places(t, tags[o])) /\ Times(t, tags[o]) = Cardinality(Places(t, tags[o]))
          /\ DOMAIN tags[o] \subseteq 1..MaxTags /\ Places(t, tags[o]) \subseteq DOMAIN tags[o]
      BY <1>1, ListIs DEF Places
    <2>4. At \subseteq Uses(t)
      BY <2>3 DEF Uses, Places
    <2>5. IsFiniteSet(Uses(t))
      <3>1. IsFiniteSet(Tagged) /\ IsFiniteSet(1..MaxTags)
        BY FS_Interval, TagsAssumption
      <3>2. IsFiniteSet(Tagged \X (1..MaxTags))
        BY <3>1, FS_Product, Zenon
      <3>3. Uses(t) \subseteq Tagged \X (1..MaxTags)
        BY DEF Uses
      <3> QED BY <3>2, <3>3, FS_Subset
    <2>6. IsFiniteSet({o}) /\ Cardinality({o}) = 1
      BY FS_Singleton, Zenon
    <2>7. Cardinality(At) = Cardinality({o}) * Cardinality(Places(t, tags[o]))
      BY <2>3, <2>6, FS_Product, Zenon
    <2> HIDE DEF At
    <2>8. Cardinality(At) <= Cardinality(Uses(t))
      BY <2>4, <2>5, FS_Subset
    <2>9. count[t] = Cardinality(Uses(t)) /\ count[t] \in Nat
      BY DEF TagIInv, TagsCounted, TagTypeOK, PlainTags
    <2>10. Cardinality(At) = Times(t, tags[o])
      BY <2>2, <2>3, <2>6, <2>7
    <2> QED BY <2>1, <2>2, <2>8, <2>9, <2>10
  <1> QED BY <1>1, <1>2

\* All tags of a list are removed: of what is deleted, and with tags_clear.
LEMMA TagsRemoved ==
  ASSUME TagIInv, NEW o \in Tagged, tags[o] # NoList, NEW new \in {<<>>, NoList},
         tags' = [tags EXCEPT ![o] = new], count' = RemoveTags(count, tags[o], TagNames)
  PROVE  TagIInv'
  <1>1. <<>> \in CleanLists(o)
    <2>1. <<>> \in [1..0 -> TagNames] /\ 0 \in 0..MaxTags
      BY TagsAssumption
    <2>2. <<>> \in TagLists
      BY <2>1 DEF TagLists
    <2> QED BY <2>2 DEF CleanLists, Range, IsInjective
  <1>2. tags'[o] = new
    BY DEF TagIInv, TagTypeOK
  <1>3. ASSUME NEW t \in PlainTags PROVE count'[t] = count[t] - Had(o, t) + Had(o, t)'
    <2>1. Had(o, t)' = 0
      <3>1. CASE new = NoList
        BY <1>2, <3>1 DEF Had
      <3>2. CASE new # NoList
        <4>1. new = <<>>
          BY <3>2
        <4>2. t \notin Range(<<>>) /\ <<>> \in TagLists
          BY <1>1 DEF Range, CleanLists
        <4>3. Times(t, new) = 0
          BY <4>1, <4>2, ListIs
        <4> QED BY <1>2, <3>2, <4>3 DEF Had, Times
      <3> QED BY <3>1, <3>2
    <2>2. count'[t] = count[t] - Had(o, t)
      <3>1. /\ Had(o, t) = Times(t, tags[o]) /\ Had(o, t) \in Nat
            /\ count[t] \in Nat /\ Had(o, t) <= count[t]
        BY HadIs
      <3> QED BY <3>1, TagsSums DEF PlainTags
    <2> QED BY <2>1, <2>2, HadIs
  <1>4. count' \in [TagNames -> Nat]
    BY HadIs, CountsAre DEF TagIInv, TagTypeOK
  <1> QED BY <1>1, <1>3, <1>4, TagsChange

\* A list is replaced: what is new is added and what is not there any more is
\* removed, and a tag that is neither is there as often as before.
LEMMA TagsReplaced ==
  ASSUME TagIInv, NEW o \in Tagged, tags[o] # NoList, NEW list \in CleanLists(o), NEW X, NEW Y,
         tags' = [tags EXCEPT ![o] = list],
         count' = RemoveTags(AddTags(count, list, X), tags[o], Y),
         \A t \in PlainTags : \/ (t \in X \/ Times(t, list) = 0) /\ (t \in Y \/ Times(t, tags[o]) = 0)
                              \/ t \notin X /\ t \notin Y /\ Times(t, list) = Times(t, tags[o])
  PROVE  TagIInv'
  <1>1. tags'[o] = list /\ list \in TagLists
    BY DEF TagIInv, TagTypeOK, CleanLists
  <1>2. ASSUME NEW t \in PlainTags PROVE count'[t] = count[t] - Had(o, t) + Had(o, t)'
    <2> DEFINE sum == AddTags(count, list, X)
    <2>1. Had(o, t)' = Times(t, list) /\ Times(t, list) \in Nat
      BY <1>1, ListIs DEF Had, Times
    <2>2. /\ Had(o, t) = Times(t, tags[o]) /\ Had(o, t) \in Nat
          /\ count[t] \in Nat /\ Had(o, t) <= count[t]
      BY HadIs
    <2>0. t \in TagNames
      BY DEF PlainTags
    <2>3. sum[t] = IF t \in X THEN count[t] + Times(t, list) ELSE count[t]
      BY <2>0, <2>1, <2>2, TagsSums
    <2>4. sum[t] \in Nat /\ Times(t, tags[o]) <= sum[t]
      BY <2>1, <2>2, <2>3
    <2> HIDE DEF sum
    <2>5. /\ t \in Y => count'[t] = sum[t] - Times(t, tags[o])
          /\ t \notin Y => count'[t] = sum[t]
      <3>1. count' = RemoveTags(sum, tags[o], Y)
        BY DEF sum
      <3> QED BY <2>0, <2>2, <2>4, <3>1, TagsSums
    <2> QED BY <2>1, <2>2, <2>3, <2>5
  <1>3. count' \in [TagNames -> Nat]
    <2>1. AddTags(count, list, X) \in [TagNames -> Nat]
      BY <1>1, CountsAre DEF TagIInv, TagTypeOK
    <2> QED BY <2>1, HadIs, CountsAre
  <1> QED BY <1>2, <1>3, TagsChange

LEMMA TagStep == TagIInv /\ [TagsCleanNext]_tagVars => TagIInv'
  <1> SUFFICES ASSUME TagIInv, [TagsCleanNext]_tagVars PROVE TagIInv'
    OBVIOUS
  <1>0. \A o : CleanLists(o) \subseteq TagLists
    BY DEF CleanLists
  <1>1. ASSUME NEW o \in Tagged, NEW list \in CleanLists(o), TagsCreate(o, list) PROVE TagIInv'
    <2>1. /\ tags[o] = NoList /\ tags' = [tags EXCEPT ![o] = list] /\ list \in TagLists
          /\ count' = AddTags(count, list, TagNames)
      BY <1>0, <1>1 DEF TagsCreate
    <2>2. tags'[o] = list
      BY <2>1 DEF TagIInv, TagTypeOK
    <2>3. ASSUME NEW t \in PlainTags PROVE count'[t] = count[t] - Had(o, t) + Had(o, t)'
      <3>1. Had(o, t) = 0 /\ Had(o, t)' = Times(t, list) /\ Times(t, list) \in Nat
        BY <2>1, <2>2, ListIs DEF Had, Times
      <3>2. count[t] \in Nat
        BY DEF TagIInv, TagTypeOK, PlainTags
      <3>3. count'[t] = count[t] + Times(t, list)
        BY <2>1, <3>1, <3>2, TagsSums DEF PlainTags
      <3> QED BY <3>1, <3>2, <3>3
    <2>4. count' \in [TagNames -> Nat]
      BY <2>1, CountsAre DEF TagIInv, TagTypeOK
    <2> QED BY <2>1, <2>3, <2>4, TagsChange
  <1>2. ASSUME NEW r \in TagRecs, NEW list \in TagLists, TagsUpdateRecord(r, list) PROVE TagIInv'
    <2> DEFINE old == tags[r]
               NotIn(l) == {t \in TagNames : ~IsIn(t, l)}
    <2>1. r \in Tagged /\ old # NoList /\ tags' = [tags EXCEPT ![r] = list]
      BY <1>2 DEF TagsUpdateRecord, Tagged
    <2>2. list \in CleanLists(r)
      BY TagsAssumption DEF CleanLists
    <2>3. \A l, t : t \in PlainTags => t \in NotIn(l)
      BY DEF PlainTags, IsIn
    <2>4. CASE old # <<>>
      <3>1. count' = RemoveTags(AddTags(count, list, NotIn(old)), old, NotIn(list))
        BY <1>2, <2>4 DEF TagsUpdateRecord
      <3> HIDE DEF NotIn
      <3> QED BY <2>1, <2>2, <2>3, <3>1, TagsReplaced
    <2>5. CASE old = <<>>
      <3>1. count' = AddTags(count, list, TagNames)
        BY <1>2, <2>5 DEF TagsUpdateRecord
      <3>2. AddTags(count, list, TagNames) \in [TagNames -> Nat]
        BY CountsAre DEF TagIInv, TagTypeOK
      <3>3. count' = RemoveTags(AddTags(count, list, TagNames), old, {})
        BY <3>1, <3>2 DEF RemoveTags
      <3>4. \A t : Times(t, old) = 0
        BY <2>1, <2>5, HadIs, ListIs DEF Range
      <3>5. ASSUME NEW X, NEW Y, count' = RemoveTags(AddTags(count, list, X), tags[r], Y),
                   \A t \in PlainTags : t \in X /\ Times(t, tags[r]) = 0
            PROVE  TagIInv'
        BY <2>1, <2>2, <3>5, TagsReplaced
      <3>6. \A t \in PlainTags : t \in TagNames /\ Times(t, tags[r]) = 0
        BY <3>4 DEF PlainTags
      <3> QED BY <3>3, <3>5, <3>6
    <2> QED BY <2>4, <2>5
  <1>3. ASSUME NEW c \in TagColls, NEW list \in CleanLists(c), TagsUpdateColl(c, list) PROVE TagIInv'
    <2> DEFINE old == tags[c]
               X == {t \in TagNames : ~Includes(old, t)}
               Y == {t \in TagNames : ~Includes(list, t)}
    <2>1. c \in Tagged /\ old # NoList /\ tags' = [tags EXCEPT ![c] = list]
      BY <1>3 DEF TagsUpdateColl, Tagged
    <2>2. count' = RemoveTags(AddTags(count, list, X), old, Y)
      BY <1>3 DEF TagsUpdateColl
    <2>3. old \in TagLists /\ list \in TagLists /\ IsInjective(old) /\ IsInjective(list)
      <3>1. old \in CleanLists(c) /\ c \notin TagRecs
        BY <2>1, HadIs, TagsAssumption
      <3> QED BY <3>1 DEF CleanLists
    <2>4. ASSUME NEW t \in PlainTags
          PROVE  \/ (t \in X \/ Times(t, list) = 0) /\ (t \in Y \/ Times(t, old) = 0)
                 \/ t \notin X /\ t \notin Y /\ Times(t, list) = Times(t, old)
      <3>1. t \notin Y => Times(t, list) = 1
        BY <2>3, OnceInList DEF Includes, PlainTags
      <3>2. t \notin X => Times(t, old) = 1
        BY <2>3, OnceInList DEF Includes, PlainTags
      <3>3. t \in Y => Times(t, list) = 0
        BY <2>3, ListIs DEF Includes
      <3>4. t \in X => Times(t, old) = 0
        BY <2>3, ListIs DEF Includes
      <3> HIDE DEF X, Y
      <3> QED BY <3>1, <3>2, <3>3, <3>4
    <2> HIDE DEF X, Y
    <2>5. \A t \in PlainTags : \/ (t \in X \/ Times(t, list) = 0) /\ (t \in Y \/ Times(t, tags[c]) = 0)
                               \/ t \notin X /\ t \notin Y /\ Times(t, list) = Times(t, tags[c])
      BY <2>4
    <2>6. \A o \in Tagged : \A l \in CleanLists(o) :
            tags[o] # NoList /\ tags' = [tags EXCEPT ![o] = l]
            /\ count' = RemoveTags(AddTags(count, l, X), tags[o], Y)
            /\ (\A t \in PlainTags : \/ (t \in X \/ Times(t, l) = 0) /\ (t \in Y \/ Times(t, tags[o]) = 0)
                                     \/ t \notin X /\ t \notin Y /\ Times(t, l) = Times(t, tags[o]))
            => TagIInv'
      BY TagsReplaced
    <2> QED BY <2>1, <2>2, <2>5, <2>6
  <1>4. ASSUME NEW r \in TagRecs, TagsClearRecord(r) PROVE TagIInv'
    BY <1>4, TagsRemoved DEF TagsClearRecord, Tagged
  <1>5. ASSUME NEW o \in Tagged, TagsDelete(o) PROVE TagIInv'
    BY <1>5, TagsRemoved DEF TagsDelete
  <1>6. CASE UNCHANGED tagVars
    BY <1>6 DEF tagVars, TagIInv, TagTypeOK, TagsCounted, Uses, PlainTags
  <1> QED BY <1>1, <1>2, <1>3, <1>4, <1>5, <1>6 DEF TagsCleanNext

\* The count of a tag is the number of times records and collections have it,
\* whatever is created, changed and deleted (addTags and removeTags of support.js),
\* of every tag that recordUpdate does not take for an index or a name, also when
\* lists have such tags, and when no collection has a tag twice.
THEOREM TagsStayCounted == TagsCleanSpec => []TagsCounted
  <1>1. TagsInit => TagIInv
    <2> SUFFICES ASSUME TagsInit PROVE TagIInv
      OBVIOUS
    <2>1. \A t : Uses(t) = {}
      BY DEF TagsInit, Uses
    <2>2. TagTypeOK
      BY DEF TagsInit, TagTypeOK
    <2> QED BY <2>1, <2>2, FS_EmptySet DEF TagsInit, TagIInv, TagsCounted, PlainTags
  <1>2. TagIInv => TagsCounted
    BY DEF TagIInv
  <1> QED BY <1>1, <1>2, TagStep, PTL DEF TagsCleanSpec
=============================================================================
