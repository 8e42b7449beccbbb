-------------------------------- MODULE Metrics --------------------------------
(***************************************************************************)
(* Counting the messages of users (metricsUpdateMsgCount and metricsThread *)
(* of core/server/CoreServer.cpp, /metrics/msg_count/update of             *)
(* core/database/foxx/api/metrics_router.js).  Client workers count in a   *)
(* map; a thread swaps this map with one of its own, which it uploads and  *)
(* then clears.  When the upload fails the thread's map is kept, and is    *)
(* swapped back at the next round.  The route has no transaction: of an    *)
(* upload that fails, the records of some users may have been saved.       *)
(***************************************************************************)
EXTENDS Naturals, FiniteSetsExt

CONSTANTS MetUsers,  \* users
          MetTypes,  \* types of messages, which are numbers but never 0
          MaxMsgs,   \* bound: messages that are counted
          MaxFails   \* bound: uploads that fail

ASSUME MetAssumption == /\ MetTypes \subseteq Nat \ {0} /\ IsFiniteSet(MetTypes)
                        /\ MaxMsgs \in Nat /\ MaxFails \in Nat

VARIABLES counted, \* messages that were counted, by user and type
          live,    \* m_msg_metrics; under type 0 is a total
          batch,   \* metrics, the map of the thread
          saved,   \* sums of what is in the database
          round,   \* what the thread does
          failed   \* uploads that failed

metVars == <<counted, live, batch, saved, round, failed>>

Zero == [u \in MetUsers |-> [t \in MetTypes \cup {0} |-> 0]]
TotalOf(msg) == MapThenSumSet(LAMBDA t : msg[t], MetTypes)
-----------------------------------------------------------------------------
MetInit == /\ counted = Zero /\ live = Zero /\ batch = Zero /\ saved = Zero
           /\ round = "sleep"
           /\ failed = 0

\* metricsUpdateMsgCount, under the mutex
CountMsg(u, t) ==
  /\ TotalOf([x \in MetTypes |-> MapThenSumSet(LAMBDA y : counted[y][x], MetUsers)]) < MaxMsgs
  /\ live' = [live EXCEPT ![u][t] = @ + 1]
  /\ counted' = [counted EXCEPT ![u][t] = @ + 1]
  /\ UNCHANGED <<batch, saved, round, failed>>

\* The swap, under the mutex, and the totals: the sum of all that a user has in
\* the map, where a map that was not uploaded already has a total.
SwapMaps ==
  /\ round = "sleep"
  /\ round' = "upload"
  /\ live' = batch
  /\ batch' = [u \in MetUsers |-> [live[u] EXCEPT ![0] = TotalOf(live[u]) + @]]
  /\ UNCHANGED <<counted, saved, failed>>

\* The records of the users us are saved, as far as the upload gets.
SavedOf(us) == [u \in MetUsers |-> IF u \in us THEN [t \in MetTypes \cup {0} |-> saved[u][t] + batch[u][t]]
                                   ELSE saved[u]]
UploadDone ==
  /\ round = "upload"
  /\ round' = "sleep"
  /\ saved' = SavedOf(MetUsers)
  /\ batch' = Zero
  /\ UNCHANGED <<counted, live, failed>>

\* Mutant: the map of the thread is cleared when the upload fails.
UploadFails_clears(us) ==
  /\ round = "upload" /\ failed < MaxFails
  /\ round' = "sleep"
  /\ failed' = failed + 1
  /\ saved' = SavedOf(us)
  /\ batch' = Zero
  /\ UNCHANGED <<counted, live>>

\* An upload that fails leaves the map as it is.
UploadFails(us) ==
  /\ round = "upload" /\ failed < MaxFails
  /\ round' = "sleep"
  /\ failed' = failed + 1
  /\ saved' = SavedOf(us)
  /\ UNCHANGED <<counted, live, batch>>

MetNext == \/ \E u \in MetUsers, t \in MetTypes : CountMsg(u, t)
           \/ SwapMaps
           \/ UploadDone
           \/ \E us \in SUBSET MetUsers : UploadFails(us)
MetSpec == MetInit /\ [][MetNext]_metVars
-----------------------------------------------------------------------------
\* No message gets lost between client workers and the database, whatever uploads
\* fail: it was saved, or is in one of the two maps.  And no total that was saved
\* is less than the messages saved with it.
MetricsKept ==
  \A u \in MetUsers :
    /\ \A t \in MetTypes : saved[u][t] + live[u][t] + batch[u][t] >= counted[u][t]
    /\ saved[u][0] >= TotalOf(saved[u])
=============================================================================
