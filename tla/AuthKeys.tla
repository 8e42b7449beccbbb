------------------------------- MODULE AuthKeys -------------------------------
(***************************************************************************)
(* The public keys that the core server knows, and how often they are used *)
(* (core/server: AuthMap.cpp, AuthenticationManager.cpp, Condition.cpp,    *)
(* Server::authenticateClient of CoreServer.cpp, and its only caller of    *)
(* purge, common/source/operators/AuthenticationOperator.cpp).  A client   *)
(* that logs in gets its key into the transient map; a purge moves keys    *)
(* that were used to the session map, and later keeps or drops them there. *)
(*                                                                         *)
(* The mutex of the manager makes each of its methods one step.  Messages  *)
(* are received by one thread, the proxy; clients log in by others.  Keys  *)
(* of users that are in the database are left out: only the keys of        *)
(* repositories are persistent here.  So is the owner of a key, which is   *)
(* copied with it and decides nothing.                                     *)
(***************************************************************************)
EXTENDS Integers, FiniteSets

CONSTANTS Keys,             \* public keys
          TransInterval, SessionInterval, \* purge intervals, in units of time
          PromoteCount,     \* accesses_to_promote
          ResetCount,       \* accesses_to_reset
          MaxTime,          \* bound: the clock stops there
          MaxCount,         \* bound: accesses that are counted
          MaxAnon,          \* requests to log in that one client has under way
          NoKey

ASSUME AuthAssumption ==
  /\ TransInterval \in Nat \ {0} /\ SessionInterval \in Nat \ {0}
  /\ PromoteCount \in Nat /\ ResetCount \in Nat \ {0} /\ ResetCount <= PromoteCount
  /\ MaxTime \in Nat /\ MaxCount \in Nat /\ PromoteCount <= MaxCount
  /\ NoKey \notin Keys /\ NoKey \notin [exp : Nat, cnt : Nat]

VARIABLES now,        \* time(0)
          trans,      \* m_trans_auth_clients: expiration and accesses of each key,
                      \* NoKey for one that is not there
          session,    \* m_session_auth_clients, likewise
          persistent, \* m_persistent_auth_clients
          nextPurge,  \* m_next_purge of the transient and of the session keys
          proxy,      \* what the proxy does for the message it received
          anon        \* requests of unknown keys that client workers have

authVars == <<now, trans, session, persistent, nextPurge, proxy, anon>>

Present(map) == {k \in Keys : map[k] # NoKey}

-----------------------------------------------------------------------------
AuthInit == /\ now = 0
            /\ trans = [k \in Keys |-> NoKey] /\ session = trans /\ persistent = {}
            /\ nextPurge = [trans |-> TransInterval, session |-> SessionInterval]
            /\ proxy = [pc |-> "idle", key |-> NoKey]
            /\ anon = [k \in Keys |-> 0]

Tick == /\ now < MaxTime
        /\ now' = now + 1
        /\ UNCHANGED <<trans, session, persistent, nextPurge, proxy, anon>>

\* getExpiredKeys
Expired(map) == {k \in Present(map) : map[k].exp >= now}

\* Mutant: the count is not taken over.
Promote_unused(k) ==
  IF trans[k].cnt >= PromoteCount THEN [exp |-> now + SessionInterval, cnt |-> 0] ELSE session[k]

\* Promote::enforce and Reset::enforce
Promote(k) ==
  LET e == trans[k]
      s == IF e.cnt >= PromoteCount
           THEN [exp |-> now + SessionInterval, cnt |-> 0] ELSE session[k]
  IN IF s = NoKey THEN NoKey ELSE [s EXCEPT !.cnt = e.cnt]
Reset(k) ==
  LET e == session[k]
  IN IF e.cnt >= ResetCount THEN [e EXCEPT !.exp = now + SessionInterval, !.cnt = 0] ELSE NoKey

\* AuthenticationOperator::execute, which purges first.
PurgeTransient(k) ==
  /\ proxy.pc = "idle"
  /\ proxy' = [pc |-> "session", key |-> k]
  /\ IF Present(trans) # {} /\ now >= nextPurge.trans
     THEN /\ session' = [x \in Keys |-> IF x \in Expired(trans) THEN Promote(x) ELSE session[x]]
          /\ trans' = [x \in Keys |-> IF x \in Expired(trans) THEN NoKey ELSE trans[x]]
          /\ nextPurge' = [nextPurge EXCEPT !.trans = now + TransInterval]
     ELSE UNCHANGED <<session, trans, nextPurge>>
  /\ UNCHANGED <<now, persistent, anon>>

PurgeSession ==
  /\ proxy.pc = "session"
  /\ proxy' = [proxy EXCEPT !.pc = "access"]
  /\ IF Present(session) # {} /\ now >= nextPurge.session
     THEN /\ session' = [x \in Keys |-> IF x \in Expired(session) THEN Reset(x) ELSE session[x]]
          /\ nextPurge' = [nextPurge EXCEPT !.session = now + SessionInterval]
     ELSE UNCHANGED <<session, nextPurge>>
  /\ UNCHANGED <<now, trans, persistent, anon>>

\* hasKey and incrementKeyAccessCounter.  A client with an unknown key is
\* anonymous, and may want to log in.
Access ==
  LET k == proxy.key
      Counted(map) == [map EXCEPT ![k].cnt = IF @ < MaxCount THEN @ + 1 ELSE @]
  IN /\ proxy.pc = "access"
     /\ proxy' = [pc |-> "idle", key |-> NoKey]
     /\ trans' = IF k \in Present(trans) THEN Counted(trans) ELSE trans
     /\ session' = IF k \in Present(session) \ Present(trans) THEN Counted(session) ELSE session
     /\ anon' = IF k \in Present(trans) \cup Present(session) \cup persistent THEN anon
                ELSE [anon EXCEPT ![k] = IF @ < MaxAnon THEN @ + 1 ELSE @]
     /\ UNCHANGED <<now, persistent, nextPurge>>

\* Server::authenticateClient
Authenticate(k) ==
  /\ anon[k] > 0
  /\ anon' = [anon EXCEPT ![k] = @ - 1]
  /\ trans' = [trans EXCEPT ![k] = [exp |-> now + TransInterval, cnt |-> 0]]
  /\ UNCHANGED <<now, session, persistent, nextPurge, proxy>>

AuthNext == \/ Tick
            \/ \E k \in Keys : PurgeTransient(k)
            \/ PurgeSession
            \/ Access
            \/ \E k \in Keys : Authenticate(k)

AuthSpec == AuthInit /\ [][AuthNext]_authVars
-----------------------------------------------------------------------------
\* "Set the access counter so that it doesn't get prematurely removed"
\* (Condition.cpp): no purge drops a session key before a whole interval has gone
\* since the key was promoted, or last kept.
SessionLasts ==
  [][\A k \in Keys : k \in Present(session) /\ session'[k] = NoKey /\ k \notin persistent'
                       => session[k].exp <= now]_authVars
=============================================================================
