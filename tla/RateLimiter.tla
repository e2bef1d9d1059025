---------------------------- MODULE RateLimiter ----------------------------
(***************************************************************************)
(* SlidingWindowRateLimiter: the in-memory limiter of one worker, behind   *)
(* the send endpoint (keyed by tenant and environment) and the contact     *)
(* endpoint (keyed by client address).                                     *)
(*                                                                         *)
(* tryConsume runs to completion on the event loop, so it is one step.     *)
(*                                                                         *)
(* The list of instants of a key is a set of hits: instants are pushed in  *)
(* the order of the clock, so the first of the list is the least, and two  *)
(* pushed at the same instant are told apart by a number.  A key is in the *)
(* Map exactly while it has hits, an empty list is never stored.  The Map  *)
(* iterates in the order of insertion: "earlier" is that order.            *)
(***************************************************************************)
EXTENDS Integers, FiniteSetsExt

CONSTANTS
  Client,      \* keys the limiter is asked about
  MaxHits,
  WindowMs,
  MaxKeys,     \* MAX_KEYS
  Second,      \* milliseconds in a second (scaled down for model checking)
  Horizon      \* bound: the last instant explored

ASSUME LimiterAssumption ==
  /\ MaxHits \in Nat \ {0} /\ WindowMs \in Nat \ {0}
  /\ MaxKeys \in Nat \ {0} /\ Second \in Nat \ {0} /\ Horizon \in Nat

VARIABLES
  now,         \* Date.now()
  hits,        \* what the Map stores for each key
  earlier,     \* the keys that stand before each key in the Map
  granted,     \* history: the calls allowed since the key was last dropped
               \* to make room
  retryAt      \* history: the instant the last denial named, -1 if since allowed

vars == <<now, hits, earlier, granted, retryAt>>

Hit == [at : 0 .. Horizon, nth : Nat]

Tracked == {k \in Client : hits[k] # {}}

\* Mutated form of Recent: the window is one tick short.
RecentTooShort(S) == {h \in S : h.at > now - WindowMs + 1}
Recent(S) == {h \in S : h.at > now - WindowMs}

InWindow(S) == {h \in S : now - h.at < WindowMs}

\* push(now)
AtNow(S) == {h \in S : h.at = now}
NewHit(S) == [at |-> now, nth |-> Cardinality(AtNow(S))]
Push(S) == S \cup {NewHit(S)}

(***************************************************************************)
(* pruneExpired: keys without a recent instant leave the Map, the others   *)
(* keep their place and their recent instants.                             *)
(***************************************************************************)
Kept == {k \in Client : Recent(hits[k]) # {}}
KeptHits == [k \in Client |-> Recent(hits[k])]
KeptEarlier == [k \in Client |-> IF k \in Kept THEN earlier[k] \cap Kept ELSE {}]

Oldest(k) == Min({h.at : h \in Recent(hits[k])})

CeilDiv(n, d) == (n + d - 1) \div d

\* Mutated form of RetryAfterSec: rounded down.
RetryAfterFloor(oldest) == Max({1, (oldest + WindowMs - now) \div Second})
RetryAfterSec(oldest) == Max({1, CeilDiv(oldest + WindowMs - now, Second)})

(***************************************************************************)
(* A denied call stores the pruned instants again (at its old place in the *)
(* Map: with no recent instant it could not have been denied).             *)
(***************************************************************************)
Deny(k) ==
  /\ Cardinality(Recent(hits[k])) >= MaxHits
  /\ hits' = KeptHits
  /\ earlier' = KeptEarlier
  /\ retryAt' = [retryAt EXCEPT ![k] = now + Second * RetryAfterSec(Oldest(k))]
  /\ UNCHANGED <<now, granted>>

(***************************************************************************)
(* An allowed call on a new key first makes room by dropping the key       *)
(* inserted first, with its instants.                                      *)
(***************************************************************************)
\* Mutated form of MakesRoom: a key that is in the table makes room as well.
AlwaysMakesRoom(k) == Cardinality(Kept) >= MaxKeys
MakesRoom(k) == k \notin Kept /\ Cardinality(Kept) >= MaxKeys

Victims(k) == IF MakesRoom(k) THEN {v \in Kept : KeptEarlier[v] = {}} ELSE {}

Allow(k) ==
  /\ Cardinality(Recent(hits[k])) < MaxHits
  /\ hits' = [u \in Client |->
       IF u = k THEN Push(Recent(hits[k]))
       ELSE IF u \in Victims(k) THEN {} ELSE KeptHits[u]]
  /\ earlier' = [u \in Client |->
       (IF u = k /\ k \notin Kept THEN Kept ELSE KeptEarlier[u]) \ Victims(k)]
  /\ granted' = [u \in Client |->
       IF u = k THEN Push(InWindow(granted[k]))
       ELSE IF u \in Victims(k) THEN {} ELSE InWindow(granted[u])]
  /\ retryAt' = [u \in Client |-> IF u = k \/ u \in Victims(k) THEN -1 ELSE retryAt[u]]
  /\ UNCHANGED now

TryConsume(k) == Allow(k) \/ Deny(k)

Tick ==
  /\ now < Horizon
  /\ now' = now + 1
  /\ UNCHANGED <<hits, earlier, granted, retryAt>>

Init ==
  /\ now = 0
  /\ hits = [k \in Client |-> {}]
  /\ earlier = [k \in Client |-> {}]
  /\ granted = [k \in Client |-> {}]
  /\ retryAt = [k \in Client |-> -1]
-----------------------------------------------------------------------------
\* The keys form a list: of two keys, one stands before the other.
IsList(before, keys) ==
  /\ \A k \in Client : before[k] \subseteq keys
  /\ \A k \in Client \ keys : before[k] = {}
  /\ \A u, v \in keys : u \in before[v] => before[u] \subseteq before[v] \ {u, v}
  /\ \A u, v \in keys : u = v \/ u \in before[v] \/ v \in before[u]

(***************************************************************************)
(* Types, and the Map is consistent: it lists its keys one after the       *)
(* other, and never more than MAX_KEYS of them.                            *)
(***************************************************************************)
TypeOK ==
  /\ now \in 0 .. Horizon
  /\ hits \in [Client -> SUBSET Hit]
  /\ granted \in [Client -> SUBSET Hit]
  /\ \A k \in Client : IsFiniteSet(hits[k]) /\ IsFiniteSet(granted[k])
  /\ retryAt \in [Client -> Int]
  /\ earlier \in [Client -> SUBSET Client]
  /\ IsList(earlier, Tracked)
  /\ IsFiniteSet(Tracked) /\ Cardinality(Tracked) <= MaxKeys

(***************************************************************************)
(* A key is allowed at most MaxHits calls within any window, as long as it *)
(* is not dropped to make room for another.                                *)
(***************************************************************************)
AtMostMaxHitsPerWindow ==
  \A k \in Client : Cardinality(InWindow(granted[k])) <= MaxHits

(***************************************************************************)
(* Retry-After is kept: a caller that comes back at the instant it was     *)
(* told, or later, and made no other successful call, is allowed.          *)
(***************************************************************************)
RetryAfterIsEnough ==
  [][\A k \in Client : (retryAt[k] # -1 /\ now >= retryAt[k]) => ~Deny(k)]_vars
-----------------------------------------------------------------------------
(***************************************************************************)
(* The limiter implements SlidingWindow: pruned instants, the table and    *)
(* its evictions decide as the promise has it, a denied call does not      *)
(* count, no key is dropped while there is room, and what Retry-After      *)
(* names is late enough.  A counted call is one allowed within the window. *)
(***************************************************************************)
Counted == [k \in Client |-> InWindow(granted[k])]

Window == INSTANCE SlidingWindow WITH counted <- Counted, until <- retryAt

ImplementsWindow == Window!Spec
=============================================================================
