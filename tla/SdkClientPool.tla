--------------------------- MODULE SdkClientPool ---------------------------
(***************************************************************************)
(* The pool of SDK clients (server/adapters/sdk_client_pool.py) as the     *)
(* adapter uses it (send in server/adapters/claude_agent_sdk.py): a client *)
(* for each conversation and agent, found without the lock, connected      *)
(* outside of it and put into the pool under it.                           *)
(*                                                                         *)
(* A client is named after the call that created it.  A step is what runs  *)
(* between two awaits: the connect and disconnect of the SDK (external)    *)
(* and the wait for the lock.  evict_all, which nothing calls, is left out.*)
(***************************************************************************)
EXTENDS Naturals, Sequences, FiniteSets, SequencesExt

CONSTANTS
  Calls,       (* calls of send                                            *)
  Keys,        (* conversation and agent                                   *)
  MaxSize      (* max_size                                                 *)

NoClient == "no client"
Free == "free"

ASSUME PoolAssumption ==
  /\ MaxSize \in Nat \ {0} /\ IsFiniteSet(Keys)
  /\ NoClient \notin Calls /\ Free \notin Calls

VARIABLES
  pool,        (* key -> its client, NoClient when there is none           *)
  lru,         (* the keys of the pool by last_used, the oldest first      *)
  idle,        (* keys that have not been used for longer than the ttl     *)
  lock,        (* the call that holds _lock                                *)
  expired,     (* what the holder has found expired and not yet popped     *)
  call,        (* call -> where it is                                      *)
  key,         (* call -> its key                                          *)
  client,      (* call -> the client it streams from                       *)
  victim,      (* call -> the client it is disconnecting                   *)
  connected,   (* clients that are connected                               *)
  abandoned    (* history: clients in the hands of a call that timed out   *)

poolVars == <<pool, lru, idle, lock, expired, call, key, client, victim, connected, abandoned>>

Has(k) == pool[k] # NoClient
Filled == {k \in Keys : Has(k)}
Moved(c, at) == call' = [call EXCEPT ![c] = at]

PoolInit ==
  /\ pool = [k \in Keys |-> NoClient] /\ lru = <<>> /\ idle = {}
  /\ lock = Free /\ expired = {}
  /\ call = [c \in Calls |-> "new"] /\ key = [c \in Calls |-> "none"]
  /\ client = [c \in Calls |-> NoClient] /\ victim = [c \in Calls |-> NoClient]
  /\ connected = {} /\ abandoned = {}

\* last_used is now
Touch(k) == lru' = Append(Remove(lru, k), k) /\ idle' = idle \ {k}

\* The entry of k leaves the pool and call c awaits its client's disconnect
Pop(c, k) ==
  /\ pool' = [pool EXCEPT ![k] = NoClient]
  /\ lru' = Remove(lru, k) /\ idle' = idle \ {k}
  /\ victim' = [victim EXCEPT ![c] = pool[k]]

-----------------------------------------------------------------------------
\* get_or_create without the lock: the client of the pool, or a new one
Lookup(c, k) ==
  IF Has(k)
  THEN Touch(k) /\ client' = [client EXCEPT ![c] = pool[k]] /\ Moved(c, "streaming")
  ELSE UNCHANGED <<lru, idle, client>> /\ Moved(c, "connecting")

Request(c, k) ==
  /\ call[c] = "new"
  /\ key' = [key EXCEPT ![c] = k]
  /\ \/ Lookup(c, k)
     \/ Moved(c, "clearing") /\ UNCHANGED <<lru, idle, client>>     \* not reuse_session
  /\ UNCHANGED <<pool, lock, expired, victim, connected, abandoned>>

\* evict
Evict(c) ==
  /\ call[c] = "clearing" /\ lock = Free
  /\ IF Has(key[c])
     THEN Pop(c, key[c]) /\ lock' = c /\ Moved(c, "cleared") /\ UNCHANGED client
     ELSE Lookup(c, key[c]) /\ UNCHANGED <<pool, lock, victim>>
  /\ UNCHANGED <<expired, key, connected, abandoned>>

Evicted(c) ==
  /\ call[c] = "cleared"
  /\ connected' = connected \ {victim[c]}
  /\ victim' = [victim EXCEPT ![c] = NoClient]
  /\ lock' = Free
  /\ Lookup(c, key[c])
  /\ UNCHANGED <<pool, expired, key, abandoned>>

Connect(c) ==
  /\ call[c] = "connecting"
  /\ \/ Moved(c, "waiting") /\ connected' = connected \cup {c}
     \/ Moved(c, "over") /\ connected' = connected
  /\ UNCHANGED <<pool, lru, idle, lock, expired, key, client, victim, abandoned>>

\* The double check: nobody has put a client there meanwhile
Missing(c) == ~Has(key[c])

\* Under the lock
Acquire(c) ==
  /\ call[c] = "waiting" /\ lock = Free
  /\ lock' = c
  /\ IF Missing(c)
     THEN /\ expired' = idle
          /\ Moved(c, "evicting") /\ UNCHANGED <<lru, idle, client, victim>>
     ELSE /\ Touch(key[c])
          /\ client' = [client EXCEPT ![c] = pool[key[c]]]
          /\ victim' = [victim EXCEPT ![c] = c]
          /\ Moved(c, "yielding") /\ UNCHANGED expired
  /\ UNCHANGED <<pool, key, connected, abandoned>>

Yielded(c) ==
  /\ call[c] = "yielding"
  /\ connected' = connected \ {c}
  /\ victim' = [victim EXCEPT ![c] = NoClient]
  /\ lock' = Free /\ Moved(c, "streaming")
  /\ UNCHANGED <<pool, lru, idle, expired, key, client, abandoned>>

\* Mutant: one more client than there is room for
OneOver(n) == n > MaxSize

Full(n) == n >= MaxSize

\* _evict_lru: what was expired when it began, then the oldest while it is full
EvictExpired(c, k) ==
  /\ call[c] = "evicting" /\ k \in expired
  /\ expired' = expired \ {k}
  /\ IF Has(k) THEN Pop(c, k) /\ Moved(c, "disconnecting")
               ELSE UNCHANGED <<pool, lru, idle, victim, call>>
  /\ UNCHANGED <<lock, key, client, connected, abandoned>>

EvictOldest(c, k) ==
  /\ call[c] = "evicting" /\ expired = {} /\ Full(Cardinality(Filled))
  /\ Has(k) /\ k = Head(lru)
  /\ Pop(c, k)
  /\ Moved(c, "disconnecting")
  /\ UNCHANGED <<lock, expired, key, client, connected, abandoned>>

Disconnected(c) ==
  /\ call[c] = "disconnecting"
  /\ connected' = connected \ {victim[c]}
  /\ victim' = [victim EXCEPT ![c] = NoClient]
  /\ Moved(c, "evicting")
  /\ UNCHANGED <<pool, lru, idle, lock, expired, key, client, abandoned>>

Insert(c) ==
  /\ call[c] = "evicting" /\ expired = {} /\ ~Full(Cardinality(Filled))
  /\ pool' = [pool EXCEPT ![key[c]] = c]
  /\ Touch(key[c])
  /\ client' = [client EXCEPT ![c] = c]
  /\ lock' = Free /\ Moved(c, "streaming")
  /\ UNCHANGED <<expired, key, victim, connected, abandoned>>

\* wait_for cancels get_or_create at whatever it awaits: the lock is released,
\* nobody disconnects what the call had in its hands.
Timeout(c) ==
  /\ call[c] \in {"connecting", "waiting", "yielding", "disconnecting"}
  /\ abandoned' = abandoned \cup ({c, victim[c]} \ {NoClient})
  /\ lock' = (IF lock = c THEN Free ELSE lock)
  /\ expired' = (IF lock = c THEN {} ELSE expired)
  /\ client' = [client EXCEPT ![c] = NoClient]
  /\ Moved(c, "over")
  /\ UNCHANGED <<pool, lru, idle, key, victim, connected>>

StreamEnds(c) ==
  /\ call[c] = "streaming"
  /\ Moved(c, "over")
  /\ UNCHANGED <<pool, lru, idle, lock, expired, key, client, victim, connected, abandoned>>

\* Half an hour since the last request; a stream may still use the client
GoesIdle(k) ==
  /\ Has(k)
  /\ idle' = idle \cup {k}
  /\ UNCHANGED <<pool, lru, lock, expired, call, key, client, victim, connected, abandoned>>

PoolNext ==
  \/ \E c \in Calls, k \in Keys : Request(c, k) \/ EvictExpired(c, k) \/ EvictOldest(c, k)
  \/ \E c \in Calls :
       \/ Evict(c) \/ Evicted(c) \/ Connect(c) \/ Acquire(c) \/ Yielded(c)
       \/ Disconnected(c) \/ Insert(c) \/ Timeout(c) \/ StreamEnds(c)
  \/ \E k \in Keys : GoesIdle(k)

PoolSpec == PoolInit /\ [][PoolNext]_poolVars

-----------------------------------------------------------------------------
Pooled == {pool[k] : k \in Filled}
InHand == {c \in Calls : call[c] \in {"waiting", "evicting", "disconnecting"}} \cup {victim[c] : c \in Calls}

\* The pool never has more than max_size clients, although calls come in while a
\* holder of the lock awaits a disconnect; what it has is connected, and nobody is
\* about to disconnect it.
PoolBounded ==
  /\ Cardinality(Filled) <= MaxSize
  /\ Pooled \subseteq connected
  /\ \A c \in Calls : victim[c] \notin Pooled

\* A client that is connected is in the pool or somebody will deal with it: only
\* a call that times out leaves one behind.
NoClientLeaked == connected \subseteq Pooled \cup InHand \cup abandoned

\* However lookups, connects, evictions and timeouts fall together
PoolSound == PoolBounded /\ NoClientLeaked
=============================================================================
