---------------------------- MODULE ModelProofs -----------------------------
(***************************************************************************)
(* Safety of what stands between a reply and its model, for every value of *)
(* the constants: the client pool, the tool loop, the stream of a subtask, *)
(* and the context that is sent.                                           *)
(***************************************************************************)
EXTENDS SdkClientPool, ReactLoop, Adapters, SubtaskStream, ContextManager, Induction,
        FiniteSetTheorems, FunctionTheorems, SequenceTheorems, TLAPS

-----------------------------------------------------------------------------
\* The client pool.  The invariant says what a call has in its hands at each await:
\* whoever evicts or inserts holds the lock, a client that is being disconnected left
\* the pool before, and one that is about to be inserted is connected and nobody's victim.

Places == {"new", "clearing", "cleared", "connecting", "waiting", "evicting",
           "disconnecting", "yielding", "streaming", "over"}

PoolType ==
  /\ pool \in [Keys -> Calls \cup {NoClient}]
  /\ lock \in Calls \cup {Free}
  /\ call \in [Calls -> Places]
  /\ key \in [Calls -> Keys \cup {"none"}]
  /\ client \in [Calls -> Calls \cup {NoClient}]
  /\ victim \in [Calls -> Calls \cup {NoClient}]
  /\ connected \in SUBSET Calls

\* What the place of a call says of the lock and of its key
LockInv ==
  \A c \in Calls :
    /\ call[c] \in {"cleared", "evicting", "disconnecting", "yielding"} => lock = c
    /\ call[c] \in {"clearing", "cleared", "connecting", "waiting", "evicting",
                    "disconnecting", "yielding"} => key[c] \in Keys
    /\ call[c] \in {"evicting", "disconnecting"} => pool[key[c]] = NoClient
    /\ call[c] \in {"waiting", "evicting", "disconnecting"} => c \in connected

\* A client that is being disconnected has been in use or is the call's own
VictimInv ==
  \A c \in Calls :
    /\ victim[c] # NoClient => /\ call[c] \in {"cleared", "disconnecting", "yielding", "over"}
                               /\ call[victim[c]] \in {"streaming", "yielding", "over"}
    /\ call[c] = "yielding" => victim[c] = c

\* A client of the pool
EntryInv ==
  \A k \in Keys : Has(k) =>
    /\ key[pool[k]] = k /\ call[pool[k]] \in {"streaming", "over"}
    /\ pool[k] \in connected
    /\ \A c \in Calls : victim[c] # pool[k]

RoomInv == Cardinality(Filled) <= MaxSize

PoolInv == PoolType /\ LockInv /\ VictimInv /\ EntryInv /\ NoClientLeaked /\ RoomInv

-----------------------------------------------------------------------------
\* The pool's table has a finite number of keys, before and after a step.
LEMMA FilledFinite ==
  /\ IsFiniteSet(Filled) /\ Cardinality(Filled) \in Nat
  /\ IsFiniteSet(Filled') /\ Cardinality(Filled') \in Nat
<1>1. Filled \in SUBSET Keys /\ Filled' \in SUBSET Keys
  BY DEF Filled
<1> QED
  BY <1>1, PoolAssumption, FS_Subset, FS_CardinalityType

\* A table of which nothing is added has as much room as before.
LEMMA RoomStays ==
  ASSUME RoomInv, Filled' \subseteq Filled
  PROVE  RoomInv'
<1>1. Cardinality(Filled') <= Cardinality(Filled)
  BY FilledFinite, FS_Subset
<1> QED
  BY <1>1, FilledFinite, PoolAssumption DEF RoomInv

\* The entry of a key leaves the pool: it is the victim of the call that took it out.
LEMMA PopKeeps ==
  ASSUME PoolInv, NEW c \in Calls, NEW k \in Keys, Has(k), Pop(c, k),
         call[c] \in {"clearing", "evicting"},
         IF call[c] = "clearing" THEN lock = Free /\ lock' = c /\ Moved(c, "cleared")
                                 ELSE lock' = lock /\ Moved(c, "disconnecting"),
         UNCHANGED <<key, client, connected, abandoned>>
  PROVE  PoolInv'
<1> USE PoolAssumption DEF PoolInv, Pop, Moved
<1>1. victim[c] = NoClient /\ pool[k] \in Calls /\ pool[k] # c
  BY DEF PoolType, VictimInv, EntryInv, Has
<1>2. PoolType'
  BY <1>1 DEF PoolType, Places
<1>3. LockInv'
  BY <1>1, <1>2 DEF PoolType, LockInv
<1>4. VictimInv'
  BY <1>1, <1>2 DEF PoolType, VictimInv, EntryInv, LockInv
<1>5. EntryInv'
  <2> SUFFICES ASSUME NEW j \in Keys, Has(j)'
               PROVE  /\ (key[pool[j]] = j)' /\ (call[pool[j]] \in {"streaming", "over"})'
                      /\ (pool[j] \in connected)'
                      /\ \A d \in Calls : (victim[d] # pool[j])'
    BY DEF EntryInv
  <2>1. j # k /\ pool'[j] = pool[j] /\ Has(j)
    BY DEF PoolType, Has
  <2>2. pool[j] # pool[k] /\ pool[j] # c
    BY <2>1 DEF EntryInv, Has
  <2> QED
    BY <2>1, <2>2 DEF PoolType, EntryInv, Has
<1>6. NoClientLeaked'
  <2> SUFFICES ASSUME NEW x \in connected PROVE x \in (Pooled \cup InHand \cup abandoned)'
    BY DEF NoClientLeaked
  <2>1. CASE x \in abandoned
    BY <2>1
  <2>2. CASE x = pool[k]
    BY <2>2 DEF InHand, PoolType
  <2>3. CASE x \in Pooled /\ x # pool[k]
    <3> PICK j \in Keys : Has(j) /\ x = pool[j]
      BY <2>3 DEF Pooled, Filled
    <3>1. pool'[j] = x /\ Has(j)'
      BY <2>3 DEF PoolType, Has
    <3> QED
      BY <3>1 DEF Pooled, Filled
  <2>4. CASE \E d \in Calls : x = d /\ call[d] \in {"waiting", "evicting", "disconnecting"}
    BY <2>4 DEF InHand, PoolType
  <2>5. CASE \E d \in Calls : x = victim[d] /\ victim[d] # NoClient
    BY <2>5, <1>1 DEF InHand, PoolType
  <2> QED
    BY <2>1, <2>2, <2>3, <2>4, <2>5, PoolAssumption DEF NoClientLeaked, InHand, PoolType
<1>7. RoomInv'
  <2>1. Filled' \subseteq Filled
    BY DEF Filled, Has, PoolType
  <2> QED
    BY <2>1, RoomStays
<1> QED
  BY <1>2, <1>3, <1>4, <1>5, <1>6, <1>7

\* A call that has found a client, or goes on to connect one.
LEMMA LookupKeeps ==
  ASSUME PoolInv, NEW c \in Calls, NEW k \in Keys, Lookup(c, k),
         call[c] \in {"new", "clearing", "cleared"}, key'[c] = k,
         call[c] = "new" => key' = [key EXCEPT ![c] = k] /\ lock' = lock,
         call[c] # "new" => key' = key,
         lock' \in {lock, Free}, lock' # lock => lock = c,
         victim' = [victim EXCEPT ![c] = NoClient], connected' = connected \ {victim[c]},
         UNCHANGED <<pool, abandoned>>
  PROVE  PoolInv'
<1> USE PoolAssumption DEF PoolInv, Lookup, Moved, Touch
<1>1. /\ call' \in [Calls -> Places] /\ call'[c] \in {"streaming", "connecting"}
      /\ \A d \in Calls \ {c} : call'[d] = call[d]
  BY DEF PoolType, Places
<1>2. PoolType'
  BY <1>1 DEF PoolType, Has
<1>3. \A j \in Keys : Has(j)' = Has(j) /\ (Has(j) => pool[j] # c)
  BY DEF Has, EntryInv
<1>4. LockInv'
  <2> SUFFICES ASSUME NEW d \in Calls, d # c
               PROVE  LockInv!(d)'
    BY <1>1, <1>2 DEF LockInv, PoolType
  <2>1. lock = d => lock' = d
    BY DEF PoolType
  <2>2. call[d] \in {"waiting", "evicting", "disconnecting"} => d # victim[c]
    BY DEF VictimInv, PoolType
  <2> QED
    BY <1>1, <2>1, <2>2 DEF LockInv, PoolType
<1>5. VictimInv'
  <2> SUFFICES ASSUME NEW d \in Calls, d # c, victim[d] # NoClient
               PROVE  VictimInv!(d)'
    BY <1>2 DEF VictimInv, PoolType
  <2>1. victim[d] # c
    BY DEF VictimInv
  <2> QED
    BY <1>1, <2>1 DEF VictimInv, PoolType
<1>6. EntryInv'
  BY <1>1, <1>3 DEF EntryInv, PoolType, Has
<1>7. NoClientLeaked'
  <2> SUFFICES ASSUME NEW x \in connected, x # victim[c]
               PROVE  x \in (Pooled \cup InHand \cup abandoned)'
    BY DEF NoClientLeaked
  <2>1. Pooled' = Pooled
    BY DEF Pooled, Filled, Has
  <2>2. InHand \ {victim[c]} \subseteq InHand'
    BY <1>1 DEF InHand, PoolType
  <2> QED
    BY <2>1, <2>2 DEF NoClientLeaked
<1>8. RoomInv'
  BY DEF RoomInv, Filled, Has
<1> QED
  BY <1>2, <1>4, <1>5, <1>6, <1>7, <1>8

\* A step that leaves the pool's table alone, and connected but for clients that no
\* pool and no call before its insertion holds.
LEMMA EntriesKept ==
  ASSUME PoolInv, PoolType', UNCHANGED <<pool, key>>,
         \A k \in Keys : Has(k) => /\ call'[pool[k]] \in {"streaming", "over"}
                                  /\ pool[k] \in connected'
                                  /\ \A d \in Calls : victim'[d] # pool[k]
  PROVE  EntryInv' /\ RoomInv' /\ Pooled' = Pooled
BY DEF PoolInv, EntryInv, RoomInv, Pooled, Filled, Has

\* A call asks for a client of its own, or connects one.
LEMMA ConnectKeeps ==
  ASSUME PoolInv, NEW c \in Calls, Connect(c)
  PROVE  PoolInv'
<1> USE PoolAssumption DEF PoolInv, Connect, Moved
<1>1. PoolType'
  BY DEF PoolType, Places
<1>2. \A k \in Keys : Has(k) => pool[k] # c
  BY DEF EntryInv
<1>3. EntryInv' /\ RoomInv' /\ Pooled' = Pooled
  BY <1>1, <1>2, EntriesKept DEF PoolType, EntryInv
<1>4. LockInv'
  BY <1>1 DEF PoolType, LockInv
<1>5. VictimInv'
  BY <1>1 DEF PoolType, VictimInv
<1>6. NoClientLeaked'
  <2>1. InHand \subseteq InHand'
    BY DEF InHand, PoolType
  <2>2. connected' \subseteq connected \cup InHand'
    BY DEF InHand, PoolType
  <2> QED
    BY <1>3, <2>1, <2>2 DEF NoClientLeaked
<1> QED
  BY <1>1, <1>3, <1>4, <1>5, <1>6

\* The double check under the lock: a call goes on to make room, or disconnects the
\* client it has connected in vain.
LEMMA AcquireKeeps ==
  ASSUME PoolInv, NEW c \in Calls, Acquire(c)
  PROVE  PoolInv'
<1> USE PoolAssumption DEF PoolInv, Acquire, Moved, Touch, Missing
<1>0. key[c] \in Keys /\ c \in connected /\ victim[c] = NoClient
  BY DEF LockInv, VictimInv
<1>1. PoolType'
  BY <1>0 DEF PoolType, Places
<1>2. \A k \in Keys : Has(k) => pool[k] # c
  BY DEF EntryInv
<1>3. EntryInv' /\ RoomInv' /\ Pooled' = Pooled
  BY <1>1, <1>2, EntriesKept DEF PoolType, EntryInv
<1>4. LockInv'
  BY <1>0, <1>1 DEF PoolType, LockInv, Has
<1>5. VictimInv'
  BY <1>0, <1>1 DEF PoolType, VictimInv
<1>6. NoClientLeaked'
  <2>1. InHand \ {NoClient} \subseteq InHand'
    BY <1>0 DEF InHand, PoolType
  <2> QED
    BY <1>1, <1>3, <2>1 DEF NoClientLeaked, PoolType
<1> QED
  BY <1>1, <1>3, <1>4, <1>5, <1>6

\* The disconnect is over: of a call's own client, or of one it has taken out.
LEMMA DisconnectKeeps ==
  ASSUME PoolInv, NEW c \in Calls, Yielded(c) \/ Disconnected(c)
  PROVE  PoolInv'
<1> USE PoolAssumption DEF PoolInv, Yielded, Disconnected, Moved
<1>1. PoolType'
  BY DEF PoolType, Places
<1>2. \A k \in Keys : Has(k) => pool[k] # c
  BY DEF EntryInv
<1>3. EntryInv' /\ RoomInv' /\ Pooled' = Pooled
  BY <1>1, <1>2, EntriesKept DEF PoolType, EntryInv, Has
<1>4. LockInv'
  BY <1>1 DEF PoolType, LockInv, VictimInv
<1>5. VictimInv'
  BY <1>1 DEF PoolType, VictimInv
<1>6. NoClientLeaked'
  <2>1. connected' = connected \ {victim[c]}
    BY DEF VictimInv
  <2>2. InHand \ {victim[c]} \subseteq InHand'
    BY DEF InHand, PoolType, VictimInv
  <2> QED
    BY <1>3, <2>1, <2>2 DEF NoClientLeaked
<1> QED
  BY <1>1, <1>3, <1>4, <1>5, <1>6

\* There is room: the call's client enters the pool, which had none for the key.
LEMMA InsertKeeps ==
  ASSUME PoolInv, NEW c \in Calls, Insert(c)
  PROVE  PoolInv'
<1> USE PoolAssumption DEF PoolInv, Insert, Moved, Touch
<1>0. /\ key[c] \in Keys /\ c \in connected /\ lock = c /\ victim[c] = NoClient
      /\ pool[key[c]] = NoClient /\ \A d \in Calls : victim[d] # c
  BY DEF LockInv, VictimInv
<1>1. PoolType'
  BY <1>0 DEF PoolType, Places
<1>2. \A k \in Keys : (Has(k) => pool[k] # c) /\ (k # key[c] => pool'[k] = pool[k])
  BY DEF EntryInv, PoolType
<1>3. Filled' = Filled \cup {key[c]} /\ key[c] \notin Filled
  BY <1>0, <1>2 DEF Filled, Has, PoolType
<1>4. EntryInv'
  BY <1>0, <1>1, <1>2 DEF EntryInv, PoolType, Has
<1>5. LockInv'
  <2> SUFFICES ASSUME NEW d \in Calls, d # c
               PROVE  LockInv!(d)'
    BY <1>1 DEF LockInv, PoolType
  <2> QED
    BY <1>0 DEF LockInv, PoolType
<1>6. VictimInv'
  BY <1>0, <1>1 DEF PoolType, VictimInv
<1>7. NoClientLeaked'
  <2>1. c \in Pooled'
    BY <1>0, <1>3 DEF Pooled, PoolType
  <2>2. Pooled \subseteq Pooled'
    BY <1>0, <1>2, <1>3 DEF Pooled, Filled, Has
  <2>3. InHand \ {c} \subseteq InHand'
    BY DEF InHand, PoolType
  <2> QED
    BY <2>1, <2>2, <2>3 DEF NoClientLeaked
<1>8. RoomInv'
  <2>1. Cardinality(Filled) < MaxSize
    BY FilledFinite DEF Full, RoomInv
  <2>2. Cardinality(Filled') = Cardinality(Filled) + 1
    BY <1>3, FilledFinite, FS_AddElement
  <2> QED
    BY <2>1, <2>2, FilledFinite DEF RoomInv
<1> QED
  BY <1>1, <1>4, <1>5, <1>6, <1>7, <1>8

\* A call ends, at the end of its stream or at the await it was cancelled at.
LEMMA EndKeeps ==
  ASSUME PoolInv, NEW c \in Calls, Timeout(c) \/ StreamEnds(c)
  PROVE  PoolInv'
<1> USE PoolAssumption DEF PoolInv, Timeout, StreamEnds, Moved
<1>1. PoolType'
  BY DEF PoolType, Places
<1>2. \A k \in Keys : Has(k) => call'[pool[k]] \in {"streaming", "over"}
  BY DEF PoolType, EntryInv
<1>3. EntryInv' /\ RoomInv' /\ Pooled' = Pooled
  BY <1>1, <1>2, EntriesKept DEF EntryInv
<1>4. LockInv'
  <2> SUFFICES ASSUME NEW d \in Calls, d # c
               PROVE  LockInv!(d)'
    BY <1>1 DEF LockInv, PoolType
  <2> QED
    BY DEF LockInv, PoolType
<1>5. VictimInv'
  BY <1>1 DEF PoolType, VictimInv
<1>6. NoClientLeaked'
  <2>1. InHand \subseteq InHand' \cup abandoned'
    BY DEF InHand, PoolType
  <2>2. abandoned \subseteq abandoned'
    OBVIOUS
  <2> QED
    BY <1>3, <2>1, <2>2 DEF NoClientLeaked
<1> QED
  BY <1>1, <1>3, <1>4, <1>5, <1>6

\* A call begins by finding a client, or by clearing its entry first.
LEMMA RequestKeeps ==
  ASSUME PoolInv, NEW c \in Calls, NEW k \in Keys, Request(c, k)
  PROVE  PoolInv'
<1> USE PoolAssumption DEF PoolInv, Request, Moved
<1>0. call[c] = "new" /\ victim[c] = NoClient /\ key'[c] = k
  BY DEF VictimInv, PoolType
<1>1. CASE Lookup(c, k)
  <2>1. victim' = [victim EXCEPT ![c] = NoClient] /\ connected' = connected \ {victim[c]}
    BY <1>0 DEF PoolType
  <2> QED
    BY <1>0, <1>1, <2>1, LookupKeeps
<1>2. CASE Moved(c, "clearing") /\ UNCHANGED <<lru, idle, client>>
  <2>1. PoolType'
    BY <1>2 DEF PoolType, Places
  <2>2. LockInv' /\ VictimInv'
    BY <1>0, <1>2, <2>1 DEF LockInv, VictimInv, PoolType
  <2>3. EntryInv'
    BY <1>0, <1>2, <2>1 DEF EntryInv, PoolType, Has
  <2>4. Pooled' = Pooled /\ InHand' = InHand /\ RoomInv'
    BY <1>0, <1>2 DEF Pooled, Filled, Has, InHand, PoolType, RoomInv
  <2> QED
    BY <2>1, <2>2, <2>3, <2>4 DEF NoClientLeaked
<1> QED
  BY <1>1, <1>2 DEF Request

\* A call clears its entry under the lock before it looks the client up.
LEMMA EvictKeeps ==
  ASSUME PoolInv, NEW c \in Calls, Evict(c) \/ Evicted(c)
  PROVE  PoolInv'
<1>0. key[c] \in Keys
  BY DEF PoolInv, LockInv, Evict, Evicted
<1>1. CASE Evict(c) /\ Has(key[c])
  BY <1>0, <1>1, PopKeeps DEF Evict
<1>2. CASE Evict(c) /\ ~Has(key[c])
  <2>1. victim[c] = NoClient /\ call[c] = "clearing"
    BY <1>2 DEF PoolInv, VictimInv, Evict
  <2>2. victim' = [victim EXCEPT ![c] = NoClient] /\ connected' = connected \ {victim[c]}
    BY <1>2, <2>1, PoolAssumption DEF PoolInv, PoolType, Evict
  <2> QED
    BY <1>0, <1>2, <2>1, <2>2, LookupKeeps DEF Evict
<1>3. CASE Evicted(c)
  <2>1. lock = c /\ lock' = Free /\ call[c] = "cleared"
    BY <1>3 DEF PoolInv, LockInv, Evicted
  <2> QED
    BY <1>0, <1>3, <2>1, LookupKeeps DEF Evicted
<1> QED
  BY <1>1, <1>2, <1>3

\* Before an insertion, room is made.
LEMMA MakeRoomKeeps ==
  ASSUME PoolInv, NEW c \in Calls, NEW k \in Keys, EvictExpired(c, k) \/ EvictOldest(c, k)
  PROVE  PoolInv'
<1>1. CASE EvictExpired(c, k) /\ Has(k)
  BY <1>1, PopKeeps DEF EvictExpired
<1>2. CASE EvictExpired(c, k) /\ ~Has(k)
  BY <1>2 DEF EvictExpired, PoolInv, PoolType, LockInv, VictimInv, EntryInv, RoomInv,
              NoClientLeaked, Pooled, Filled, Has, InHand
<1>3. CASE EvictOldest(c, k)
  BY <1>3, PopKeeps DEF EvictOldest
<1> QED
  BY <1>1, <1>2, <1>3

-----------------------------------------------------------------------------
\* The invariant holds in every reachable state.
THEOREM PoolInvariance == PoolSpec => []PoolInv
<1>1. PoolInit => PoolInv
  <2> SUFFICES ASSUME PoolInit PROVE PoolInv
    OBVIOUS
  <2>1. Filled = {} /\ Cardinality({}) = 0
    BY FS_EmptySet DEF PoolInit, Filled, Has
  <2>2. RoomInv
    BY <2>1, PoolAssumption DEF RoomInv
  <2> QED
    BY <2>1, <2>2, PoolAssumption
    DEF PoolInit, PoolInv, PoolType, Places, LockInv, VictimInv, EntryInv, NoClientLeaked, Has
<1>2. PoolInv /\ [PoolNext]_poolVars => PoolInv'
  <2> SUFFICES ASSUME PoolInv, [PoolNext]_poolVars PROVE PoolInv'
    OBVIOUS
  <2>1. ASSUME NEW k \in Keys, GoesIdle(k) PROVE PoolInv'
    BY <2>1 DEF GoesIdle, PoolInv, PoolType, LockInv, VictimInv, EntryInv, RoomInv,
                NoClientLeaked, Pooled, Filled, Has, InHand
  <2>2. CASE UNCHANGED poolVars
    BY <2>2 DEF poolVars, PoolInv, PoolType, LockInv, VictimInv, EntryInv, RoomInv,
                NoClientLeaked, Pooled, Filled, Has, InHand
  <2> QED
    BY <2>1, <2>2, RequestKeeps, EvictKeeps, ConnectKeeps, AcquireKeeps, DisconnectKeeps,
       MakeRoomKeeps, InsertKeeps, EndKeeps DEF PoolNext
<1> QED
  BY <1>1, <1>2, PTL DEF PoolSpec

\* The pool stays within max_size, holds connected clients nobody disconnects, and no
\* client is forgotten but by a timeout (sdk_client_pool.py), however many calls race.
THEOREM PoolIsSound == PoolSpec => []PoolSound
<1>1. PoolInv => PoolSound
  BY DEF PoolInv, PoolSound, PoolBounded, EntryInv, RoomInv, Pooled, Filled
<1> QED
  BY <1>1, PoolInvariance, PTL

-----------------------------------------------------------------------------
\* The tool loop.  The invariant ties the history to the calls of the step: an announced
\* call is answered by what follows, at once or, while the results are collected, as far
\* as they are; what is yielded of a call begins, observes and finishes it in that order.

ReactPhases == {"new", "next", "stream", "tools", "results", "over", "closed"}
Roles == {"user", "assistant", "tool", "system"}
Whats == {"text", "tool_call", "warning", "error", "running", "observation", "finished", "done"}
AnyChunk == [what : Whats, call : Nat \X Nat]
Told == [role : Roles, of : SUBSET (Nat \X Nat)]

ReactType ==
  /\ way \in Ways /\ react_step \in Nat /\ react_phase \in ReactPhases
  /\ step_tool_calls \in Seq(ToolNames) /\ observed \in Nat
  /\ messages \in Seq(Told) /\ yielded \in Seq(AnyChunk)

\* Message k announces the calls of this step, and what follows it are the first results
Pending(k) ==
  /\ messages[k].of = CallIds(valid_calls) /\ Len(messages) = k + observed
  /\ \A i \in 1..observed : messages[k + i] = [role |-> "tool", of |-> {<<react_step, i>>}]

\* Message k announces calls that are all answered by what follows it
Answered(k) ==
  LET answers == (k + 1)..(k + Cardinality(messages[k].of)) IN
    /\ answers \subseteq Tells("tool")
    /\ messages[k].of = UNION {messages[j].of : j \in answers}

HistoryInv ==
  /\ react_phase = "new" \/ way # "openai" => Tells("assistant") = {}
  /\ react_phase # "closed" =>
       \A k \in Tells("assistant") : Answered(k) \/ (react_phase = "results" /\ Pending(k))

Remaining == {<<react_step, i>> : i \in (observed + 1)..valid_calls}

RunningInv ==
  /\ react_phase \in {"new", "stream", "next", "over"} => CallsOf("running") = CallsOf("finished")
  /\ react_phase \in {"stream", "tools"} => observed = 0
  /\ react_phase \in {"tools", "results"} =>
       observed <= valid_calls /\ CallsOf("running") = CallsOf("finished") \cup Remaining

FinishedInv ==
  /\ \A k \in Yields("finished") : \/ yielded[k].call[1] < react_step
                                   \/ yielded[k].call[1] = react_step /\ yielded[k].call[2] <= observed
  /\ \A j, k \in Yields("finished") : yielded[j].call = yielded[k].call => j = k

DoneInv == Yields("done") = IF react_phase = "over" THEN {Len(yielded)} ELSE {}

ReactInv == ReactType /\ HistoryInv /\ RunningInv /\ FinishedInv /\ DoneInv

-----------------------------------------------------------------------------
(* The chunks and the messages *)

LEMMA NamedCount == ASSUME NEW calls \in Seq(ToolNames) PROVE Named(calls) \in Nat
<1>1. Len(calls) \in Nat
  BY LenProperties
<1>2. IsFiniteSet(1..Len(calls))
  BY <1>1, FS_Interval
<1>3. IsFiniteSet({i \in 1..Len(calls) : calls[i] # ""})
  BY <1>2, FS_Subset
<1> QED BY <1>3, FS_CardinalityType DEF Named

\* What more chunks add to those of a kind
LEMMA Extended ==
  ASSUME yielded \in Seq(AnyChunk), NEW cs \in Seq(AnyChunk), yielded' = yielded \o cs
  PROVE  /\ yielded' \in Seq(AnyChunk) /\ Len(yielded) \in Nat /\ Len(yielded') = Len(yielded) + Len(cs)
         /\ DOMAIN yielded = 1..Len(yielded) /\ DOMAIN yielded' = 1..Len(yielded')
         /\ \A i \in 1..Len(yielded) : yielded'[i] = yielded[i]
         /\ \A i \in 1..Len(cs) : yielded'[Len(yielded) + i] = cs[i]
         /\ \A w : Yields(w)' = Yields(w) \cup {j \in (Len(yielded) + 1)..Len(yielded') : yielded'[j].what = w}
         /\ \A w : CallsOf(w)' = CallsOf(w) \cup {cs[i].call : i \in {i \in 1..Len(cs) : cs[i].what = w}}
<1>1. /\ yielded' \in Seq(AnyChunk) /\ Len(yielded') = Len(yielded) + Len(cs) /\ Len(yielded) \in Nat /\ Len(cs) \in Nat
      /\ \A i \in 1..Len(yielded) + Len(cs) : yielded'[i] = IF i <= Len(yielded) THEN yielded[i] ELSE cs[i - Len(yielded)]
  BY ConcatProperties, LenProperties
<1>2. DOMAIN yielded = 1..Len(yielded) /\ DOMAIN yielded' = 1..Len(yielded')
  BY <1>1, LenProperties
<1>3. (\A i \in 1..Len(yielded) : yielded'[i] = yielded[i]) /\ \A i \in 1..Len(cs) : yielded'[Len(yielded) + i] = cs[i]
  BY <1>1
<1>4. ASSUME NEW w
      PROVE  Yields(w)' = Yields(w) \cup {j \in (Len(yielded) + 1)..Len(yielded') : yielded'[j].what = w}
  BY <1>1, <1>2, <1>3 DEF Yields
<1>5. ASSUME NEW w
      PROVE  CallsOf(w)' = CallsOf(w) \cup {cs[i].call : i \in {i \in 1..Len(cs) : cs[i].what = w}}
  <2>1. ASSUME NEW x \in CallsOf(w)' PROVE x \in CallsOf(w) \cup {cs[i].call : i \in {i \in 1..Len(cs) : cs[i].what = w}}
    <3>1. PICK k \in Yields(w)' : x = yielded'[k].call
      BY <2>1 DEF CallsOf
    <3>2. CASE k \in Yields(w)
      BY <3>1, <3>2, <1>3, <1>2 DEF CallsOf, Yields
    <3>3. CASE k \in (Len(yielded) + 1)..Len(yielded') /\ yielded'[k].what = w
      <4>1. k - Len(yielded) \in 1..Len(cs) /\ yielded'[k] = cs[k - Len(yielded)]
        BY <3>3, <1>1, <1>3
      <4> QED BY <3>1, <3>3, <4>1
    <3> QED BY <3>1, <3>2, <3>3, <1>4
  <2>2. ASSUME NEW x \in CallsOf(w) PROVE x \in CallsOf(w)'
    <3>1. PICK k \in Yields(w) : x = yielded[k].call
      BY <2>2 DEF CallsOf
    <3> QED BY <3>1, <1>1, <1>2, <1>3 DEF CallsOf, Yields
  <2>3. ASSUME NEW i \in 1..Len(cs), cs[i].what = w PROVE cs[i].call \in CallsOf(w)'
    <3>1. Len(yielded) + i \in Yields(w)'
      BY <2>3, <1>1, <1>2, <1>3 DEF Yields
    <3> QED BY <3>1, <1>3 DEF CallsOf
  <2> QED BY <2>1, <2>2, <2>3
<1> QED BY <1>1, <1>2, <1>3, <1>4, <1>5

\* One more chunk
LEMMA OneMore ==
  ASSUME yielded \in Seq(AnyChunk), NEW c \in AnyChunk, Yield(c)
  PROVE  /\ yielded' \in Seq(AnyChunk) /\ Len(yielded) \in Nat /\ Len(yielded') = Len(yielded) + 1
         /\ yielded'[Len(yielded) + 1] = c
         /\ DOMAIN yielded = 1..Len(yielded) /\ DOMAIN yielded' = 1..Len(yielded')
         /\ \A i \in 1..Len(yielded) : yielded'[i] = yielded[i]
         /\ \A w : Yields(w)' = Yields(w) \cup IF c.what = w THEN {Len(yielded) + 1} ELSE {}
         /\ \A w : CallsOf(w)' = CallsOf(w) \cup IF c.what = w THEN {c.call} ELSE {}
<1>1. <<c>> \in Seq(AnyChunk) /\ Len(<<c>>) = 1 /\ <<c>>[1] = c
  OBVIOUS
<1>2. yielded' = yielded \o <<c>>
  BY AppendIsConcat DEF Yield
<1> DEFINE cs == <<c>>
<1>3. cs \in Seq(AnyChunk) /\ Len(cs) = 1 /\ cs[1] = c /\ yielded' = yielded \o cs
  BY <1>1, <1>2
<1> HIDE DEF cs
<1>4. /\ yielded' \in Seq(AnyChunk) /\ Len(yielded) \in Nat /\ Len(yielded') = Len(yielded) + Len(cs)
      /\ DOMAIN yielded = 1..Len(yielded) /\ DOMAIN yielded' = 1..Len(yielded')
      /\ \A i \in 1..Len(yielded) : yielded'[i] = yielded[i]
      /\ \A i \in 1..Len(cs) : yielded'[Len(yielded) + i] = cs[i]
      /\ \A w : Yields(w)' = Yields(w) \cup {j \in (Len(yielded) + 1)..Len(yielded') : yielded'[j].what = w}
      /\ \A w : CallsOf(w)' = CallsOf(w) \cup {cs[i].call : i \in {i \in 1..Len(cs) : cs[i].what = w}}
  BY <1>3, Extended
<1>5. \A w : Yields(w)' = Yields(w) \cup IF c.what = w THEN {Len(yielded) + 1} ELSE {}
  <2>1. \A j : j \in (Len(yielded) + 1)..Len(yielded') <=> j = Len(yielded) + 1
    BY <1>3, <1>4
  <2>2. yielded'[Len(yielded) + 1] = c
    BY <1>3, <1>4
  <2> QED BY <2>1, <2>2, <1>4
<1>6. \A w : CallsOf(w)' = CallsOf(w) \cup IF c.what = w THEN {c.call} ELSE {}
  <2>1. \A i : i \in 1..Len(cs) <=> i = 1
    BY <1>3
  <2> QED BY <2>1, <1>3, <1>4
<1> QED BY <1>3, <1>4, <1>5, <1>6

LEMMA OfTwo ==
  ASSUME NEW S, NEW a \in S, NEW b \in S
  PROVE  Append(<<a>>, b) \in Seq(S) /\ Len(Append(<<a>>, b)) = 2 /\ Append(<<a>>, b)[1] = a /\ Append(<<a>>, b)[2] = b
<1>1. <<a>> \in Seq(S) /\ Len(<<a>>) = 1 /\ <<a>>[1] = a
  OBVIOUS
<1> QED BY <1>1, AppendProperties

\* The last chunks: whatever is said before it, done is the last, and no call is among them
LEMMA LastChunks ==
  ASSUME yielded \in Seq(AnyChunk), Yields("done") = {}, NEW cs,
         cs = <<>> \/ \E w \in {"text", "warning", "error"} : cs = <<StreamChunk(w)>>, Finish(cs)
  PROVE  /\ yielded' \in Seq(AnyChunk) /\ Yields("done")' = {Len(yielded')}
         /\ \A i \in DOMAIN yielded : i \in DOMAIN yielded' /\ yielded'[i] = yielded[i]
         /\ Yields("finished")' = Yields("finished")
         /\ CallsOf("running")' = CallsOf("running") /\ CallsOf("finished")' = CallsOf("finished")
<1> DEFINE all == Append(cs, StreamChunk("done"))
<1>1. \A w \in Whats : StreamChunk(w) \in AnyChunk /\ StreamChunk(w).what = w
  BY DEF StreamChunk, AnyChunk, NoCall
<1> DEFINE EndsDone(n) == /\ all \in Seq(AnyChunk) /\ Len(all) = n + 1 /\ all[n + 1] = StreamChunk("done")
                          /\ n = 1 => all[1].what \in {"text", "warning", "error"}
<1>2. PICK n \in {0, 1} : EndsDone(n)
  <2>1. CASE cs = <<>>
    <3>1. cs \in Seq(AnyChunk) /\ Len(cs) = 0
      BY <2>1, EmptySeq
    <3> QED BY <3>1, <1>1, AppendProperties DEF Whats
  <2>2. ASSUME NEW w \in {"text", "warning", "error"}, cs = <<StreamChunk(w)>> PROVE EndsDone(1)
    <3>1. StreamChunk(w) \in AnyChunk /\ StreamChunk(w).what = w
      BY <1>1 DEF Whats
    <3>2. cs \in Seq(AnyChunk) /\ Len(cs) = 1 /\ cs[1] = StreamChunk(w)
      BY <2>2, <3>1
    <3>3. all \in Seq(AnyChunk) /\ Len(all) = 2 /\ all[2] = StreamChunk("done") /\ all[1] = cs[1]
      <4>1. StreamChunk("done") \in AnyChunk
        BY <1>1 DEF Whats
      <4> QED BY <2>2, <3>1, <4>1, OfTwo
    <3> QED BY <3>1, <3>2, <3>3
  <2> QED BY <2>1, <2>2
<1>3. yielded' = yielded \o all
  BY DEF Finish
<1> HIDE DEF all
<1>4. /\ yielded' \in Seq(AnyChunk) /\ Len(yielded) \in Nat /\ Len(yielded') = Len(yielded) + Len(all)
      /\ DOMAIN yielded = 1..Len(yielded) /\ DOMAIN yielded' = 1..Len(yielded')
      /\ \A i \in 1..Len(yielded) : yielded'[i] = yielded[i]
      /\ \A i \in 1..Len(all) : yielded'[Len(yielded) + i] = all[i]
      /\ \A w : Yields(w)' = Yields(w) \cup {j \in (Len(yielded) + 1)..Len(yielded') : yielded'[j].what = w}
      /\ \A w : CallsOf(w)' = CallsOf(w) \cup {all[i].call : i \in {i \in 1..Len(all) : all[i].what = w}}
  BY <1>2, <1>3, Extended
<1>5. /\ \A i \in 1..Len(all) : all[i].what \notin {"running", "finished"}
      /\ \A i \in 1..Len(all) : all[i].what = "done" <=> i = Len(all)
  BY <1>1, <1>2 DEF Whats
<1>6. \A j \in (Len(yielded) + 1)..Len(yielded') : j - Len(yielded) \in 1..Len(all) /\ yielded'[j] = all[j - Len(yielded)]
  BY <1>2, <1>4
<1>7. Yields("done")' = {Len(yielded')}
  BY <1>2, <1>4, <1>5, <1>6
<1>8. Yields("finished")' = Yields("finished")
  <2>1. {j \in (Len(yielded) + 1)..Len(yielded') : yielded'[j].what = "finished"} = {}
    BY <1>5, <1>6
  <2> QED BY <2>1, <1>4
<1>9. CallsOf("running")' = CallsOf("running") /\ CallsOf("finished")' = CallsOf("finished")
  BY <1>4, <1>5
<1> QED BY <1>4, <1>7, <1>8, <1>9

\* One more message: what is answered stays so
LEMMA OneToldMore ==
  ASSUME messages \in Seq(Told), NEW m \in Told, messages' = Append(messages, m)
  PROVE  /\ messages' \in Seq(Told) /\ Len(messages) \in Nat /\ Len(messages') = Len(messages) + 1
         /\ DOMAIN messages = 1..Len(messages) /\ DOMAIN messages' = 1..Len(messages')
         /\ \A k \in 1..Len(messages) : messages'[k] = messages[k]
         /\ messages'[Len(messages')] = m
         /\ \A r : Tells(r)' = Tells(r) \cup IF m.role = r THEN {Len(messages) + 1} ELSE {}
         /\ \A k \in DOMAIN messages : Answered(k) => Answered(k)'
<1>1. /\ messages' \in Seq(Told) /\ Len(messages) \in Nat /\ Len(messages') = Len(messages) + 1
      /\ DOMAIN messages = 1..Len(messages) /\ DOMAIN messages' = 1..Len(messages')
      /\ \A k \in 1..Len(messages) : messages'[k] = messages[k]
      /\ messages'[Len(messages')] = m
  BY AppendProperties, LenProperties
<1>2. \A r : Tells(r)' = Tells(r) \cup IF m.role = r THEN {Len(messages) + 1} ELSE {}
  BY <1>1 DEF Tells
<1>3. ASSUME NEW k \in DOMAIN messages, Answered(k) PROVE Answered(k)'
  <2> DEFINE answers == (k + 1)..(k + Cardinality(messages[k].of))
  <2>1. answers \subseteq Tells("tool") /\ messages[k].of = UNION {messages[j].of : j \in answers}
    BY <1>3 DEF Answered
  <2>2. answers \subseteq DOMAIN messages
    BY <2>1 DEF Tells
  <2>3. messages'[k] = messages[k] /\ answers \subseteq Tells("tool")'
    BY <2>1, <1>1, <1>2
  <2>4. UNION {messages'[j].of : j \in answers} = UNION {messages[j].of : j \in answers}
    BY <2>2, <1>1
  <2> QED BY <2>1, <2>3, <2>4 DEF Answered
<1> QED BY <1>1, <1>2, <1>3

-----------------------------------------------------------------------------
(* The steps *)

LEMMA ReactStarts == ReactInit => ReactInv
<1> SUFFICES ASSUME ReactInit PROVE ReactInv
  OBVIOUS
<1>1. messages = <<[role |-> "user", of |-> {}]>> /\ yielded = <<>> /\ step_tool_calls = <<>> /\ react_phase = "new"
  BY DEF ReactInit
<1>2. yielded \in Seq(AnyChunk) /\ step_tool_calls \in Seq(ToolNames)
  BY <1>1, EmptySeq
<1>3. messages \in Seq(Told) /\ DOMAIN messages = {1} /\ messages[1].role = "user"
  <2>1. [role |-> "user", of |-> {}] \in Told
    BY DEF Told, Roles
  <2> QED BY <1>1, <2>1
<1>4. ReactType
  BY <1>2, <1>3 DEF ReactType, ReactInit, Ways, ReactPhases
<1>5. HistoryInv
  BY <1>3 DEF HistoryInv, Tells
<1>6. RunningInv /\ FinishedInv /\ DoneInv
  BY <1>1 DEF RunningInv, FinishedInv, DoneInv, CallsOf, Yields
<1> QED BY <1>4, <1>5, <1>6 DEF ReactInv

LEMMA AskKeeps == ASSUME ReactInv, AskModel PROVE ReactInv'
<1> USE DEF ReactInv
<1>1. react_phase \in {"new", "next"} /\ messages' = messages /\ way' \in Ways
      /\ (react_phase = "next" => way' = way)
  BY DEF AskModel, ReactType, Ways
<1>2. Yields("done") = {} /\ CallsOf("running") = CallsOf("finished")
  BY <1>1 DEF DoneInv, RunningInv
<1>3. CASE react_step < MaxSteps
  <2>1. react_step' = react_step + 1 /\ react_phase' = "stream" /\ step_tool_calls' = <<>> /\ observed' = 0 /\ yielded' = yielded
    BY <1>3 DEF AskModel
  <2>2. ReactType'
    BY <1>1, <2>1, EmptySeq DEF ReactType, ReactPhases
  <2>3. HistoryInv'
    BY <1>1, <2>1 DEF HistoryInv, Answered, Tells
  <2>4. RunningInv' /\ DoneInv'
    <3>1. \A w : Yields(w)' = Yields(w) /\ CallsOf(w)' = CallsOf(w)
      BY <2>1 DEF CallsOf, Yields
    <3> QED BY <1>2, <2>1, <3>1 DEF RunningInv, DoneInv
  <2>5. FinishedInv'
    <3>1. \A k \in Yields("finished") : yielded[k].call \in Nat \X Nat
      <4>1. ASSUME NEW k \in Yields("finished") PROVE yielded[k] \in AnyChunk
        BY <4>1, ElementOfSeq, LenProperties DEF ReactType, Yields
      <4> QED BY <4>1 DEF AnyChunk
    <3> QED BY <2>1, <3>1 DEF FinishedInv, Yields, ReactType
  <2> QED BY <2>2, <2>3, <2>4, <2>5
<1>4. CASE ~(react_step < MaxSteps)
  <2>1. Finish(<<StreamChunk("warning")>>) /\ react_phase' = "over" /\ UNCHANGED <<react_step, step_tool_calls, observed>>
    BY <1>4 DEF AskModel, Finish
  <2>2. /\ yielded' \in Seq(AnyChunk) /\ Yields("done")' = {Len(yielded')}
        /\ \A i \in DOMAIN yielded : i \in DOMAIN yielded' /\ yielded'[i] = yielded[i]
        /\ Yields("finished")' = Yields("finished")
        /\ CallsOf("running")' = CallsOf("running") /\ CallsOf("finished")' = CallsOf("finished")
    BY <2>1, <1>2, LastChunks DEF ReactType
  <2>3. ReactType'
    BY <1>1, <2>1, <2>2 DEF ReactType, ReactPhases
  <2>4. HistoryInv'
    BY <1>1, <2>1 DEF HistoryInv, Answered, Tells
  <2>5. RunningInv' /\ DoneInv'
    BY <1>2, <2>1, <2>2 DEF RunningInv, DoneInv
  <2>6. FinishedInv'
    BY <2>1, <2>2 DEF FinishedInv, Yields
  <2> QED BY <2>3, <2>4, <2>5, <2>6
<1> QED BY <1>3, <1>4

\* The answer: a chunk of it at a time, or the end of it
LEMMA StreamKeeps == ASSUME ReactInv, ModelText \/ (\E n \in ToolNames : ModelCall(n)) PROVE ReactInv'
<1> USE DEF ReactInv
<1> DEFINE Does == /\ react_phase = "stream" /\ UNCHANGED <<way, react_step, react_phase, observed, succeeded, messages>>
                   /\ yielded' = yielded \/ \E w \in {"text", "tool_call"} : Yield(StreamChunk(w))
                   /\ step_tool_calls' \in Seq(ToolNames)
           Quiet == /\ yielded' \in Seq(AnyChunk)
                    /\ \A i \in DOMAIN yielded : i \in DOMAIN yielded' /\ yielded'[i] = yielded[i]
                    /\ \A w \in {"running", "finished", "done"} : Yields(w)' = Yields(w) /\ CallsOf(w)' = CallsOf(w)
<1>1. Does
  <2>1. CASE ModelText
    BY <2>1 DEF ModelText, ReactType
  <2>2. ASSUME NEW n \in ToolNames, ModelCall(n) PROVE Does
    BY <2>2, AppendProperties DEF ModelCall, ReactType
  <2> QED BY <2>1, <2>2
<1>2. Quiet
  <2>1. CASE yielded' = yielded
    BY <2>1 DEF Yields, CallsOf, ReactType
  <2>2. ASSUME NEW w \in {"text", "tool_call"}, Yield(StreamChunk(w)) PROVE Quiet
    <3>1. StreamChunk(w) \in AnyChunk /\ StreamChunk(w).what = w
      BY DEF StreamChunk, AnyChunk, NoCall, Whats
    <3>2. \A v \in {"running", "finished", "done"} : StreamChunk(w).what # v
      BY <3>1
    <3>3. /\ yielded' \in Seq(AnyChunk) /\ Len(yielded) \in Nat /\ Len(yielded') = Len(yielded) + 1
          /\ DOMAIN yielded = 1..Len(yielded) /\ DOMAIN yielded' = 1..Len(yielded')
          /\ \A i \in 1..Len(yielded) : yielded'[i] = yielded[i]
          /\ \A v : Yields(v)' = Yields(v) \cup IF StreamChunk(w).what = v THEN {Len(yielded) + 1} ELSE {}
          /\ \A v : CallsOf(v)' = CallsOf(v) \cup IF StreamChunk(w).what = v THEN {StreamChunk(w).call} ELSE {}
      BY <2>2, <3>1, OneMore DEF ReactType
    <3>4. \A v \in {"running", "finished", "done"} : Yields(v)' = Yields(v) /\ CallsOf(v)' = CallsOf(v)
      BY <3>2, <3>3
    <3> QED BY <3>3, <3>4
  <2> QED BY <1>1, <2>1, <2>2
<1>3. ReactType'
  BY <1>1, <1>2 DEF ReactType
<1>4. HistoryInv'
  BY <1>1 DEF HistoryInv, Answered, Tells
<1>5. RunningInv' /\ DoneInv'
  BY <1>1, <1>2 DEF RunningInv, DoneInv
<1>6. FinishedInv'
  BY <1>1, <1>2 DEF FinishedInv, Yields
<1> QED BY <1>3, <1>4, <1>5, <1>6

LEMMA FailsKeeps == ASSUME ReactInv, StreamFails PROVE ReactInv'
<1> USE DEF ReactInv
<1>1. PICK why \in {"warning", "error"} : Finish(<<StreamChunk(why)>>)
  BY DEF StreamFails
<1>2. react_phase = "stream" /\ react_phase' = "over"
      /\ UNCHANGED <<way, react_step, step_text, step_tool_calls, observed, succeeded, messages>>
  BY DEF StreamFails, Finish
<1>3. Yields("done") = {} /\ CallsOf("running") = CallsOf("finished")
  BY <1>2 DEF DoneInv, RunningInv
<1>4. /\ yielded' \in Seq(AnyChunk) /\ Yields("done")' = {Len(yielded')}
      /\ \A i \in DOMAIN yielded : i \in DOMAIN yielded' /\ yielded'[i] = yielded[i]
      /\ Yields("finished")' = Yields("finished")
      /\ CallsOf("running")' = CallsOf("running") /\ CallsOf("finished")' = CallsOf("finished")
  BY <1>1, <1>3, LastChunks DEF ReactType
<1>5. ReactType'
  BY <1>2, <1>4 DEF ReactType, ReactPhases
<1>6. HistoryInv'
  BY <1>2 DEF HistoryInv, Answered, Tells
<1>7. RunningInv' /\ DoneInv' /\ FinishedInv'
  BY <1>2, <1>3, <1>4 DEF RunningInv, DoneInv, FinishedInv, Yields
<1> QED BY <1>5, <1>6, <1>7

LEMMA CompleteKeeps == ASSUME ReactInv, AnswerComplete PROVE ReactInv'
<1> USE DEF ReactInv
<1>1. react_phase = "stream" /\ UNCHANGED <<way, react_step, step_text, step_tool_calls, observed, succeeded>>
      /\ valid_calls' = valid_calls /\ valid_calls \in Nat /\ observed = 0
  BY NamedCount DEF AnswerComplete, ReactType, RunningInv, valid_calls
<1>2. Yields("done") = {} /\ CallsOf("running") = CallsOf("finished")
  BY <1>1 DEF DoneInv, RunningInv
<1>3. CASE /\ valid_calls # 0
           /\ yielded' = yielded \o [i \in 1..valid_calls |-> ToolCall("running", i)]
           /\ react_phase' = "tools" /\ UNCHANGED messages
  <2> DEFINE cs == [i \in 1..valid_calls |-> ToolCall("running", i)]
  <2>1. \A i \in 1..valid_calls : ToolCall("running", i) \in AnyChunk
    BY <1>1 DEF ToolCall, AnyChunk, Whats, ReactType
  <2>2. cs \in Seq(AnyChunk) /\ Len(cs) = valid_calls
    BY <1>1, <2>1, IsASeq
  <2>3. \A i \in 1..Len(cs) : cs[i].what = "running" /\ cs[i].call = <<react_step, i>>
    BY <2>2 DEF ToolCall
  <2>4. yielded' = yielded \o cs
    BY <1>3
  <2> HIDE DEF cs
  <2>5. /\ yielded' \in Seq(AnyChunk) /\ Len(yielded) \in Nat /\ Len(yielded') = Len(yielded) + Len(cs)
        /\ DOMAIN yielded = 1..Len(yielded) /\ DOMAIN yielded' = 1..Len(yielded')
        /\ \A i \in 1..Len(yielded) : yielded'[i] = yielded[i]
        /\ \A i \in 1..Len(cs) : yielded'[Len(yielded) + i] = cs[i]
        /\ \A w : Yields(w)' = Yields(w) \cup {j \in (Len(yielded) + 1)..Len(yielded') : yielded'[j].what = w}
        /\ \A w : CallsOf(w)' = CallsOf(w) \cup {cs[i].call : i \in {i \in 1..Len(cs) : cs[i].what = w}}
    BY <2>2, <2>4, Extended DEF ReactType
  <2>6. \A j \in (Len(yielded) + 1)..Len(yielded') : yielded'[j].what = "running"
    <3>1. \A j \in (Len(yielded) + 1)..Len(yielded') : j - Len(yielded) \in 1..Len(cs) /\ yielded'[j] = cs[j - Len(yielded)]
      BY <2>2, <2>5, <1>1
    <3> QED BY <2>3, <3>1
  <2>7. Yields("done")' = {} /\ Yields("finished")' = Yields("finished")
    <3>1. \A w \in {"done", "finished"} : {j \in (Len(yielded) + 1)..Len(yielded') : yielded'[j].what = w} = {}
      BY <2>6
    <3> QED BY <3>1, <2>5, <1>2
  <2>8. CallsOf("finished")' = CallsOf("finished") /\ CallsOf("running")' = CallsOf("running") \cup Remaining
    <3>1. {cs[i].call : i \in {i \in 1..Len(cs) : cs[i].what = "finished"}} = {}
      BY <2>3
    <3>2. {cs[i].call : i \in {i \in 1..Len(cs) : cs[i].what = "running"}} = {<<react_step, i>> : i \in 1..valid_calls}
      BY <2>2, <2>3
    <3>3. Remaining = {<<react_step, i>> : i \in 1..valid_calls}
      BY <1>1 DEF Remaining
    <3> QED BY <2>5, <3>1, <3>2, <3>3
  <2>9. ReactType'
    BY <1>1, <1>3, <2>5 DEF ReactType, ReactPhases
  <2>10. HistoryInv'
    BY <1>1, <1>3 DEF HistoryInv, Answered, Tells
  <2>11. RunningInv'
    <3>1. Remaining' = Remaining
      BY <1>1 DEF Remaining
    <3> QED BY <1>1, <1>2, <1>3, <2>8, <3>1 DEF RunningInv
  <2>12. FinishedInv' /\ DoneInv'
    <3>1. \A k \in Yields("finished") : yielded'[k] = yielded[k]
      BY <2>5 DEF Yields
    <3>2. FinishedInv'
      BY <1>1, <2>7, <3>1 DEF FinishedInv
    <3>3. DoneInv'
      BY <1>3, <2>7 DEF DoneInv
    <3> QED BY <3>2, <3>3
  <2> QED BY <2>9, <2>10, <2>11, <2>12
<1>4. CASE /\ Yield(StreamChunk("observation")) /\ messages' = Append(messages, Hint("system")) /\ react_phase' = "next"
  <2>1. StreamChunk("observation") \in AnyChunk /\ StreamChunk("observation").what = "observation"
    BY DEF StreamChunk, AnyChunk, Whats, NoCall
  <2>2. /\ yielded' \in Seq(AnyChunk) /\ Len(yielded) \in Nat /\ Len(yielded') = Len(yielded) + 1
        /\ DOMAIN yielded = 1..Len(yielded) /\ DOMAIN yielded' = 1..Len(yielded')
        /\ \A i \in 1..Len(yielded) : yielded'[i] = yielded[i]
        /\ \A v : Yields(v)' = Yields(v) \cup IF StreamChunk("observation").what = v THEN {Len(yielded) + 1} ELSE {}
        /\ \A v : CallsOf(v)' = CallsOf(v) \cup IF StreamChunk("observation").what = v THEN {StreamChunk("observation").call} ELSE {}
    BY <1>4, <2>1, OneMore DEF ReactType
  <2>3. \A v \in {"running", "finished", "done"} : Yields(v)' = Yields(v) /\ CallsOf(v)' = CallsOf(v)
    BY <2>1, <2>2
  <2>4. Hint("system") \in Told /\ Hint("system").role = "system"
    BY DEF Hint, Told, Roles
  <2>5. /\ messages' \in Seq(Told)
        /\ \A r : Tells(r)' = Tells(r) \cup IF Hint("system").role = r THEN {Len(messages) + 1} ELSE {}
        /\ \A k \in DOMAIN messages : Answered(k) => Answered(k)'
    BY <1>4, <2>4, OneToldMore DEF ReactType
  <2>6. Tells("assistant")' = Tells("assistant") /\ Tells("assistant") \subseteq DOMAIN messages
    BY <2>4, <2>5 DEF Tells
  <2>7. ReactType'
    BY <1>1, <1>4, <2>2, <2>5 DEF ReactType, ReactPhases
  <2>8. HistoryInv'
    BY <1>1, <1>4, <2>5, <2>6 DEF HistoryInv
  <2>9. RunningInv' /\ DoneInv'
    BY <1>1, <1>2, <1>4, <2>3 DEF RunningInv, DoneInv
  <2>10. FinishedInv'
    BY <1>1, <2>2, <2>3 DEF FinishedInv, Yields
  <2> QED BY <2>7, <2>8, <2>9, <2>10
<1>5. ASSUME NEW cs, cs = <<>> \/ cs = <<StreamChunk("text")>>, Finish(cs), UNCHANGED messages PROVE ReactInv'
  <2>1. /\ yielded' \in Seq(AnyChunk) /\ Yields("done")' = {Len(yielded')}
        /\ \A i \in DOMAIN yielded : i \in DOMAIN yielded' /\ yielded'[i] = yielded[i]
        /\ Yields("finished")' = Yields("finished")
        /\ CallsOf("running")' = CallsOf("running") /\ CallsOf("finished")' = CallsOf("finished")
    BY <1>5, <1>2, LastChunks DEF ReactType
  <2>2. react_phase' = "over"
    BY <1>5 DEF Finish
  <2>3. ReactType'
    BY <1>1, <1>5, <2>1, <2>2 DEF ReactType, ReactPhases
  <2>4. HistoryInv'
    BY <1>1, <1>5, <2>2 DEF HistoryInv, Answered, Tells
  <2>5. RunningInv' /\ DoneInv' /\ FinishedInv'
    BY <1>1, <1>2, <2>1, <2>2 DEF RunningInv, DoneInv, FinishedInv, Yields
  <2> QED BY <2>3, <2>4, <2>5
<1>6. \/ /\ valid_calls # 0
         /\ yielded' = yielded \o [i \in 1..valid_calls |-> ToolCall("running", i)]
         /\ react_phase' = "tools" /\ UNCHANGED messages
      \/ Yield(StreamChunk("observation")) /\ messages' = Append(messages, Hint("system")) /\ react_phase' = "next"
      \/ \E cs : (cs = <<>> \/ cs = <<StreamChunk("text")>>) /\ Finish(cs) /\ UNCHANGED messages
  BY DEF AnswerComplete
<1> QED BY <1>3, <1>4, <1>5, <1>6

LEMMA GatheredKeeps == ASSUME ReactInv, Gathered PROVE ReactInv'
<1> USE DEF ReactInv
<1>1. /\ react_phase = "tools" /\ react_phase' = "results"
      /\ UNCHANGED <<way, react_step, step_text, step_tool_calls, observed, succeeded, yielded>>
      /\ valid_calls' = valid_calls /\ valid_calls \in Nat /\ observed = 0
  BY NamedCount DEF Gathered, ReactType, RunningInv, valid_calls
<1>2. RunningInv' /\ FinishedInv' /\ DoneInv'
  <2>1. Remaining' = Remaining /\ \A w : Yields(w)' = Yields(w) /\ CallsOf(w)' = CallsOf(w)
    BY <1>1 DEF Remaining, Yields, CallsOf
  <2> QED BY <1>1, <2>1 DEF RunningInv, FinishedInv, DoneInv
<1>3. CASE way # "openai"
  <2>1. messages' = messages
    BY <1>3 DEF Gathered
  <2>2. ReactType' /\ HistoryInv'
    BY <1>1, <1>3, <2>1 DEF ReactType, ReactPhases, HistoryInv, Tells
  <2> QED BY <1>2, <2>2
<1>4. CASE way = "openai"
  <2> DEFINE m == [role |-> "assistant", of |-> CallIds(valid_calls)]
  <2>1. messages' = Append(messages, m)
    BY <1>4 DEF Gathered, ListedCalls, valid_calls
  <2>2. m \in Told /\ m.role = "assistant" /\ m.of = CallIds(valid_calls)
    BY <1>1 DEF Told, Roles, CallIds, ReactType
  <2> HIDE DEF m
  <2>3. /\ messages' \in Seq(Told) /\ Len(messages) \in Nat /\ Len(messages') = Len(messages) + 1
        /\ DOMAIN messages = 1..Len(messages) /\ DOMAIN messages' = 1..Len(messages')
        /\ messages'[Len(messages')] = m
        /\ \A r : Tells(r)' = Tells(r) \cup IF m.role = r THEN {Len(messages) + 1} ELSE {}
        /\ \A k \in DOMAIN messages : Answered(k) => Answered(k)'
    BY <2>1, <2>2, OneToldMore DEF ReactType
  <2>4. ReactType'
    BY <1>1, <2>3 DEF ReactType, ReactPhases
  <2>5. \A k : k = Len(messages) + 1 => Pending(k)'
    <3>1. CallIds(valid_calls)' = CallIds(valid_calls)
      BY <1>1 DEF CallIds
    <3> QED BY <1>1, <2>2, <2>3, <3>1 DEF Pending
  <2>6. \A k \in Tells("assistant") : Answered(k)' /\ Tells("assistant") \subseteq DOMAIN messages
    BY <1>1, <2>3 DEF HistoryInv, Tells
  <2>7. HistoryInv'
    BY <1>1, <1>4, <2>2, <2>3, <2>5, <2>6 DEF HistoryInv
  <2> QED BY <1>2, <2>4, <2>7
<1> QED BY <1>3, <1>4

\* As many numbers as there are calls
LEMMA CallIdsCount == ASSUME NEW n \in Nat PROVE IsFiniteSet(CallIds(n)) /\ Cardinality(CallIds(n)) = n
<1> DEFINE f == [i \in 1..n |-> <<react_step, i>>]
<1>1. f \in Bijection(1..n, CallIds(n))
  <2>1. \A i, j \in 1..n : f[i] = f[j] => i = j
    OBVIOUS
  <2>2. f \in [1..n -> CallIds(n)] /\ \A x \in CallIds(n) : \E i \in 1..n : f[i] = x
    BY DEF CallIds
  <2> QED BY <2>1, <2>2, Fun_IsBij
<1>2. IsFiniteSet(1..n) /\ Cardinality(1..n) = n
  BY FS_Interval
<1>3. ExistsBijection(1..n, CallIds(n))
  BY <1>1 DEF ExistsBijection
<1> QED BY <1>2, <1>3, FS_Bijection

LEMMA ObservationKeeps == ASSUME ReactInv, NEW ok \in BOOLEAN, Observation(ok) PROVE ReactInv'
<1> USE DEF ReactInv
<1>1. /\ react_phase = "results" /\ observed < valid_calls /\ observed' = observed + 1 /\ observed \in Nat
      /\ UNCHANGED <<way, react_step, react_phase, step_text, step_tool_calls>>
      /\ valid_calls' = valid_calls /\ valid_calls \in Nat /\ react_step \in Nat
  BY NamedCount DEF Observation, ReactType, valid_calls
<1> DEFINE c == ToolCall("finished", observed + 1)
           m == [role |-> IF way = "openai" THEN "tool" ELSE "user", of |-> {<<react_step, observed + 1>>}]
<1>2. Yield(c) /\ messages' = Append(messages, m)
  BY <1>1 DEF Observation
<1>3. c \in AnyChunk /\ c.what = "finished" /\ c.call = <<react_step, observed + 1>>
  BY <1>1 DEF ToolCall, AnyChunk, Whats
<1>4. m \in Told /\ m.role # "assistant"
  BY <1>1 DEF Told, Roles
<1>5. way = "openai" => m = [role |-> "tool", of |-> {<<react_step, observed + 1>>}]
  OBVIOUS
<1> HIDE DEF c, m
<1>6. /\ yielded' \in Seq(AnyChunk) /\ Len(yielded) \in Nat /\ Len(yielded') = Len(yielded) + 1
      /\ yielded'[Len(yielded) + 1] = c
      /\ DOMAIN yielded = 1..Len(yielded) /\ DOMAIN yielded' = 1..Len(yielded')
      /\ \A i \in 1..Len(yielded) : yielded'[i] = yielded[i]
      /\ \A w : Yields(w)' = Yields(w) \cup IF c.what = w THEN {Len(yielded) + 1} ELSE {}
      /\ \A w : CallsOf(w)' = CallsOf(w) \cup IF c.what = w THEN {c.call} ELSE {}
  BY <1>2, <1>3, OneMore DEF ReactType
<1>7. /\ messages' \in Seq(Told) /\ Len(messages) \in Nat /\ Len(messages') = Len(messages) + 1
      /\ DOMAIN messages = 1..Len(messages) /\ DOMAIN messages' = 1..Len(messages')
      /\ \A k \in 1..Len(messages) : messages'[k] = messages[k]
      /\ messages'[Len(messages')] = m
      /\ \A r : Tells(r)' = Tells(r) \cup IF m.role = r THEN {Len(messages) + 1} ELSE {}
      /\ \A k \in DOMAIN messages : Answered(k) => Answered(k)'
  BY <1>2, <1>4, OneToldMore DEF ReactType
<1>8. ReactType'
  BY <1>1, <1>6, <1>7 DEF ReactType
<1>9. Tells("assistant")' = Tells("assistant") /\ Tells("assistant") \subseteq DOMAIN messages
  BY <1>4, <1>7 DEF Tells
<1>10. ASSUME NEW k \in Tells("assistant"), Pending(k) PROVE Pending(k)'
  <2>1. way = "openai"
    BY <1>10 DEF HistoryInv
  <2>2. /\ messages[k].of = CallIds(valid_calls) /\ Len(messages) = k + observed /\ k \in 1..Len(messages) /\ k \in Nat
        /\ \A i \in 1..observed : messages[k + i] = [role |-> "tool", of |-> {<<react_step, i>>}]
    BY <1>10, <1>7, <1>9 DEF Pending
  <2>3. messages'[k].of = CallIds(valid_calls)' /\ Len(messages') = k + (observed + 1)
    BY <2>2, <1>1, <1>7 DEF CallIds
  <2>4. ASSUME NEW i \in 1..(observed + 1) PROVE messages'[k + i] = [role |-> "tool", of |-> {<<react_step, i>>}]
    <3>1. CASE i = observed + 1
      BY <3>1, <2>1, <2>3, <1>5, <1>7
    <3>2. CASE i \in 1..observed
      <4>1. k + i \in 1..Len(messages)
        BY <3>2, <2>2, <1>1, <1>7
      <4> QED BY <3>2, <4>1, <2>2, <1>7
    <3> QED BY <3>1, <3>2, <1>1
  <2> QED BY <2>3, <2>4, <1>1 DEF Pending
<1>11. HistoryInv'
  BY <1>1, <1>7, <1>9, <1>10 DEF HistoryInv
<1>12. RunningInv'
  <2>1. CallsOf("running")' = CallsOf("running")
    <3>1. c.what # "running"
      BY <1>3
    <3> QED BY <3>1, <1>6
  <2>2. CallsOf("finished")' = CallsOf("finished") \cup {<<react_step, observed + 1>>}
    BY <1>3, <1>6
  <2>3. Remaining = {<<react_step, observed + 1>>} \cup Remaining'
    <3>1. \A i : i \in (observed + 1)..valid_calls <=> i = observed + 1 \/ i \in (observed + 2)..valid_calls
      BY <1>1
    <3>2. Remaining' = {<<react_step, i>> : i \in (observed + 2)..valid_calls}
      BY <1>1 DEF Remaining
    <3> QED BY <3>1, <3>2 DEF Remaining
  <2> QED BY <2>1, <2>2, <2>3, <1>1 DEF RunningInv
<1>13. FinishedInv'
  <2>1. Yields("finished")' = Yields("finished") \cup {Len(yielded) + 1}
    BY <1>3, <1>6
  <2>2. \A k \in Yields("finished") : yielded'[k] = yielded[k] /\ k \in 1..Len(yielded)
    BY <1>6 DEF Yields
  <2>3. \A k \in Yields("finished") : yielded[k].call[1] \in Nat /\ yielded[k].call[2] \in Nat
    <3>1. ASSUME NEW k \in Yields("finished") PROVE yielded[k] \in AnyChunk
      BY <2>2, ElementOfSeq DEF ReactType
    <3> QED BY <3>1 DEF AnyChunk
  <2>4. yielded'[Len(yielded) + 1].call = <<react_step, observed + 1>>
    BY <1>3, <1>6
  <2>5. \A k \in Yields("finished") : yielded[k].call # <<react_step, observed + 1>>
    BY <2>3, <1>1 DEF FinishedInv
  <2>6. ASSUME NEW k \in Yields("finished")'
        PROVE  \/ yielded'[k].call[1] < react_step'
               \/ yielded'[k].call[1] = react_step' /\ yielded'[k].call[2] <= observed'
    BY <2>1, <2>2, <2>3, <2>4, <1>1 DEF FinishedInv
  <2>7. ASSUME NEW j \in Yields("finished")', NEW k \in Yields("finished")', yielded'[j].call = yielded'[k].call
        PROVE  j = k
    BY <2>7, <2>1, <2>2, <2>4, <2>5 DEF FinishedInv
  <2> QED BY <2>6, <2>7 DEF FinishedInv
<1>14. DoneInv'
  <2>1. c.what # "done"
    BY <1>3
  <2> QED BY <2>1, <1>1, <1>6 DEF DoneInv
<1> QED BY <1>8, <1>11, <1>12, <1>13, <1>14

\* With all results told, the calls of the step are answered
LEMMA PendingAnswered ==
  ASSUME ReactInv, react_phase = "results", observed = valid_calls, NEW k \in Tells("assistant"), Pending(k)
  PROVE  Answered(k)
<1>1. valid_calls \in Nat /\ k \in 1..Len(messages) /\ DOMAIN messages = 1..Len(messages) /\ Len(messages) \in Nat
  BY NamedCount, LenProperties DEF ReactInv, ReactType, valid_calls, Tells
<1>2. Cardinality(messages[k].of) = valid_calls
  BY <1>1, CallIdsCount DEF Pending
<1>3. \A j : j \in (k + 1)..(k + valid_calls) => j - k \in 1..observed /\ k + (j - k) = j /\ j \in 1..Len(messages)
  BY <1>1 DEF Pending
<1>4. ASSUME NEW j \in (k + 1)..(k + valid_calls)
      PROVE  /\ j \in 1..Len(messages) /\ j - k \in 1..valid_calls
             /\ messages[j].role = "tool" /\ messages[j].of = {<<react_step, j - k>>}
  <2>1. messages[k + (j - k)] = [role |-> "tool", of |-> {<<react_step, j - k>>}]
    BY <1>3 DEF Pending
  <2> QED BY <2>1, <1>3
<1>5. (k + 1)..(k + valid_calls) \subseteq Tells("tool")
  BY <1>1, <1>4 DEF Tells
<1>6. CallIds(valid_calls) = UNION {messages[j].of : j \in (k + 1)..(k + valid_calls)}
  <2>1. ASSUME NEW x \in CallIds(valid_calls) PROVE x \in UNION {messages[j].of : j \in (k + 1)..(k + valid_calls)}
    <3>1. PICK i \in 1..valid_calls : x = <<react_step, i>>
      BY <2>1 DEF CallIds
    <3>2. k + i \in (k + 1)..(k + valid_calls) /\ (k + i) - k = i
      BY <1>1
    <3>3. x \in messages[k + i].of
      BY <3>1, <3>2, <1>4
    <3> QED BY <3>2, <3>3
  <2>2. ASSUME NEW j \in (k + 1)..(k + valid_calls), NEW x \in messages[j].of PROVE x \in CallIds(valid_calls)
    BY <2>2, <1>4 DEF CallIds
  <2> QED BY <2>1, <2>2
<1> QED BY <1>2, <1>5, <1>6 DEF Answered, Pending

LEMMA OverKeeps == ASSUME ReactInv, StepOver PROVE ReactInv'
<1> USE DEF ReactInv
<1>1. /\ react_phase = "results" /\ observed = valid_calls /\ observed \in Nat
      /\ UNCHANGED <<way, react_step, step_text, step_tool_calls, observed, succeeded>>
      /\ valid_calls' = valid_calls
  BY DEF StepOver, ReactType, valid_calls
<1>2. \A k \in Tells("assistant") : Answered(k)
  BY <1>1, PendingAnswered DEF HistoryInv
<1>3. CallsOf("running") = CallsOf("finished") /\ Yields("done") = {}
  <2>1. Remaining = {}
    BY <1>1 DEF Remaining
  <2> QED BY <2>1, <1>1 DEF RunningInv, DoneInv
<1>4. CASE Finish(<<StreamChunk("text")>>) /\ UNCHANGED messages
  <2>1. /\ yielded' \in Seq(AnyChunk) /\ Yields("done")' = {Len(yielded')}
        /\ \A i \in DOMAIN yielded : i \in DOMAIN yielded' /\ yielded'[i] = yielded[i]
        /\ Yields("finished")' = Yields("finished")
        /\ CallsOf("running")' = CallsOf("running") /\ CallsOf("finished")' = CallsOf("finished")
    BY <1>4, <1>3, LastChunks DEF ReactType
  <2>2. react_phase' = "over"
    BY <1>4 DEF Finish
  <2>3. ReactType'
    BY <1>1, <1>4, <2>1, <2>2 DEF ReactType, ReactPhases
  <2>4. HistoryInv'
    BY <1>1, <1>2, <1>4, <2>2 DEF HistoryInv, Answered, Tells
  <2>5. RunningInv' /\ DoneInv'
    BY <1>1, <1>3, <2>1, <2>2 DEF RunningInv, DoneInv
  <2>6. FinishedInv'
    <3>1. \A k \in Yields("finished") : yielded'[k] = yielded[k]
      BY <2>1 DEF Yields
    <3> QED BY <3>1, <1>1, <2>1 DEF FinishedInv
  <2> QED BY <2>3, <2>4, <2>5, <2>6
<1>5. CASE /\ react_phase' = "next" /\ UNCHANGED yielded
           /\ messages' = Append(messages, Hint("system")) \/ UNCHANGED messages
  <2>1. ReactType' /\ HistoryInv'
    <3>1. CASE messages' = messages
      BY <3>1, <1>1, <1>2, <1>5 DEF ReactType, ReactPhases, HistoryInv, Answered, Tells
    <3>2. CASE messages' = Append(messages, Hint("system"))
      <4>1. Hint("system") \in Told /\ Hint("system").role = "system"
        BY DEF Hint, Told, Roles
      <4>2. /\ messages' \in Seq(Told)
            /\ \A r : Tells(r)' = Tells(r) \cup IF Hint("system").role = r THEN {Len(messages) + 1} ELSE {}
            /\ \A k \in DOMAIN messages : Answered(k) => Answered(k)'
        BY <3>2, <4>1, OneToldMore DEF ReactType
      <4>3. Tells("assistant")' = Tells("assistant") /\ Tells("assistant") \subseteq DOMAIN messages
        BY <4>1, <4>2 DEF Tells
      <4>4. ReactType'
        BY <1>1, <1>5, <4>2 DEF ReactType, ReactPhases
      <4>5. HistoryInv'
        BY <1>1, <1>2, <1>5, <4>2, <4>3 DEF HistoryInv
      <4> QED BY <4>4, <4>5
    <3> QED BY <1>5, <3>1, <3>2
  <2>2. RunningInv' /\ FinishedInv' /\ DoneInv'
    <3>1. \A w : Yields(w)' = Yields(w) /\ CallsOf(w)' = CallsOf(w)
      BY <1>5 DEF Yields, CallsOf
    <3> QED BY <3>1, <1>1, <1>3, <1>5 DEF RunningInv, FinishedInv, DoneInv
  <2> QED BY <2>1, <2>2
<1> QED BY <1>4, <1>5 DEF StepOver

\* The loop keeps its invariant
THEOREM ReactInvariance == ReactSpec => []ReactInv
<1>1. ReactInv /\ [ReactNext]_reactVars => ReactInv'
  <2> SUFFICES ASSUME ReactInv, [ReactNext]_reactVars PROVE ReactInv'
    OBVIOUS
  <2>1. ASSUME UNCHANGED <<way, react_step, step_tool_calls, observed, messages, yielded>>,
               react_phase' = react_phase \/ (react_phase' = "closed" /\ react_phase # "over")
        PROVE  ReactInv'
    <3>1. valid_calls' = valid_calls /\ Remaining' = Remaining
          /\ \A w : Yields(w)' = Yields(w) /\ CallsOf(w)' = CallsOf(w)
      BY <2>1 DEF valid_calls, Remaining, Yields, CallsOf
    <3>2. /\ \A r : Tells(r)' = Tells(r)
          /\ \A k : Answered(k)' = Answered(k)
          /\ \A k : Pending(k)' = Pending(k)
      BY <2>1, <3>1 DEF Tells, Answered, Pending, CallIds
    <3>3. ReactType' /\ HistoryInv'
      BY <2>1, <3>2 DEF ReactInv, ReactType, HistoryInv, ReactPhases
    <3>4. RunningInv' /\ FinishedInv' /\ DoneInv'
      BY <2>1, <3>1 DEF ReactInv, RunningInv, FinishedInv, DoneInv
    <3> QED BY <3>3, <3>4 DEF ReactInv
  <2>2. CASE UNCHANGED reactVars
    BY <2>1, <2>2 DEF reactVars
  <2>3. CASE CloseLoop
    BY <2>1, <2>3 DEF CloseLoop
  <2> QED BY <2>2, <2>3, AskKeeps, StreamKeeps, FailsKeeps, CompleteKeeps, GatheredKeeps, ObservationKeeps, OverKeeps
      DEF ReactNext
<1> QED BY <1>1, ReactStarts, PTL DEF ReactSpec

\* ReactSound, for any number of steps and calls: the model is asked again only with a
\* history in which every call is answered, every tool said to run is finished exactly
\* once in its step, and done is said once, at the end.
THEOREM ReactIsSound == ReactSpec => []ReactSound
<1>1. ReactInv => ReactSound
  BY DEF ReactInv, ReactSound, HistoryInv, RunningInv, FinishedInv, DoneInv, Answered
<1> QED BY <1>1, ReactInvariance, PTL

-----------------------------------------------------------------------------
\* The adapters.  The invariant ties the chunks to what the model has said: an open call has
\* all fragments told so far and is not yielded, a closed one is yielded once, whole; one
\* the adapter has missed a part of always has fewer.

Plain == [type : {"text", "usage", "error", "done"}]
CallChunks == [type : {"tool_call"}, index : CallIndexes, args : Nat]
OutChunk == Plain \cup CallChunks

Entries(f) == DOMAIN f \subseteq CallIndexes /\ f \in [DOMAIN f -> Nat]

SaidType ==
  /\ DOMAIN said = {"text", "calls", "closed", "lost", "events", "form"}
  /\ Entries(said.calls) /\ Entries(open_calls) /\ said.events \in Nat
  /\ said.closed \subseteq DOMAIN said.calls /\ said.lost \subseteq DOMAIN said.calls
  /\ DOMAIN open_calls \subseteq DOMAIN said.calls /\ unnamed \subseteq said.lost

AdapterType == out \in Seq(OutChunk) /\ SaidType

\* Fragments, with what the model has said as a parameter
PartsOf(s, i, n) == IF i \in s.lost THEN n < s.calls[i] ELSE n = s.calls[i]

Streaming == said.form \in {"open", "started"}

\* A call that is open has all the fragments the model has told of it, or the adapter has
\* missed one, and is not yielded; OpenAI's calls are open until the reason is there
EntriesInv ==
  /\ Streaming => \A i \in DOMAIN open_calls : PartsOf(said, i, open_calls[i]) /\ i \notin said.closed
  /\ Streaming => \A i \in said.lost : said.calls[i] > 0
  /\ api = "openai" /\ reason = "none" /\ Streaming =>
       said.closed = {} /\ DOMAIN said.calls \ said.lost \subseteq DOMAIN open_calls
  /\ send_at = "new" \/ (said.form = "open" /\ said.events = 0) => DOMAIN said.calls = {}
  /\ api = "sdk" \/ send_at \in {"new", "posted", "posted again"} => open_calls = NoCalls

YieldedInv ==
  LET calls == Positions({"tool_call"}) IN
    /\ \A k \in calls : out[k].index \in said.closed /\ PartsOf(said, out[k].index, out[k].args)
    /\ \A i \in said.closed \ said.lost : \E k \in calls : out[k].index = i
    /\ \A j, k \in calls : out[j].index = out[k].index => j = k

\* Before the end there is neither verdict nor, before the answer, a reason
VerdictInv ==
  /\ send_at # "over" => Positions({"error", "done"}) = {}
  /\ send_at \in {"new", "posted", "posted again"} => reason = "none"
  /\ LET verdicts == Positions({"error", "done"}) IN
       /\ ~Unfinished => (send_at = "over") = (verdicts # {})
       /\ \A k \in verdicts :
            \/ k = Len(out)
            \/ k = Len(out) - 1 /\ out[k].type = "error" /\ out[k + 1].type = "done"
       /\ reason # "none" /\ send_at = "over" => Len(out) > 1 /\ out[Len(out) - 1].type = "usage"
       /\ reason = "length" /\ send_at = "over" => out[Len(out)].type = "error"

AdapterInv == AdapterType /\ EntriesInv /\ YieldedInv /\ VerdictInv
LEMMA AdapterShows == AdapterInv => AdapterSound
BY DEF AdapterInv, YieldedInv, VerdictInv, AdapterSound, PartsOf, Fragments

LEMMA AdapterStarts == AdapterInit => AdapterInv
<1> SUFFICES ASSUME AdapterInit PROVE AdapterInv
  OBVIOUS
<1>1. out = <<>> /\ out \in Seq(OutChunk) /\ \A types : Positions(types) = {}
  BY EmptySeq DEF AdapterInit, Positions
<1>2. DOMAIN NoCalls = {} /\ NoCalls \in [DOMAIN NoCalls -> Nat]
  BY DEF NoCalls
<1>3. AdapterType
  BY <1>1, <1>2 DEF AdapterInit, AdapterType, SaidType, Entries
<1>4. EntriesInv
  BY <1>2 DEF AdapterInit, EntriesInv
<1>5. YieldedInv
  BY <1>1 DEF AdapterInit, YieldedInv
<1>6. VerdictInv
  BY <1>1 DEF AdapterInit, VerdictInv
<1> QED
  BY <1>3, <1>4, <1>5, <1>6 DEF AdapterInv

-----------------------------------------------------------------------------
\* What more chunks add
LEMMA ChunksMore ==
  ASSUME out \in Seq(OutChunk), NEW cs \in Seq(OutChunk), out' = out \o cs
  PROVE  /\ out' \in Seq(OutChunk) /\ Len(out) \in Nat /\ Len(cs) \in Nat
         /\ Len(out') = Len(out) + Len(cs)
         /\ DOMAIN out = 1..Len(out) /\ DOMAIN out' = 1..Len(out') /\ DOMAIN cs = 1..Len(cs)
         /\ \A k \in DOMAIN out : out'[k] = out[k]
         /\ \A k \in DOMAIN cs : Len(out) + k \in DOMAIN out' /\ out'[Len(out) + k] = cs[k]
         /\ \A k \in DOMAIN out' : k \in DOMAIN out \/ \E j \in DOMAIN cs : k = Len(out) + j
<1>1. /\ out' \in Seq(OutChunk) /\ Len(out') = Len(out) + Len(cs) /\ Len(out) \in Nat /\ Len(cs) \in Nat
      /\ \A i \in 1..Len(out) + Len(cs) : out'[i] = IF i <= Len(out) THEN out[i] ELSE cs[i - Len(out)]
  BY ConcatProperties, LenProperties
<1>2. DOMAIN out = 1..Len(out) /\ DOMAIN out' = 1..Len(out') /\ DOMAIN cs = 1..Len(cs)
  BY <1>1, LenProperties
<1>3. \A k \in DOMAIN out : out'[k] = out[k]
  BY <1>1, <1>2
<1>4. \A k \in DOMAIN cs : Len(out) + k \in DOMAIN out' /\ out'[Len(out) + k] = cs[k]
  BY <1>1, <1>2
<1>5. ASSUME NEW k \in DOMAIN out', k \notin DOMAIN out PROVE \E j \in DOMAIN cs : k = Len(out) + j
  <2>1. k - Len(out) \in DOMAIN cs /\ k = Len(out) + (k - Len(out))
    BY <1>1, <1>2, <1>5
  <2> QED
    BY <2>1
<1> QED
  BY <1>1, <1>2, <1>3, <1>4, <1>5

CallsIn(cs) == {k \in DOMAIN cs : cs[k].type = "tool_call"}

\* What is known of a closed call stays
ClosedStay ==
  \A i \in said.closed : /\ i \in said'.closed /\ said'.calls[i] = said.calls[i]
                         /\ i \in said'.lost <=> i \in said.lost

\* The calls closed now of which nothing was missed are those of these chunks, each once
ClosesCalls(cs) ==
  /\ \A k \in CallsIn(cs) : cs[k].index \in said'.closed \ said.closed /\ PartsOf(said', cs[k].index, cs[k].args)
  /\ \A i \in (said'.closed \ said.closed) \ said'.lost : \E k \in CallsIn(cs) : cs[k].index = i
  /\ \A j, k \in CallsIn(cs) : cs[j].index = cs[k].index => j = k
  /\ ClosedStay

LEMMA CallsYielded ==
  ASSUME AdapterInv, NEW cs \in Seq(OutChunk), out' = out \o cs, ClosesCalls(cs)
  PROVE  YieldedInv'
<1> DEFINE old == Positions({"tool_call"})
           now == Positions({"tool_call"})'
<1>1. out \in Seq(OutChunk) /\ YieldedInv
  BY DEF AdapterInv, AdapterType, SaidType
<1>2. /\ \A k \in old : k \in now /\ out'[k] = out[k]
      /\ \A k \in CallsIn(cs) : Len(out) + k \in now /\ out'[Len(out) + k] = cs[k]
      /\ \A k \in now : k \in old \/ \E j \in CallsIn(cs) : k = Len(out) + j
  BY <1>1, ChunksMore DEF Positions, CallsIn
<1>3. /\ \A k \in old : out[k].index \in said.closed /\ PartsOf(said, out[k].index, out[k].args)
      /\ \A i \in said.closed \ said.lost : \E k \in old : out[k].index = i
      /\ \A j, k \in old : out[j].index = out[k].index => j = k
  BY <1>1 DEF YieldedInv
<1> HIDE DEF old, now
<1>4. \A i \in said.closed : i \in said'.closed /\ \A n : PartsOf(said, i, n) => PartsOf(said', i, n)
  BY DEF ClosesCalls, ClosedStay, PartsOf
<1>5. ASSUME NEW k \in now PROVE out'[k].index \in said'.closed /\ PartsOf(said', out'[k].index, out'[k].args)
  <2>1. CASE k \in old
    <3>1. PICK i \in said.closed : i = out[k].index /\ PartsOf(said, i, out[k].args)
      BY <1>3, <2>1
    <3>2. i \in said'.closed /\ PartsOf(said', i, out[k].args) /\ out'[k] = out[k]
      BY <1>2, <1>4, <2>1, <3>1
    <3> QED
      BY <3>1, <3>2
  <2>2. ASSUME NEW j \in CallsIn(cs), k = Len(out) + j
        PROVE  out'[k].index \in said'.closed /\ PartsOf(said', out'[k].index, out'[k].args)
    <3>1. out'[k] = cs[j]
      BY <1>2, <2>2
    <3>2. cs[j].index \in said'.closed /\ PartsOf(said', cs[j].index, cs[j].args)
      BY DEF ClosesCalls
    <3> QED
      BY <3>1, <3>2
  <2> QED
    BY <1>2, <2>1, <2>2
<1>6. ASSUME NEW i \in said'.closed \ said'.lost PROVE \E k \in now : out'[k].index = i
  <2>1. CASE i \in said.closed
    <3>1. PICK k \in old : out[k].index = i
      BY <1>3, <2>1 DEF ClosesCalls, ClosedStay
    <3> QED
      BY <1>2, <3>1
  <2>2. CASE i \notin said.closed
    <3>1. PICK k \in CallsIn(cs) : cs[k].index = i
      BY <2>2 DEF ClosesCalls
    <3> QED
      BY <3>1, <1>2
  <2> QED
    BY <2>1, <2>2
<1>7. ASSUME NEW j \in now, NEW k \in now, out'[j].index = out'[k].index PROVE j = k
  <2>1. CASE j \in old /\ k \in old
    <3>1. out[j].index = out[k].index
      BY <1>2, <1>7, <2>1
    <3> QED
      BY <1>3, <2>1, <3>1
  <2>2. ASSUME NEW i \in old, NEW l \in CallsIn(cs), out[i].index = cs[l].index PROVE FALSE
    BY <1>3, <2>2 DEF ClosesCalls
  <2>3. ASSUME NEW l \in CallsIn(cs), k = Len(out) + l PROVE j = k
    <3>1. CASE j \in old
      BY <1>2, <1>7, <2>2, <2>3, <3>1
    <3>2. ASSUME NEW i \in CallsIn(cs), j = Len(out) + i PROVE j = k
      <4>1. cs[i].index = cs[l].index
        BY <1>2, <1>7, <2>3, <3>2
      <4> QED
        BY <4>1, <2>3, <3>2 DEF ClosesCalls
    <3> QED
      BY <1>2, <3>1, <3>2
  <2>4. ASSUME NEW l \in CallsIn(cs), j = Len(out) + l, k \in old PROVE j = k
    BY <1>2, <1>7, <2>2, <2>4
  <2> QED
    BY <1>2, <2>1, <2>3, <2>4
<1> QED
  BY <1>5, <1>6, <1>7 DEF YieldedInv, now

\* ... and none of these
LEMMA NoCallYielded ==
  ASSUME AdapterInv, NEW cs \in Seq(OutChunk), out' = out \o cs, CallsIn(cs) = {},
         said'.closed \ said'.lost \subseteq said.closed, ClosedStay
  PROVE  YieldedInv'
<1>1. ClosesCalls(cs)
  BY DEF ClosesCalls
<1> QED
  BY <1>1, CallsYielded

LEMMA SaidStays == ASSUME UNCHANGED said PROVE ClosedStay /\ said'.closed \ said'.lost \subseteq said.closed
BY DEF ClosedStay

\* As long as it goes on there is no verdict
LEMMA GoesOn ==
  ASSUME AdapterInv, NEW cs \in Seq(OutChunk), out' = out \o cs,
         \A k \in DOMAIN cs : cs[k].type \notin {"error", "done"},
         send_at # "over", send_at' # "over",
         send_at' \in {"new", "posted", "posted again"} => reason' = "none"
  PROVE  VerdictInv'
<1>1. out \in Seq(OutChunk) /\ Positions({"error", "done"}) = {}
  BY DEF AdapterInv, AdapterType, SaidType, VerdictInv
<1>2. ASSUME NEW k \in DOMAIN out', out'[k].type \in {"error", "done"} PROVE FALSE
  <2>1. CASE k \in DOMAIN out
    BY <1>1, <1>2, <2>1, ChunksMore DEF Positions
  <2>2. ASSUME NEW j \in DOMAIN cs, k = Len(out) + j PROVE FALSE
    BY <1>1, <1>2, <2>2, ChunksMore
  <2> QED
    BY <1>1, <2>1, <2>2, ChunksMore
<1>3. Positions({"error", "done"})' = {}
  BY <1>2 DEF Positions
<1> QED
  BY <1>3 DEF VerdictInv

\* It ends with a verdict, after the usage or with no reason seen
LEMMA GivesVerdict ==
  ASSUME AdapterInv, NEW a, NEW b, send_at # "over", Ends(a \o <<b>>), UNCHANGED reason,
         a = <<>> \/ \E c \in Plain : a = <<c>>, b \in Plain,
         b.type \in {"error", "done"},
         reason # "none" => a = <<Chunk("usage")>>, reason = "length" => b.type = "error",
         \A c : a = <<c>> /\ c.type \in {"error", "done"} => c.type = "error" /\ b.type = "done"
  PROVE  VerdictInv' /\ out' \in Seq(OutChunk) /\ a \o <<b>> \in Seq(OutChunk)
         /\ \A k \in DOMAIN (a \o <<b>>) : (a \o <<b>>)[k].type # "tool_call"
<1> DEFINE cs == a \o <<b>>
           n == Len(out')
<1>1. out \in Seq(OutChunk) /\ Positions({"error", "done"}) = {} /\ Plain \subseteq OutChunk
      /\ \A c \in Plain : c.type # "tool_call"
  BY DEF AdapterInv, AdapterType, SaidType, VerdictInv, OutChunk, Plain
<1>2. out' = out \o cs /\ send_at' = "over"
  BY DEF Ends
<1>3. CASE a = <<>>
  <2>1. cs = <<b>> /\ cs \in Seq(OutChunk) /\ Len(cs) = 1 /\ cs[1] = b /\ reason = "none"
    BY <1>1, <1>3, EmptySeq
  <2> HIDE DEF cs
  <2>2. /\ out' \in Seq(OutChunk) /\ Len(out) \in Nat /\ n = Len(out) + 1 /\ n \in DOMAIN out' /\ out'[n] = b
        /\ DOMAIN cs = {1}
        /\ \A k \in DOMAIN out' : k = n \/ (k \in DOMAIN out /\ out'[k] = out[k])
    BY <1>1, <1>2, <2>1, ChunksMore
  <2> HIDE DEF n
  <2>3. Positions({"error", "done"})' = {n}
    BY <1>1, <2>2 DEF Positions
  <2>4. VerdictInv'
    BY <2>1, <2>2, <2>3, <1>2 DEF VerdictInv, n
  <2> QED
    BY <1>1, <2>1, <2>2, <2>4 DEF cs
<1>4. ASSUME NEW c \in Plain, a = <<c>> PROVE
        VerdictInv' /\ out' \in Seq(OutChunk) /\ cs \in Seq(OutChunk) /\ \A k \in DOMAIN cs : cs[k].type # "tool_call"
  <2>0. <<c>> \in Seq(OutChunk) /\ <<b>> \in Seq(OutChunk) /\ Len(<<c>>) = 1 /\ Len(<<b>>) = 1
    BY <1>1
  <2>1. cs \in Seq(OutChunk) /\ Len(cs) = 2 /\ cs[1] = c /\ cs[2] = b
    BY <2>0, <1>4, ConcatProperties
  <2> HIDE DEF cs
  <2>2. /\ out' \in Seq(OutChunk) /\ Len(out) \in Nat /\ n = Len(out) + 2 /\ n \in DOMAIN out' /\ out'[n] = b
        /\ DOMAIN cs = {1, 2} /\ n - 1 \in DOMAIN out' /\ out'[n - 1] = c
        /\ \A k \in DOMAIN out' : k = n \/ k = n - 1 \/ (k \in DOMAIN out /\ out'[k] = out[k])
    <3>1. /\ out' \in Seq(OutChunk) /\ Len(out) \in Nat /\ n = Len(out) + 2 /\ DOMAIN cs = {1, 2}
          /\ \A k \in DOMAIN out : out'[k] = out[k]
          /\ \A k \in DOMAIN out' : k \in DOMAIN out \/ \E j \in DOMAIN cs : k = Len(out) + j
      <4>1. /\ out' \in Seq(OutChunk) /\ Len(out) \in Nat /\ Len(out') = Len(out) + Len(cs) /\ DOMAIN cs = 1..Len(cs)
            /\ \A k \in DOMAIN out : out'[k] = out[k]
            /\ \A k \in DOMAIN out' : k \in DOMAIN out \/ \E j \in DOMAIN cs : k = Len(out) + j
        BY <1>1, <1>2, <2>1, ChunksMore
      <4>2. DOMAIN cs = {1, 2}
        BY <4>1, <2>1
      <4> QED
        BY <4>1, <4>2, <2>1
    <3>2. \A j \in DOMAIN cs : Len(out) + j \in DOMAIN out' /\ out'[Len(out) + j] = cs[j]
      BY <1>1, <1>2, <2>1, ChunksMore
    <3>3. n \in DOMAIN out' /\ out'[n] = b /\ n - 1 \in DOMAIN out' /\ out'[n - 1] = c
      <4>1. n = Len(out) + 2 /\ n - 1 = Len(out) + 1
        BY <3>1
      <4> HIDE DEF n
      <4> QED
        BY <4>1, <3>1, <3>2, <2>1
    <3>4. ASSUME NEW k \in DOMAIN out', k \notin DOMAIN out PROVE k = n \/ k = n - 1
      <4>1. k = Len(out) + 1 \/ k = Len(out) + 2
        BY <3>1, <3>4
      <4>2. n = Len(out) + 2
        BY <3>1
      <4> HIDE DEF n
      <4> QED
        BY <4>1, <4>2, <3>1
    <3> QED
      BY <3>1, <3>3, <3>4
  <2> HIDE DEF n
  <2>3. \A k \in Positions({"error", "done"})' : k = n \/ (k = n - 1 /\ c.type = "error" /\ b.type = "done")
    BY <1>1, <1>4, <2>2 DEF Positions
  <2>4. n \in Positions({"error", "done"})'
    BY <2>2 DEF Positions
  <2>5. reason # "none" => c.type = "usage"
    BY <1>4 DEF Chunk
  <2>6. n > 1 /\ n - 1 + 1 = n
    BY <2>2
  <2>7. VerdictInv'
    BY <2>2, <2>3, <2>4, <2>5, <2>6, <1>2 DEF VerdictInv, n
  <2> QED
    BY <1>1, <1>4, <2>1, <2>2, <2>7
<1> QED
  BY <1>3, <1>4

-----------------------------------------------------------------------------
LEMMA NothingMore == ASSUME out \in Seq(OutChunk) PROVE out = out \o <<>> /\ <<>> \in Seq(OutChunk)
BY ConcatEmptySeq, EmptySeq

LEMMA ChunkKinds ==
  /\ \A t \in {"text", "usage", "error", "done"} : Chunk(t) \in Plain /\ Chunk(t).type = t
  /\ Plain \subseteq OutChunk /\ \A c \in Plain : c.type # "tool_call"
BY DEF Chunk, Plain, OutChunk

\* The ends of send: a verdict, or a text or an error before a done, or what the body ends with
LEMMA EndsWell ==
  ASSUME AdapterInv, NEW a, NEW b, send_at # "over", Ends(a \o <<b>>), UNCHANGED <<reason, open_calls, unnamed, said>>,
         api' = api \/ send_at = "new",
         a = <<>> \/ \E c \in Plain : a = <<c>>, b \in Plain,
         b.type \in {"error", "done"},
         reason # "none" => a = <<Chunk("usage")>>, reason = "length" => b.type = "error",
         \A c : a = <<c>> /\ c.type \in {"error", "done"} => c.type = "error" /\ b.type = "done"
  PROVE  AdapterInv'
<1> DEFINE cs == a \o <<b>>
<1>1. VerdictInv' /\ out' \in Seq(OutChunk) /\ cs \in Seq(OutChunk) /\ CallsIn(cs) = {}
  BY GivesVerdict DEF CallsIn
<1>2. out' = out \o cs /\ send_at' = "over"
  BY DEF Ends
<1> HIDE DEF cs
<1>3. YieldedInv'
  BY <1>1, <1>2, NoCallYielded, SaidStays
<1>4. AdapterType'
  BY <1>1 DEF AdapterInv, AdapterType, SaidType
<1>5. EntriesInv'
  <2>1. send_at = "new" => /\ open_calls = NoCalls /\ DOMAIN open_calls = {}
                           /\ DOMAIN said.calls = {} /\ said.closed = {}
    BY DEF AdapterInv, AdapterType, SaidType, EntriesInv, NoCalls
  <2> QED
    BY <1>2, <2>1 DEF AdapterInv, EntriesInv, Streaming
<1> QED
  BY <1>1, <1>3, <1>4, <1>5 DEF AdapterInv

LEMMA Tuples ==
  ASSUME NEW c, NEW b
  PROVE  <<>> \o <<b>> = <<b>> /\ <<c>> \o <<b>> = <<c, b>>
<1> DEFINE S == {c, b}
<1>1. <<b>> \in Seq(S) /\ <<c>> \in Seq(S) /\ <<c, b>> \in Seq(S) /\ Len(<<c, b>>) = 2
  OBVIOUS
<1>2. <<>> \o <<b>> = <<b>>
  BY <1>1, ConcatEmptySeq
<1>3. /\ <<c>> \o <<b>> \in Seq(S) /\ Len(<<c>> \o <<b>>) = 2
      /\ (<<c>> \o <<b>>)[1] = c /\ (<<c>> \o <<b>>)[2] = b
  BY <1>1, ConcatProperties
<1>4. <<c>> \o <<b>> = <<c, b>>
  <2> DEFINE s == <<c>> \o <<b>>
             t == <<c, b>>
  <2>1. s \in Seq(S) /\ t \in Seq(S) /\ Len(s) = Len(t) /\ \A i \in 1..Len(s) : s[i] = t[i]
    BY <1>1, <1>3
  <2> HIDE DEF s, t, S
  <2>2. s = t
    BY <2>1, SeqEqual
  <2> QED
    BY <2>2 DEF s, t
<1> QED
  BY <1>2, <1>4

LEMMA SendKeeps == ASSUME AdapterInv, NEW a \in Apis, SendStarts(a) PROVE AdapterInv'
<1>1. send_at = "new" /\ UNCHANGED <<open_calls, unnamed, reason, said>> /\ reason = "none" /\ send_at # "over"
  BY DEF SendStarts, AdapterInv, VerdictInv, entryVars
<1>2. CASE Ends(Failure)
  <2>1. Ends(<<>> \o <<Chunk("error")>>)
    BY <1>2, Tuples DEF Failure
  <2> QED
    BY <1>1, <2>1, ChunkKinds, EndsWell, EmptySeq
<1>3. CASE Ends(<<Chunk("text"), Chunk("done")>>)
  <2>1. Ends(<<Chunk("text")>> \o <<Chunk("done")>>)
    BY <1>3, Tuples
  <2> QED
    BY <1>1, <2>1, ChunkKinds, EndsWell
<1>4. CASE send_at' = (IF a \in {"anthropic", "openai"} THEN "posted" ELSE "reading") /\ out' = out
  <2>1. out' = out \o <<>> /\ <<>> \in Seq(OutChunk) /\ DOMAIN <<>> = {} /\ out \in Seq(OutChunk)
    BY <1>4, NothingMore, EmptySeq DEF AdapterInv, AdapterType, SaidType
  <2>2. VerdictInv'
    BY <1>1, <1>4, <2>1, GoesOn
  <2>3. YieldedInv'
    BY <1>1, <2>1, NoCallYielded, SaidStays DEF CallsIn
  <2>4. AdapterType'
    BY <1>1, <2>1, <1>4 DEF AdapterInv, AdapterType, SaidType
  <2>5. /\ open_calls = NoCalls /\ DOMAIN open_calls = {}
        /\ DOMAIN said.calls = {} /\ said.closed = {} /\ said.lost = {}
    BY <1>1 DEF AdapterInv, AdapterType, SaidType, EntriesInv, NoCalls
  <2>6. EntriesInv'
    BY <1>1, <1>4, <2>5 DEF EntriesInv
  <2> QED
    BY <2>2, <2>3, <2>4, <2>6 DEF AdapterInv
<1> QED
  BY <1>2, <1>3, <1>4 DEF SendStarts

\* The request and its answer are on the way, the reply is cancelled, or send raises
LEMMA SendingKeeps ==
  ASSUME AdapterInv, AskAgain \/ SecondRaises \/ RequestAnswered \/ CancelSend \/ BodyRaises
  PROVE  AdapterInv'
<1>1. /\ UNCHANGED <<open_calls, unnamed, reason, said, api>> /\ send_at # "over" /\ send_at' # "over"
      /\ send_at' \in {"new", "posted", "posted again"} => send_at = "posted" /\ send_at' = "posted again"
  BY DEF AskAgain, SecondRaises, RequestAnswered, CancelSend, BodyRaises, entryVars
<1>2. out' = out \o <<>> \/ out' = out \o <<Chunk("text")>>
  BY NothingMore DEF AskAgain, SecondRaises, RequestAnswered, CancelSend, BodyRaises, AdapterInv, AdapterType, SaidType
<1>3. PICK cs \in Seq(OutChunk) : out' = out \o cs /\ \A k \in DOMAIN cs : cs[k].type = "text"
  <2>1. <<>> \in Seq(OutChunk) /\ DOMAIN <<>> = {}
    BY EmptySeq
  <2>2. <<Chunk("text")>> \in Seq(OutChunk) /\ \A k \in DOMAIN <<Chunk("text")>> : <<Chunk("text")>>[k].type = "text"
    BY ChunkKinds
  <2> QED
    BY <1>2, <2>1, <2>2
<1>4. VerdictInv'
  <2>1. send_at' \in {"new", "posted", "posted again"} => reason' = "none"
    BY <1>1 DEF AdapterInv, VerdictInv
  <2> QED
    BY <1>1, <1>3, <2>1, GoesOn
<1>5. YieldedInv'
  BY <1>1, <1>3, NoCallYielded, SaidStays DEF CallsIn
<1>6. out' \in Seq(OutChunk)
  BY <1>3, ChunksMore DEF AdapterInv, AdapterType, SaidType
<1>7. AdapterType' /\ EntriesInv'
  BY <1>1, <1>6 DEF AdapterInv, AdapterType, SaidType, EntriesInv, Streaming
<1> QED
  BY <1>4, <1>5, <1>7 DEF AdapterInv

\* send ends without the end of the body
LEMMA FailureKeeps == ASSUME AdapterInv, RequestFails \/ ErrorLine \/ SdkFails PROVE AdapterInv'
<1>1. UNCHANGED <<api, open_calls, unnamed, reason, said>> /\ send_at # "over" /\ reason = "none"
  BY DEF RequestFails, ErrorLine, SdkFails, Reading, AdapterInv, VerdictInv, entryVars
<1>2. CASE Ends(Failure)
  <2>1. Ends(<<>> \o <<Chunk("error")>>)
    BY <1>2, Tuples DEF Failure
  <2> QED
    BY <1>1, <2>1, ChunkKinds, EndsWell, EmptySeq
<1>3. CASE Ends(<<Chunk("error"), Chunk("done")>>)
  <2>1. Ends(<<Chunk("error")>> \o <<Chunk("done")>>)
    BY <1>3, Tuples
  <2> QED
    BY <1>1, <2>1, ChunkKinds, EndsWell
<1> QED
  BY <1>2, <1>3 DEF RequestFails, ErrorLine, SdkFails

LEMMA BodyKeeps == ASSUME AdapterInv, BodyEnds PROVE AdapterInv'
<1>1. UNCHANGED <<api, open_calls, unnamed, reason, said>> /\ send_at = "reading" /\ send_at' = "over"
  BY DEF BodyEnds, Ends, entryVars
<1>2. CASE Unfinished
  <2>1. out' = out \o <<>> /\ <<>> \in Seq(OutChunk) /\ DOMAIN <<>> = {} /\ out \in Seq(OutChunk) /\ out' = out
    BY <1>2, NothingMore, EmptySeq DEF BodyEnds, Ends, AdapterInv, AdapterType, SaidType
  <2>2. Positions({"error", "done"})' = {} /\ Unfinished' /\ reason = "none"
    BY <1>1, <1>2, <2>1 DEF AdapterInv, VerdictInv, Positions, Unfinished
  <2>3. VerdictInv'
    BY <1>1, <2>2 DEF VerdictInv
  <2>4. YieldedInv'
    BY <1>1, <2>1, NoCallYielded, SaidStays DEF CallsIn
  <2>5. AdapterType' /\ EntriesInv'
    BY <1>1, <2>1 DEF AdapterInv, AdapterType, SaidType, EntriesInv, Streaming
  <2> QED
    BY <2>3, <2>4, <2>5 DEF AdapterInv
<1>3. CASE ~Unfinished /\ reason = "length"
  <2>1. Ends(<<Chunk("usage")>> \o <<Chunk("error")>>)
    BY <1>3 DEF BodyEnds, Failure
  <2> QED
    BY <1>1, <1>3, <2>1, ChunkKinds, EndsWell
<1>4. CASE ~Unfinished /\ reason # "length"
  <2>1. Ends(<<Chunk("usage")>> \o <<Chunk("done")>>)
    BY <1>4 DEF BodyEnds
  <2> QED
    BY <1>1, <1>4, <2>1, ChunkKinds, EndsWell
<1> QED
  BY <1>2, <1>3, <1>4

\* The answer goes on
LEMMA AnswerKeeps ==
  ASSUME AdapterInv, NEW cs \in Seq(OutChunk), out' = out \o cs, send_at = "reading", send_at' = "reading",
         \A k \in DOMAIN cs : cs[k].type \notin {"error", "done"}, ClosesCalls(cs),
         SaidType', EntriesInv'
  PROVE  AdapterInv'
<1>1. VerdictInv'
  BY GoesOn
<1>2. YieldedInv'
  BY CallsYielded
<1>3. out' \in Seq(OutChunk)
  BY ChunksMore DEF AdapterInv, AdapterType, SaidType
<1>4. AdapterType'
  BY <1>3 DEF AdapterInv, AdapterType, SaidType
<1> QED
  BY <1>1, <1>2, <1>4 DEF AdapterInv

LEMMA OneMoreChunk ==
  ASSUME AdapterInv, NEW c \in OutChunk, c.type \notin {"error", "done"}, out' = Append(out, c)
  PROVE  /\ <<c>> \in Seq(OutChunk) /\ out' = out \o <<c>>
         /\ \A k \in DOMAIN <<c>> : <<c>>[k] = c
         /\ CallsIn(<<c>>) = IF c.type = "tool_call" THEN {1} ELSE {}
<1>1. <<c>> \in Seq(OutChunk) /\ out \in Seq(OutChunk) /\ DOMAIN <<c>> = {1} /\ <<c>>[1] = c
  BY DEF AdapterInv, AdapterType, SaidType
<1>2. out' = out \o <<c>>
  BY <1>1, AppendIsConcat
<1> QED
  BY <1>1, <1>2 DEF CallsIn

\* One more fragment, or one more call
LEMMA WithEntries ==
  ASSUME NEW f, Entries(f), NEW i \in CallIndexes, NEW n \in Nat
  PROVE  /\ Entries(With(f, i, n)) /\ DOMAIN With(f, i, n) = DOMAIN f \cup {i}
         /\ With(f, i, n)[i] = n /\ \A j \in DOMAIN f : j # i => With(f, i, n)[j] = f[j]
BY DEF Entries, With

LEMMA TextKeeps == ASSUME AdapterInv, TextDelta PROVE AdapterInv'
<1>1. SaidType /\ EntriesInv
  BY DEF AdapterInv, AdapterType
<1>2. /\ DOMAIN said' = DOMAIN said /\ UNCHANGED <<said.calls, said.closed, said.lost, said.form>>
      /\ said'.events = said.events + 1
  BY <1>1 DEF TextDelta, Heard, SaidType
<1>3. UNCHANGED <<api, send_at, open_calls, unnamed, reason>> /\ send_at = "reading"
  BY DEF TextDelta, Reading, entryVars
<1>4. Chunk("text") \in OutChunk /\ Chunk("text").type = "text"
  BY ChunkKinds
<1>5. /\ <<Chunk("text")>> \in Seq(OutChunk) /\ out' = out \o <<Chunk("text")>>
      /\ CallsIn(<<Chunk("text")>>) = {}
      /\ \A k \in DOMAIN <<Chunk("text")>> : <<Chunk("text")>>[k].type \notin {"error", "done"}
  BY <1>4, OneMoreChunk DEF TextDelta
<1>6. ClosesCalls(<<Chunk("text")>>)
  BY <1>2, <1>5 DEF ClosesCalls, ClosedStay
<1>7. SaidType'
  BY <1>1, <1>2, <1>3 DEF SaidType
<1>8. EntriesInv'
  <2>1. said'.events # 0
    BY <1>1, <1>2 DEF SaidType
  <2> QED
    BY <1>1, <1>2, <1>3, <2>1 DEF EntriesInv, Streaming, PartsOf
<1> QED
  BY <1>3, <1>5, <1>6, <1>7, <1>8, AnswerKeeps

\* One more fragment: what has been said has it, and the entry if the adapter has seen it
LEMMA MoreSaid ==
  ASSUME SaidType, NEW i \in CallIndexes
  PROVE  \A n \in Nat :
              /\ Entries(With(said.calls, i, n)) /\ DOMAIN With(said.calls, i, n) = DOMAIN said.calls \cup {i}
              /\ With(said.calls, i, n)[i] = n
              /\ \A j \in DOMAIN said.calls : j # i => With(said.calls, i, n)[j] = said.calls[j]
              /\ Entries(With(open_calls, i, n)) /\ DOMAIN With(open_calls, i, n) = DOMAIN open_calls \cup {i}
              /\ With(open_calls, i, n)[i] = n
              /\ \A j \in DOMAIN open_calls : j # i => With(open_calls, i, n)[j] = open_calls[j]
<1>1. Entries(said.calls) /\ Entries(open_calls)
  BY DEF SaidType
<1> SUFFICES ASSUME NEW n \in Nat
             PROVE  /\ Entries(With(said.calls, i, n)) /\ DOMAIN With(said.calls, i, n) = DOMAIN said.calls \cup {i}
                    /\ With(said.calls, i, n)[i] = n
                    /\ \A j \in DOMAIN said.calls : j # i => With(said.calls, i, n)[j] = said.calls[j]
                    /\ Entries(With(open_calls, i, n)) /\ DOMAIN With(open_calls, i, n) = DOMAIN open_calls \cup {i}
                    /\ With(open_calls, i, n)[i] = n
                    /\ \A j \in DOMAIN open_calls : j # i => With(open_calls, i, n)[j] = open_calls[j]
  OBVIOUS
<1>2. /\ Entries(With(said.calls, i, n)) /\ DOMAIN With(said.calls, i, n) = DOMAIN said.calls \cup {i}
      /\ With(said.calls, i, n)[i] = n
      /\ \A j \in DOMAIN said.calls : j # i => With(said.calls, i, n)[j] = said.calls[j]
  BY <1>1, WithEntries, Zenon
<1>3. /\ Entries(With(open_calls, i, n)) /\ DOMAIN With(open_calls, i, n) = DOMAIN open_calls \cup {i}
      /\ With(open_calls, i, n)[i] = n
      /\ \A j \in DOMAIN open_calls : j # i => With(open_calls, i, n)[j] = open_calls[j]
  BY <1>1, WithEntries, Zenon
<1> QED
  BY <1>2, <1>3

LEMMA Counts == ASSUME SaidType, NEW i \in CallIndexes PROVE SaidOf(i) \in Nat /\ EntryOf(i) \in Nat
<1>1. Entries(said.calls) /\ Entries(open_calls)
  BY DEF SaidType
<1> QED
  BY <1>1 DEF SaidOf, EntryOf, Entries

\* The fragments of an open call
LEMMA FragmentKeeps ==
  ASSUME AdapterInv, NEW i \in CallIndexes, CallStarts(i) \/ CallDelta(i)
  PROVE  AdapterInv'
<1>1. SaidType /\ EntriesInv /\ out \in Seq(OutChunk)
  BY DEF AdapterInv, AdapterType
<1>2. UNCHANGED <<api, send_at, out, reason>> /\ send_at = "reading" /\ api \in {"anthropic", "openai"}
      /\ reason = "none" /\ Streaming
  BY DEF CallStarts, CallDelta, Reading, Streaming
<1>3. PICK n \in Nat, m \in Nat :
        /\ said'.calls = With(said.calls, i, n) /\ open_calls' = With(open_calls, i, m)
        /\ DOMAIN said' = DOMAIN said /\ UNCHANGED <<said.closed, said.lost, said.form>>
        /\ said'.events = said.events + 1
        /\ i \notin said.closed /\ unnamed' \subseteq said.lost
        /\ IF i \in said.lost THEN m < n ELSE m = n
  <2>1. CASE CallStarts(i)
    <3>1. /\ said'.calls = With(said.calls, i, 0) /\ open_calls' = With(open_calls, i, 0)
          /\ DOMAIN said' = DOMAIN said /\ UNCHANGED <<said.closed, said.lost, said.form>>
          /\ said'.events = said.events + 1
          /\ i \notin said.closed /\ i \notin said.lost /\ unnamed' \subseteq said.lost
      BY <2>1, <1>1 DEF CallStarts, Heard, SaidType
    <3> QED
      BY <3>1
  <2>2. CASE CallDelta(i)
    <3>1. SaidOf(i) \in Nat /\ EntryOf(i) \in Nat
      BY <1>1, Counts
    <3>2. i \notin said.closed /\ (i \in DOMAIN said.calls \ DOMAIN open_calls => i \in said.lost)
      BY <2>2, <1>1, <1>2 DEF CallDelta, EntriesInv
    <3>3. IF i \in said.lost THEN EntryOf(i) < SaidOf(i) ELSE EntryOf(i) = SaidOf(i)
      <4>1. CASE i \in DOMAIN open_calls
        BY <1>1, <1>2, <4>1 DEF EntryOf, SaidOf, EntriesInv, PartsOf, SaidType
      <4>2. CASE i \notin DOMAIN open_calls
        BY <1>1, <1>2, <3>2, <4>2 DEF EntryOf, SaidOf, EntriesInv, SaidType
      <4> QED
        BY <4>1, <4>2
    <3>4. /\ said'.calls = With(said.calls, i, SaidOf(i) + 1) /\ DOMAIN said' = DOMAIN said
          /\ UNCHANGED <<said.closed, said.lost, said.form>> /\ said'.events = said.events + 1
          /\ open_calls' = With(open_calls, i, EntryOf(i) + 1)
      BY <2>2, <1>1 DEF CallDelta, Heard, SaidType
    <3>5. unnamed' \subseteq said.lost
      BY <2>2, <1>1, <3>2 DEF CallDelta, SaidType
    <3>6. IF i \in said.lost THEN EntryOf(i) + 1 < SaidOf(i) + 1 ELSE EntryOf(i) + 1 = SaidOf(i) + 1
      BY <3>1, <3>3
    <3>7. SaidOf(i) + 1 \in Nat /\ EntryOf(i) + 1 \in Nat
      BY <3>1
    <3> QED
      BY <3>2, <3>4, <3>5, <3>6, <3>7
  <2> QED
    BY <2>1, <2>2
<1>4. /\ Entries(said'.calls) /\ Entries(open_calls')
      /\ DOMAIN said'.calls = DOMAIN said.calls \cup {i} /\ DOMAIN open_calls' = DOMAIN open_calls \cup {i}
      /\ said'.calls[i] = n /\ open_calls'[i] = m
      /\ \A j \in DOMAIN said.calls : j # i => said'.calls[j] = said.calls[j]
      /\ \A j \in DOMAIN open_calls : j # i => open_calls'[j] = open_calls[j]
  <2>1. /\ Entries(With(said.calls, i, n)) /\ DOMAIN With(said.calls, i, n) = DOMAIN said.calls \cup {i}
        /\ With(said.calls, i, n)[i] = n
        /\ \A j \in DOMAIN said.calls : j # i => With(said.calls, i, n)[j] = said.calls[j]
    BY <1>1, MoreSaid, Zenon
  <2>2. /\ Entries(With(open_calls, i, m)) /\ DOMAIN With(open_calls, i, m) = DOMAIN open_calls \cup {i}
        /\ With(open_calls, i, m)[i] = m
        /\ \A j \in DOMAIN open_calls : j # i => With(open_calls, i, m)[j] = open_calls[j]
    BY <1>1, MoreSaid, Zenon
  <2> QED
    BY <2>1, <2>2, <1>3
<1>5. SaidType'
  BY <1>1, <1>3, <1>4 DEF SaidType
<1>6. EntriesInv'
  <2>1. \A j \in DOMAIN open_calls' : PartsOf(said', j, open_calls'[j]) /\ j \notin said'.closed
    <3> SUFFICES ASSUME NEW j \in DOMAIN open_calls' PROVE PartsOf(said', j, open_calls'[j]) /\ j \notin said'.closed
      OBVIOUS
    <3>1. CASE j = i
      BY <1>3, <1>4, <3>1 DEF PartsOf
    <3>2. CASE j # i
      <4>1. j \in DOMAIN open_calls /\ j \in DOMAIN said.calls /\ PartsOf(said, j, open_calls[j]) /\ j \notin said.closed
        BY <1>1, <1>2, <1>4, <3>2 DEF EntriesInv, SaidType
      <4> QED
        BY <1>3, <1>4, <3>2, <4>1 DEF PartsOf
    <3> QED
      BY <3>1, <3>2
  <2>2. \A j \in said'.lost : said'.calls[j] > 0
    <3>1. \A j \in said.lost : j # i => said'.calls[j] > 0
      BY <1>1, <1>2, <1>4 DEF EntriesInv, SaidType
    <3>2. i \in said.lost => n > 0
      BY <1>3
    <3> QED
      BY <1>3, <1>4, <3>1, <3>2
  <2>3. api = "openai" => said.closed = {} /\ DOMAIN said.calls \ said.lost \subseteq DOMAIN open_calls
    BY <1>1, <1>2 DEF EntriesInv
  <2>4. said'.events # 0
    BY <1>1, <1>3 DEF SaidType
  <2> QED
    BY <2>1, <2>2, <2>3, <2>4, <1>2, <1>3, <1>4 DEF EntriesInv
<1>7. out' = out \o <<>> /\ <<>> \in Seq(OutChunk) /\ DOMAIN <<>> = {}
  BY <1>1, <1>2, NothingMore, EmptySeq
<1>8. ClosedStay
  BY <1>1, <1>3, <1>4 DEF ClosedStay, SaidType
<1>9. ClosesCalls(<<>>)
  BY <1>3, <1>7, <1>8 DEF ClosesCalls, CallsIn
<1> QED
  BY <1>2, <1>5, <1>6, <1>7, <1>9, AnswerKeeps

\* A fragment the adapter does not see
LEMMA HiddenKeeps == ASSUME AdapterInv, NEW i \in CallIndexes, HiddenDelta(i) PROVE AdapterInv'
<1>1. SaidType /\ EntriesInv /\ out \in Seq(OutChunk)
  BY DEF AdapterInv, AdapterType
<1>2. UNCHANGED <<api, send_at, out, open_calls, unnamed, reason>> /\ send_at = "reading" /\ api = "openai"
      /\ reason = "none" /\ Streaming
  BY DEF HiddenDelta, Reading, Streaming, entryVars
<1>3. said.closed = {} /\ DOMAIN said.calls \ said.lost \subseteq DOMAIN open_calls
  BY <1>1, <1>2 DEF EntriesInv
<1>4. /\ said'.calls = With(said.calls, i, SaidOf(i) + 1) /\ DOMAIN said' = DOMAIN said
      /\ UNCHANGED <<said.closed, said.form>> /\ said'.events = said.events + 1
      /\ said'.lost = said.lost \cup {i}
  BY <1>1 DEF HiddenDelta, Heard, SaidType
<1>5. SaidOf(i) \in Nat /\ SaidOf(i) + 1 \in Nat
  BY <1>1, Counts
<1>6. /\ Entries(said'.calls) /\ DOMAIN said'.calls = DOMAIN said.calls \cup {i}
      /\ said'.calls[i] = SaidOf(i) + 1
      /\ \A j \in DOMAIN said.calls : j # i => said'.calls[j] = said.calls[j]
  <2> DEFINE n == SaidOf(i) + 1
  <2>1. n \in Nat
    BY <1>5
  <2> HIDE DEF n
  <2>2. /\ Entries(With(said.calls, i, n)) /\ DOMAIN With(said.calls, i, n) = DOMAIN said.calls \cup {i}
        /\ With(said.calls, i, n)[i] = n
        /\ \A j \in DOMAIN said.calls : j # i => With(said.calls, i, n)[j] = said.calls[j]
    BY <1>1, <2>1, MoreSaid, Zenon
  <2>3. said'.calls = With(said.calls, i, n) /\ n = SaidOf(i) + 1
    BY <1>4 DEF n
  <2> QED
    BY <2>2, <2>3
<1>7. SaidType'
  BY <1>1, <1>2, <1>4, <1>6 DEF SaidType
<1>8. EntriesInv'
  <2>1. \A j \in DOMAIN open_calls : PartsOf(said', j, open_calls[j]) /\ j \notin said'.closed
    <3> SUFFICES ASSUME NEW j \in DOMAIN open_calls PROVE PartsOf(said', j, open_calls[j]) /\ j \notin said'.closed
      OBVIOUS
    <3>1. /\ PartsOf(said, j, open_calls[j]) /\ j \in DOMAIN said.calls
          /\ open_calls[j] \in Nat /\ said.calls[j] \in Nat
      BY <1>1, <1>2 DEF EntriesInv, SaidType, Entries
    <3>2. CASE j = i
      BY <1>4, <1>5, <1>6, <1>3, <3>1, <3>2 DEF PartsOf, SaidOf
    <3>3. CASE j # i
      BY <1>3, <1>4, <1>6, <3>1, <3>3 DEF PartsOf
    <3> QED
      BY <3>2, <3>3
  <2>2. \A j \in said'.lost : said'.calls[j] > 0
    <3>1. \A j \in said.lost : j # i => said'.calls[j] > 0
      BY <1>1, <1>2, <1>6 DEF EntriesInv, SaidType
    <3>2. said'.calls[i] > 0
      BY <1>5, <1>6
    <3> QED
      BY <1>4, <3>1, <3>2
  <2>3. said'.events # 0
    BY <1>1, <1>4 DEF SaidType
  <2> QED
    BY <2>1, <2>2, <2>3, <1>2, <1>3, <1>4, <1>6 DEF EntriesInv
<1>9. out' = out \o <<>> /\ <<>> \in Seq(OutChunk) /\ DOMAIN <<>> = {}
  BY <1>1, <1>2, NothingMore, EmptySeq
<1>10. ClosesCalls(<<>>)
  BY <1>3, <1>4, <1>9 DEF ClosesCalls, ClosedStay, CallsIn
<1> QED
  BY <1>2, <1>7, <1>8, <1>9, <1>10, AnswerKeeps

\* The form of the body is seen, or the reason is not
LEMMA FormKeeps == ASSUME AdapterInv, MessageStarts \/ HiddenReason PROVE AdapterInv'
<1>1. SaidType /\ EntriesInv /\ out \in Seq(OutChunk)
  BY DEF AdapterInv, AdapterType
<1>2. UNCHANGED <<api, send_at, out, open_calls, unnamed, reason>> /\ send_at = "reading"
      /\ reason = "none" /\ Streaming
  BY DEF MessageStarts, HiddenReason, Reading, Streaming, entryVars
<1>3. out' = out \o <<>> /\ <<>> \in Seq(OutChunk) /\ DOMAIN <<>> = {}
  BY <1>1, <1>2, NothingMore, EmptySeq
<1>4. CASE MessageStarts
  <2>1. /\ DOMAIN said' = DOMAIN said /\ UNCHANGED <<said.calls, said.closed, said.lost, said.events>>
        /\ said'.form = "started" /\ api = "anthropic"
    BY <1>1, <1>4 DEF MessageStarts, SaidType
  <2>2. SaidType'
    BY <1>1, <1>2, <2>1 DEF SaidType
  <2>3. EntriesInv'
    BY <1>1, <1>2, <2>1 DEF EntriesInv, Streaming, PartsOf
  <2>4. ClosesCalls(<<>>)
    BY <1>3, <2>1 DEF ClosesCalls, ClosedStay, CallsIn
  <2> QED
    BY <1>2, <1>3, <2>2, <2>3, <2>4, AnswerKeeps
<1>5. CASE HiddenReason
  <2>1. /\ DOMAIN said' = DOMAIN said /\ UNCHANGED <<said.calls, said.events>>
        /\ said'.closed = DOMAIN said.calls /\ said'.lost = DOMAIN said.calls
        /\ said'.form = "over" /\ api = "openai"
    BY <1>1, <1>5 DEF HiddenReason, SaidType
  <2>2. SaidType'
    BY <1>1, <1>2, <2>1 DEF SaidType
  <2>3. said.closed = {} /\ ~Streaming'
    BY <1>1, <1>2, <2>1, <1>5 DEF EntriesInv, Streaming, HiddenReason
  <2>4. EntriesInv'
    BY <1>1, <1>2, <2>1, <2>3 DEF EntriesInv
  <2>5. ClosesCalls(<<>>)
    BY <1>3, <2>1, <2>3 DEF ClosesCalls, ClosedStay, CallsIn
  <2> QED
    BY <1>2, <1>3, <2>2, <2>4, <2>5, AnswerKeeps
<1> QED
  BY <1>4, <1>5

\* The calls in a body that is no stream are seen by neither adapter
LEMMA WholeKeeps == ASSUME AdapterInv, NEW calls \in SUBSET CallIndexes, WholeAnswer(calls) PROVE AdapterInv'
<1>1. SaidType /\ EntriesInv /\ out \in Seq(OutChunk)
  BY DEF AdapterInv, AdapterType
<1>2. UNCHANGED <<api, send_at, open_calls, unnamed, reason>> /\ send_at = "reading"
      /\ said.form = "open" /\ said.events = 0
  BY DEF WholeAnswer, Reading, entryVars
<1>3. /\ DOMAIN said' = DOMAIN said /\ said'.calls = [i \in calls |-> 1] /\ UNCHANGED said.events
      /\ said'.closed = calls /\ said'.lost = calls /\ said'.form = "whole"
  BY <1>1 DEF WholeAnswer, SaidType
<1>4. /\ DOMAIN said.calls = {} /\ said.closed = {} /\ said.lost = {} /\ DOMAIN open_calls = {} /\ unnamed = {}
  BY <1>1, <1>2 DEF EntriesInv, SaidType
<1>5. Entries([i \in calls |-> 1]) /\ DOMAIN [i \in calls |-> 1] = calls
  BY DEF Entries
<1>6. SaidType'
  BY <1>1, <1>2, <1>3, <1>4, <1>5 DEF SaidType
<1>7. EntriesInv'
  BY <1>1, <1>2, <1>3 DEF EntriesInv, Streaming
<1>8. PICK cs \in Seq(OutChunk) :
        out' = out \o cs /\ CallsIn(cs) = {} /\ \A k \in DOMAIN cs : cs[k].type \notin {"error", "done"}
  <2>1. <<>> \in Seq(OutChunk) /\ DOMAIN <<>> = {} /\ out = out \o <<>>
    BY <1>1, NothingMore, EmptySeq
  <2>2. CASE out' = out
    BY <2>1, <2>2 DEF CallsIn
  <2>3. CASE out' = Append(out, Chunk("text"))
    <3>1. Chunk("text") \in OutChunk /\ Chunk("text").type = "text"
      BY ChunkKinds
    <3>2. /\ <<Chunk("text")>> \in Seq(OutChunk) /\ out' = out \o <<Chunk("text")>>
          /\ CallsIn(<<Chunk("text")>>) = {}
          /\ \A k \in DOMAIN <<Chunk("text")>> : <<Chunk("text")>>[k].type \notin {"error", "done"}
      BY <2>3, <3>1, OneMoreChunk
    <3> QED
      BY <3>2
  <2> QED
    BY <2>2, <2>3 DEF WholeAnswer
<1>9. ClosesCalls(cs)
  BY <1>3, <1>4, <1>8 DEF ClosesCalls, ClosedStay
<1> QED
  BY <1>2, <1>6, <1>7, <1>8, <1>9, AnswerKeeps

\* A call that is told of whole, or closed
LEMMA CallKeeps ==
  ASSUME AdapterInv, NEW i \in CallIndexes, SdkCall(i) \/ CallStops(i)
  PROVE  AdapterInv'
<1>1. SaidType /\ EntriesInv /\ out \in Seq(OutChunk)
  BY DEF AdapterInv, AdapterType
<1>2. UNCHANGED <<api, send_at, unnamed, reason>> /\ send_at = "reading" /\ api \in {"sdk", "anthropic"}
      /\ open_calls' = NoCalls /\ Streaming
  <2>1. api = "sdk" => open_calls = NoCalls
    BY <1>1 DEF EntriesInv
  <2> QED
    BY <2>1 DEF SdkCall, CallStops, Reading, Streaming, entryVars
<1>3. PICK n \in Nat : /\ out' = Append(out, CallChunk(i, n)) /\ i \notin said.closed
                       /\ DOMAIN said' = DOMAIN said /\ said'.closed = said.closed \cup {i}
                       /\ UNCHANGED <<said.lost, said.form>> /\ said'.events \in Nat
                       /\ Entries(said'.calls) /\ DOMAIN said'.calls = DOMAIN said.calls \cup {i}
                       /\ PartsOf(said', i, n) /\ said'.calls[i] \in Nat
                       /\ said'.events = 0 => said.events = 0 /\ i \in DOMAIN said.calls
                       /\ i \in said.lost => said'.calls[i] > 0
                       /\ \A j \in DOMAIN said.calls : j # i => said'.calls[j] = said.calls[j]
  <2>1. CASE SdkCall(i)
    <3>1. /\ said'.calls = With(said.calls, i, 1) /\ DOMAIN said' = DOMAIN said
          /\ said'.closed = said.closed \cup {i} /\ i \notin said.closed /\ out' = Append(out, CallChunk(i, 1))
          /\ UNCHANGED <<said.lost, said.form>> /\ said'.events = said.events + 1 /\ i \notin said.lost
      BY <2>1, <1>1 DEF SdkCall, Heard, SaidType
    <3>2. /\ Entries(With(said.calls, i, 1)) /\ DOMAIN With(said.calls, i, 1) = DOMAIN said.calls \cup {i}
          /\ With(said.calls, i, 1)[i] = 1
          /\ \A j \in DOMAIN said.calls : j # i => With(said.calls, i, 1)[j] = said.calls[j]
      BY <1>1, MoreSaid, 1 \in Nat, Zenon
    <3>3. PartsOf(said', i, 1)
      BY <3>1, <3>2 DEF PartsOf
    <3>4. said'.events \in Nat /\ said'.events # 0
      BY <1>1, <3>1 DEF SaidType
    <3> QED
      BY <3>1, <3>2, <3>3, <3>4
  <2>2. CASE CallStops(i)
    <3>1. /\ DOMAIN said' = DOMAIN said /\ UNCHANGED <<said.calls, said.lost, said.form, said.events>>
          /\ said'.closed = said.closed \cup {i} /\ out' = Append(out, CallChunk(i, open_calls[i]))
          /\ i \in DOMAIN open_calls
      BY <2>2, <1>1 DEF CallStops, SaidType
    <3>2. /\ open_calls[i] \in Nat /\ PartsOf(said, i, open_calls[i]) /\ i \notin said.closed
          /\ i \in DOMAIN said.calls /\ said.calls[i] \in Nat /\ (i \in said.lost => said.calls[i] > 0)
      BY <3>1, <1>1, <1>2 DEF Entries, EntriesInv, SaidType
    <3>3. PartsOf(said', i, open_calls[i])
      BY <3>1, <3>2 DEF PartsOf
    <3> QED
      BY <3>1, <3>2, <3>3, <1>1 DEF SaidType
  <2> QED
    BY <2>1, <2>2
<1> DEFINE c == CallChunk(i, n)
<1>4. c \in OutChunk /\ c.type = "tool_call" /\ c.index = i /\ c.args = n
  BY DEF CallChunk, OutChunk, CallChunks
<1> HIDE DEF c
<1>5. /\ <<c>> \in Seq(OutChunk) /\ out' = out \o <<c>> /\ CallsIn(<<c>>) = {1} /\ <<c>>[1] = c
      /\ \A k \in DOMAIN <<c>> : <<c>>[k].type \notin {"error", "done"}
  <2>1. c.type \notin {"error", "done"}
    BY <1>4
  <2>2. out' = Append(out, c)
    BY <1>3 DEF c
  <2>3. <<c>> \in Seq(OutChunk) /\ out' = out \o <<c>> /\ CallsIn(<<c>>) = {1} /\ \A k \in DOMAIN <<c>> : <<c>>[k] = c
    BY <1>4, <2>1, <2>2, OneMoreChunk
  <2> QED
    BY <2>1, <2>3
<1>6. ClosedStay
  BY <1>1, <1>3 DEF ClosedStay, SaidType
<1>7. ClosesCalls(<<c>>)
  <2>1. said'.closed \ said.closed = {i}
    BY <1>3
  <2> QED
    BY <1>3, <1>4, <1>5, <1>6, <2>1 DEF ClosesCalls
<1>8. DOMAIN open_calls' = {} /\ Entries(open_calls')
  BY <1>2 DEF NoCalls, Entries
<1>9. EntriesInv'
  <2>1. \A j \in said'.lost : said'.calls[j] > 0
    BY <1>1, <1>2, <1>3 DEF EntriesInv, SaidType
  <2>2. ~(said'.form = "open" /\ said'.events = 0)
    BY <1>1, <1>3 DEF EntriesInv
  <2> QED
    BY <1>2, <1>8, <2>1, <2>2 DEF EntriesInv
<1>10. SaidType'
  BY <1>1, <1>2, <1>3, <1>8 DEF SaidType
<1> QED
  BY <1>2, <1>5, <1>7, <1>9, <1>10, AnswerKeeps

\* The chunks of all open calls that have a name at once, in the order of their indexes
LEMMA AllYielded ==
  ASSUME AdapterInv, NEW closed, closed = DOMAIN open_calls \ unnamed
  PROVE  \E cs \in Seq(OutChunk) :
           /\ YieldedCall(1) \o YieldedCall(2) = cs
           /\ \A k \in DOMAIN cs : cs[k].type = "tool_call" /\ cs[k].index \in closed /\ cs[k].args = open_calls[cs[k].index]
           /\ \A i \in closed : \E k \in DOMAIN cs : cs[k].index = i
           /\ \A j, k \in DOMAIN cs : cs[j].index = cs[k].index => j = k
<1> DEFINE c(i) == CallChunk(i, open_calls[i])
<1>1. Entries(open_calls)
  BY DEF AdapterInv, AdapterType, SaidType
<1>2. \A i \in closed : c(i) \in OutChunk /\ c(i).type = "tool_call" /\ c(i).index = i /\ c(i).args = open_calls[i]
  BY <1>1 DEF Entries, CallChunk, OutChunk, CallChunks
<1>3. closed \subseteq {1, 2}
  BY <1>1 DEF Entries, CallIndexes
<1>4. <<>> \in Seq(OutChunk) /\ DOMAIN <<>> = {} /\ <<>> \o <<>> = <<>>
  BY EmptySeq, ConcatEmptySeq
<1> HIDE DEF c
<1>5. CASE closed = {}
  <2>1. YieldedCall(1) \o YieldedCall(2) = <<>>
    BY <1>4, <1>5 DEF YieldedCall
  <2> QED
    BY <1>4, <1>5, <2>1
<1>6. ASSUME NEW i \in {1, 2}, closed = {i}
      PROVE  \E cs \in Seq(OutChunk) :
               /\ YieldedCall(1) \o YieldedCall(2) = cs
               /\ \A k \in DOMAIN cs : cs[k].type = "tool_call" /\ cs[k].index \in closed /\ cs[k].args = open_calls[cs[k].index]
               /\ \A j \in closed : \E k \in DOMAIN cs : cs[k].index = j
               /\ \A j, k \in DOMAIN cs : cs[j].index = cs[k].index => j = k
  <2>1. <<c(i)>> \in Seq(OutChunk) /\ DOMAIN <<c(i)>> = {1} /\ <<c(i)>>[1] = c(i)
    BY <1>2, <1>6
  <2>2. YieldedCall(1) \o YieldedCall(2) = <<c(i)>>
    <3>1. YieldedCall(i) = <<c(i)>> /\ \A j \in {1, 2} : j # i => YieldedCall(j) = <<>>
      BY <1>6 DEF YieldedCall, c
    <3>2. <<c(i)>> \o <<>> = <<c(i)>> /\ <<>> \o <<c(i)>> = <<c(i)>>
      BY <2>1, ConcatEmptySeq
    <3>3. CASE i = 1
      <4>1. YieldedCall(1) = <<c(i)>> /\ YieldedCall(2) = <<>>
        BY <3>1, <3>3
      <4> QED
        BY <3>2, <4>1
    <3>4. CASE i = 2
      <4>1. YieldedCall(2) = <<c(i)>> /\ YieldedCall(1) = <<>>
        BY <3>1, <3>4
      <4> QED
        BY <3>2, <4>1
    <3> QED
      BY <3>3, <3>4
  <2>3. c(i).type = "tool_call" /\ c(i).index = i /\ c(i).args = open_calls[i]
    BY <1>2, <1>6
  <2> QED
    BY <2>1, <2>2, <2>3, <1>6
<1>7. CASE closed = {1, 2}
  <2> DEFINE cs == <<c(1), c(2)>>
  <2>1. cs \in Seq(OutChunk) /\ DOMAIN cs = {1, 2} /\ cs[1] = c(1) /\ cs[2] = c(2)
    BY <1>2, <1>7
  <2>2. YieldedCall(1) \o YieldedCall(2) = cs
    BY <1>7, Tuples DEF YieldedCall, c
  <2>3. /\ c(1).type = "tool_call" /\ c(1).index = 1 /\ c(1).args = open_calls[1]
        /\ c(2).type = "tool_call" /\ c(2).index = 2 /\ c(2).args = open_calls[2]
    BY <1>2, <1>7
  <2> HIDE DEF cs
  <2>4. \A k \in DOMAIN cs : cs[k].type = "tool_call" /\ cs[k].index \in closed /\ cs[k].args = open_calls[cs[k].index]
    BY <2>1, <2>3, <1>7
  <2>5. \A i \in closed : \E k \in DOMAIN cs : cs[k].index = i
    BY <2>1, <2>3, <1>7
  <2>6. \A j, k \in DOMAIN cs : cs[j].index = cs[k].index => j = k
    BY <2>1, <2>3
  <2> QED
    BY <2>1, <2>2, <2>4, <2>5, <2>6
<1> QED
  BY <1>3, <1>5, <1>6, <1>7

LEMMA ReasonKeeps == ASSUME AdapterInv, NEW r, ReasonSeen(r) PROVE AdapterInv'
<1>1. SaidType /\ EntriesInv /\ out \in Seq(OutChunk) /\ Entries(open_calls)
  BY DEF AdapterInv, AdapterType, SaidType
<1>2. UNCHANGED <<api, send_at>> /\ send_at = "reading" /\ reason = "none" /\ reason' = r /\ r \in Reasons[api]
      /\ Streaming
  BY DEF ReasonSeen, Reading, Streaming
<1>3. CASE api = "openai" /\ r = "tool_calls"
  <2> DEFINE named == DOMAIN open_calls \ unnamed
  <2>1. /\ out' = out \o YieldedCall(1) \o YieldedCall(2) /\ DOMAIN said' = DOMAIN said
        /\ UNCHANGED <<said.calls, said.lost, said.form, said.events>>
        /\ said'.closed = DOMAIN said.calls /\ open_calls' = NoCalls /\ unnamed' = {}
    BY <1>1, <1>3 DEF ReasonSeen, SaidType
  <2>2. /\ said.closed = {} /\ DOMAIN said.calls \ said.lost \subseteq named /\ named \subseteq DOMAIN said.calls
        /\ \A i \in named : PartsOf(said, i, open_calls[i])
    BY <1>1, <1>2, <1>3 DEF EntriesInv, SaidType
  <2>3. PICK cs \in Seq(OutChunk) :
          /\ YieldedCall(1) \o YieldedCall(2) = cs
          /\ \A k \in DOMAIN cs : cs[k].type = "tool_call" /\ cs[k].index \in named
                                  /\ cs[k].args = open_calls[cs[k].index]
          /\ \A i \in named : \E k \in DOMAIN cs : cs[k].index = i
          /\ \A j, k \in DOMAIN cs : cs[j].index = cs[k].index => j = k
    BY AllYielded
  <2>4. out' = out \o cs
    <3>1. \A i \in {1, 2} : YieldedCall(i) \in Seq(OutChunk)
      <4>1. \A i \in DOMAIN open_calls : CallChunk(i, open_calls[i]) \in OutChunk
        BY <1>1 DEF Entries, CallChunk, OutChunk, CallChunks
      <4> QED
        BY <4>1, EmptySeq DEF YieldedCall
    <3>2. YieldedCall(1) \in Seq(OutChunk) /\ YieldedCall(2) \in Seq(OutChunk)
      BY <3>1
    <3>3. (out \o YieldedCall(1)) \o YieldedCall(2) = out \o (YieldedCall(1) \o YieldedCall(2))
      <4>1. PICK t \in Seq(OutChunk) : t = YieldedCall(1)
        BY <3>2
      <4>2. PICK u \in Seq(OutChunk) : u = YieldedCall(2)
        BY <3>2
      <4>3. (out \o t) \o u = out \o (t \o u)
        BY <1>1, ConcatAssociative
      <4> QED
        BY <4>1, <4>2, <4>3
    <3> QED
      BY <3>3, <2>1, <2>3
  <2>5. CallsIn(cs) = DOMAIN cs /\ \A k \in DOMAIN cs : cs[k].type \notin {"error", "done"}
    BY <2>3 DEF CallsIn
  <2> HIDE DEF named
  <2>6. ClosesCalls(cs)
    <3>1. \A k \in DOMAIN cs : PartsOf(said', cs[k].index, cs[k].args)
      <4>1. \A i \in named : PartsOf(said', i, open_calls[i])
        BY <2>1, <2>2 DEF PartsOf
      <4> QED
        BY <4>1, <2>3
    <3> QED
      BY <2>1, <2>2, <2>3, <2>5, <3>1 DEF ClosesCalls, ClosedStay
  <2>7. DOMAIN open_calls' = {} /\ Entries(open_calls')
    BY <2>1 DEF NoCalls, Entries
  <2>8. EntriesInv'
    BY <1>1, <1>2, <1>3, <2>1, <2>7 DEF EntriesInv, Streaming, Reasons
  <2>9. SaidType'
    BY <1>1, <2>1, <2>7 DEF SaidType
  <2> QED
    BY <1>2, <2>4, <2>5, <2>6, <2>8, <2>9, AnswerKeeps
<1>4. CASE ~(api = "openai" /\ r = "tool_calls")
  <2>1. UNCHANGED <<out, said, open_calls, unnamed>>
    BY <1>4 DEF ReasonSeen, entryVars
  <2>2. out' = out \o <<>> /\ <<>> \in Seq(OutChunk) /\ DOMAIN <<>> = {}
    BY <1>1, <2>1, NothingMore, EmptySeq
  <2>3. ClosesCalls(<<>>)
    BY <2>1, <2>2, SaidStays DEF ClosesCalls, CallsIn
  <2>4. EntriesInv' /\ SaidType'
    BY <1>1, <1>2, <2>1 DEF EntriesInv, Streaming, SaidType
  <2> QED
    BY <1>2, <2>2, <2>3, <2>4, AnswerKeeps
<1> QED
  BY <1>3, <1>4

LEMMA AdapterStep == ASSUME AdapterInv, [AdapterNext]_adapterVars PROVE AdapterInv'
<1>1. CASE UNCHANGED adapterVars
  <2>1. AdapterType' /\ EntriesInv'
    BY <1>1 DEF adapterVars, AdapterInv, AdapterType, SaidType, EntriesInv, Streaming
  <2>2. YieldedInv'
    BY <1>1 DEF adapterVars, AdapterInv, YieldedInv, Positions
  <2>3. Positions({"error", "done"})' = Positions({"error", "done"}) /\ Unfinished' = Unfinished
    BY <1>1 DEF adapterVars, Positions, Unfinished
  <2>4. VerdictInv'
    BY <1>1, <2>3 DEF adapterVars, AdapterInv, VerdictInv
  <2> QED
    BY <2>1, <2>2, <2>4 DEF AdapterInv
<1>2. CASE \E a \in Apis : SendStarts(a)
  BY <1>2, SendKeeps
<1>3. CASE RequestFails \/ AskAgain \/ SecondRaises \/ RequestAnswered
  BY <1>3, FailureKeeps, SendingKeeps
<1>4. CASE \/ MessageStarts \/ TextDelta \/ HiddenReason \/ BodyEnds \/ BodyRaises \/ ErrorLine \/ SdkFails
             \/ CancelSend
  BY <1>4, FormKeeps, TextKeeps, BodyKeeps, FailureKeeps, SendingKeeps
<1>5. CASE \E i \in CallIndexes : SdkCall(i) \/ CallStarts(i) \/ CallDelta(i) \/ HiddenDelta(i) \/ CallStops(i)
  BY <1>5, CallKeeps, FragmentKeeps, HiddenKeeps
<1>7. CASE \E calls \in SUBSET CallIndexes : WholeAnswer(calls)
  BY <1>7, WholeKeeps
<1>6. CASE \E r \in {"stop", "tool_calls", "length", "error"} : ReasonSeen(r)
  BY <1>6, ReasonKeeps
<1> QED
  BY <1>1, <1>2, <1>3, <1>4, <1>5, <1>6, <1>7 DEF AdapterNext

\* What is yielded of the calls and of the end agrees with what the model has said.
THEOREM AdapterInvariance == AdapterSpec => []AdapterInv
BY AdapterStarts, AdapterStep, PTL DEF AdapterSpec

\* For any number of events: every finished call is yielded once with all its fragments,
\* and a stream that comes to its end says so last.
THEOREM AdaptersAreSound == AdapterSpec => []AdapterSound
BY AdapterInvariance, AdapterShows, PTL

-----------------------------------------------------------------------------
\* The stream of a subtask.  The invariant says what the browser will show once all
\* events on their way are reduced, and that the row leaves "running" once.

Content == [kind : {"text", "preview", "file", "code", "diff"}, parts : SUBSET (1..MaxChunks),
            note : {"none", "working", "agent_missing", "unavailable", "error", "finished", "cancelled"}]

SubEvent == [t : {"done"}, m : {"bubble"}, content : Content]
            \cup [t : {"chunk"}, m : {"bubble"}, n : 1..MaxChunks]
            \cup [t : {"task"}, status : {"done", "failed"}]

BubbleSlice == [known : {{"bubble"}}, content : [{"bubble"} -> Content], streaming : SUBSET {"bubble"},
                over : BOOLEAN]

SubType ==
  /\ kind \in [page : BOOLEAN, mock : BOOLEAN] /\ parts \subseteq 1..MaxChunks
  /\ artifacts \in {<<>>} \cup {<<k>> : k \in {"preview", "file", "code", "diff"}}
  /\ content \in Content /\ events \in Seq(SubEvent) /\ slice \in BubbleSlice

\* The row leaves "running" once, when the dispatch returns or raises
RowInv ==
  /\ task_row \in {"running", "done", "failed"}
  /\ task_row # "running" => sub_at \in {"returned", "raised", "gave_up"}
  /\ sub_at = "returned" => task_row # "running"

\* Where a message_done has told the content, and after that nothing but the row's status
Announced == sub_at \in {"missing", "marking"} \/ task_row # "running"

Final(c) == c = content \/ content = Web!Text({}, "agent_missing")
Quiet(k) == \A j \in DOMAIN events : j > k => events[j].t = "task"

\* The final content is on its way, as the last the bubble will hear of, or there
ContentInv ==
  Announced =>
    \/ \E k \in DOMAIN events : events[k].t = "done" /\ Final(events[k].content) /\ Quiet(k)
    \/ Final(slice.content["bubble"]) /\ slice.streaming = {} /\ Quiet(0)

\* So is the row's status, as the last event
CardInv ==
  task_row # "running" =>
    IF events = <<>> THEN task_card = task_row ELSE events[Len(events)] = TaskIs(task_row)

SubInv == SubType /\ RowInv /\ ContentInv /\ CardInv

\* What is said of a subtask, and the events that tell it
LEMMA Contents ==
  /\ \A ps \in SUBSET (1..MaxChunks) :
       \A note \in {"none", "working", "agent_missing", "unavailable", "error", "finished", "cancelled"} :
         Web!Text(ps, note) \in Content
  /\ \A k \in {"preview", "file", "code", "diff"} : Card(k) \in Content
  /\ \A c \in Content : Done(c) \in SubEvent /\ Done(c).t = "done" /\ Done(c).content = c
  /\ \A s \in {"done", "failed"} : TaskIs(s) \in SubEvent /\ TaskIs(s).t = "task" /\ TaskIs(s).status = s
BY DEF Content, SubEvent, Web!Text, Card, Done, TaskIs

LEMMA SubStart == SubInit => SubInv
<1> SUFFICES ASSUME SubInit PROVE SubInv
  OBVIOUS
<1>1. events = <<>> /\ events \in Seq(SubEvent) /\ task_row = "running" /\ sub_at = "load"
  BY EmptySeq DEF SubInit
<1>2. Waiting \in Content /\ Web!Blank \in Content
  BY Contents DEF Waiting, Web!Blank
<1>3. slice \in BubbleSlice
  BY <1>2 DEF SubInit, BubbleSlice, Web!EmptySlice
<1>4. SubType
  BY <1>1, <1>2, <1>3 DEF SubInit, SubType
<1> QED
  BY <1>1, <1>4 DEF SubInv, RowInv, ContentInv, CardInv, Announced

\* One more event, and one less
LEMMA SubEventMore ==
  ASSUME events \in Seq(SubEvent), NEW e \in SubEvent, events' = Append(events, e)
  PROVE  /\ events' \in Seq(SubEvent) /\ events' # <<>> /\ events'[Len(events')] = e
         /\ \E k \in DOMAIN events' :
              /\ events'[k] = e /\ \A j \in DOMAIN events' : j > k => events'[j].t = "task"
              /\ \A j \in DOMAIN events' : j = k \/ (j \in DOMAIN events /\ events'[j] = events[j])
         /\ \A j \in DOMAIN events : j \in DOMAIN events' /\ events'[j] = events[j]
<1>1. /\ events' \in Seq(SubEvent) /\ Len(events') = Len(events) + 1 /\ events'[Len(events) + 1] = e
      /\ \A k \in 1..Len(events) : events'[k] = events[k]
  BY AppendProperties
<1>2. Len(events) \in Nat /\ DOMAIN events = 1..Len(events) /\ DOMAIN events' = 1..Len(events')
  BY <1>1, LenProperties
<1>3. events' # <<>>
  BY <1>1, <1>2, EmptySeq
<1>4. \A j \in DOMAIN events' : j = Len(events) + 1 \/ (j \in DOMAIN events /\ events'[j] = events[j])
  BY <1>1, <1>2
<1>5. Len(events) + 1 \in DOMAIN events' /\ \A j \in DOMAIN events' : ~(j > Len(events) + 1)
  BY <1>1, <1>2
<1>6. \A j \in DOMAIN events : j \in DOMAIN events' /\ events'[j] = events[j]
  BY <1>1, <1>2
<1> QED
  BY <1>1, <1>3, <1>4, <1>5, <1>6

LEMMA SubEventLess ==
  ASSUME events \in Seq(SubEvent), events # <<>>, events' = Tail(events)
  PROVE  /\ events' \in Seq(SubEvent) /\ 1 \in DOMAIN events /\ Head(events) = events[1] /\ events[1] \in SubEvent
         /\ \A k \in DOMAIN events' : k \in Nat /\ k > 0 /\ k + 1 \in DOMAIN events /\ events'[k] = events[k + 1]
         /\ \A k \in DOMAIN events : k = 1 \/ (k \in Nat /\ k - 1 \in DOMAIN events' /\ events'[k - 1] = events[k])
         /\ IF events' = <<>> THEN Len(events) = 1 ELSE events'[Len(events')] = events[Len(events)]
<1>1. /\ events' \in Seq(SubEvent) /\ Len(events') = Len(events) - 1 /\ Head(events) = events[1]
      /\ \A k \in 1..Len(events') : events'[k] = events[k + 1]
  BY HeadTailProperties
<1>2. PICK n \in Nat : n = Len(events) /\ n # 0 /\ DOMAIN events = 1..n /\ DOMAIN events' = 1..(n - 1)
  BY <1>1, LenProperties, EmptySeq
<1>3. \A k \in DOMAIN events' : k \in Nat /\ k > 0 /\ k + 1 \in DOMAIN events /\ events'[k] = events[k + 1]
  BY <1>1, <1>2
<1>4. ASSUME NEW k \in DOMAIN events, k # 1
      PROVE k \in Nat /\ k - 1 \in DOMAIN events' /\ events'[k - 1] = events[k]
  <2>1. PICK p \in 2..n : p = k
    BY <1>2, <1>4
  <2>2. p - 1 \in 1..(n - 1) /\ p - 1 + 1 = p
    BY <1>2
  <2>3. events'[p - 1] = events[p]
    BY <1>1, <1>2, <2>2
  <2> QED
    BY <1>2, <2>1, <2>2, <2>3
<1>5. 1 \in DOMAIN events /\ events[1] \in SubEvent
  BY <1>2, ElementOfSeq
<1>6. IF events' = <<>> THEN Len(events) = 1 ELSE events'[Len(events')] = events[Len(events)]
  <2>1. CASE events' = <<>>
    BY <1>1, <1>2, <2>1, EmptySeq
  <2>2. CASE events' # <<>>
    <3>1. Len(events') # 0
      BY <1>1, <2>2, EmptySeq
    <3>2. n - 1 \in 1..(n - 1) /\ n - 1 + 1 = n /\ Len(events') = n - 1
      BY <1>1, <1>2, <3>1
    <3> QED
      BY <1>1, <1>2, <2>2, <3>2
  <2> QED
    BY <2>1, <2>2
<1> QED
  BY <1>1, <1>3, <1>4, <1>5, <1>6

-----------------------------------------------------------------------------
\* While the row is running and nothing final is announced, what is written may change
LEMMA SubWorks ==
  ASSUME SubInv, UNCHANGED <<task_row, browser>>, task_row = "running",
         sub_at' \in {"load", "stream", "saved", "page", "page_saved", "raised", "cancelled"},
         SubType'
  PROVE  SubInv'
<1>1. ~Announced' /\ RowInv' /\ CardInv'
  BY DEF Announced, SubInv, RowInv, CardInv
<1> QED
  BY <1>1 DEF SubInv, ContentInv

\* A message_done tells the final content
LEMMA SubAnnounces ==
  ASSUME SubInv, NEW c \in Content, events' = Append(events, Done(c)), content' \in Content,
         c = content' \/ content' = Web!Text({}, "agent_missing"), UNCHANGED <<stream, task_row, browser>>,
         task_row = "running", sub_at' \in {"missing", "marking", "page"}
  PROVE  SubInv'
<1> USE DEF stream, browser
<1>1. events \in Seq(SubEvent) /\ Done(c) \in SubEvent /\ Done(c).t = "done" /\ Done(c).content = c
  BY Contents DEF SubInv, SubType
<1>2. PICK e \in SubEvent : e = Done(c)
  BY <1>1
<1>3. /\ events' \in Seq(SubEvent)
      /\ \E k \in DOMAIN events' : events'[k] = e /\ \A j \in DOMAIN events' : j > k => events'[j].t = "task"
  BY <1>1, <1>2, SubEventMore
<1>4. SubType'
  BY <1>3 DEF SubInv, SubType
<1>5. RowInv' /\ CardInv'
  BY DEF SubInv, RowInv, CardInv
<1>6. ContentInv'
  BY <1>1, <1>2, <1>3 DEF ContentInv, Final, Quiet
<1> QED
  BY <1>4, <1>5, <1>6 DEF SubInv

LEMMA MarkKeeps == ASSUME SubInv, MarkSubtask PROVE SubInv'
<1> USE DEF stream, browser
<1>1. PICK s \in {"done", "failed"} :
        /\ events' = Append(events, TaskIs(s)) /\ task_row' = s
        /\ sub_at' \in {"returned", "raised"} /\ sub_at \in {"marking", "missing"}
        /\ UNCHANGED <<stream, content, browser>>
  BY DEF MarkSubtask, MarkRow
<1>2. PICK e \in SubEvent : e = TaskIs(s) /\ e.t = "task"
  BY Contents
<1>3. events \in Seq(SubEvent)
  BY DEF SubInv, SubType
<1>4. /\ events' \in Seq(SubEvent) /\ events' # <<>> /\ events'[Len(events')] = e
      /\ \A j \in DOMAIN events : j \in DOMAIN events' /\ events'[j] = events[j]
      /\ \A j \in DOMAIN events' : events'[j] = e \/ (j \in DOMAIN events /\ events'[j] = events[j])
  BY <1>1, <1>2, <1>3, SubEventMore
<1>5. SubType'
  BY <1>1, <1>4 DEF SubInv, SubType
<1>6. RowInv' /\ CardInv'
  BY <1>1, <1>2, <1>4 DEF RowInv, CardInv
<1>7. \A k : Quiet(k) => Quiet(k)'
  BY <1>2, <1>4 DEF Quiet
<1>8. ContentInv'
  BY <1>1, <1>4, <1>7 DEF SubInv, ContentInv, Announced, Final
<1> QED
  BY <1>5, <1>6, <1>8 DEF SubInv

LEMMA RetryKeeps == ASSUME SubInv, RetrySubtask PROVE SubInv'
<1> USE DEF stream, browser
<1>1. ~CanMove(task_row, "running")
  BY DEF SubInv, RowInv, CanMove, ALLOWED_TRANSITIONS
<1>2. /\ sub_at = "raised" /\ sub_at' = "gave_up"
      /\ UNCHANGED <<task_row, events, parts, failed, artifacts, kind, content, browser>>
  BY <1>1 DEF RetrySubtask
<1>3. SubType' /\ RowInv' /\ CardInv' /\ ContentInv'
  BY <1>2 DEF SubInv, SubType, RowInv, CardInv, ContentInv, Announced, Final, Quiet
<1> QED
  BY <1>3 DEF SubInv

\* The reducer keeps the slice a slice; a message_done replaces the content and ends the stream
LEMMA Reduced ==
  ASSUME slice \in BubbleSlice, NEW e \in SubEvent
  PROVE  /\ Web!Reduce(slice, e) \in BubbleSlice
         /\ e.t = "done" => /\ Web!Reduce(slice, e).content["bubble"] = e.content
                            /\ Web!Reduce(slice, e).streaming = {}
         /\ e.t = "task" => Web!Reduce(slice, e) = slice
<1>1. CASE e \in [t : {"done"}, m : {"bubble"}, content : Content]
  <2>1. Web!Reduce(slice, e) = Web!ApplyFinal(slice, e)
    BY <1>1 DEF Web!Reduce
  <2>2. PICK f \in [{"bubble"} -> Content] : f = [slice.content EXCEPT !["bubble"] = e.content]
    BY <1>1 DEF BubbleSlice
  <2>3. f["bubble"] = e.content
    BY <1>1, <2>2 DEF BubbleSlice
  <2>4. e.m = "bubble" /\ e.t = "done" /\ slice.known = {"bubble"} /\ slice.streaming \ {"bubble"} = {}
    BY <1>1 DEF BubbleSlice
  <2>5. Web!Reduce(slice, e) = [slice EXCEPT !.content = f, !.streaming = {}]
    BY <2>1, <2>2, <2>4 DEF Web!ApplyFinal
  <2> QED
    BY <2>3, <2>4, <2>5 DEF BubbleSlice
<1>2. CASE e \in [t : {"chunk"}, m : {"bubble"}, n : 1..MaxChunks]
  <2>1. Web!Reduce(slice, e) = Web!ApplyChunk(slice, e)
    BY <1>2 DEF Web!Reduce
  <2>2. PICK c \in Content : c = slice.content["bubble"]
    BY DEF BubbleSlice
  <2>3. Web!Text(c.parts \cup {e.n}, c.note) \in Content
    BY <1>2 DEF Content, Web!Text
  <2> QED
    BY <1>2, <2>1, <2>2, <2>3 DEF Web!ApplyChunk, BubbleSlice
<1>3. CASE e \in [t : {"task"}, status : {"done", "failed"}]
  BY <1>3 DEF Web!Reduce
<1> QED
  BY <1>1, <1>2, <1>3 DEF SubEvent

LEMMA ReduceKeeps == ASSUME SubInv, ReduceEvent PROVE SubInv'
<1> USE DEF stream
<1>1. PICK e : e = Head(events)
  OBVIOUS
<1>2. /\ events # <<>> /\ events' = Tail(events) /\ slice' = Web!Reduce(slice, e)
      /\ task_card' = TaskAfter(task_card, e) /\ UNCHANGED <<sub_at, stream, task_row, content>>
  BY <1>1 DEF ReduceEvent
<1>3. events \in Seq(SubEvent) /\ slice \in BubbleSlice
  BY DEF SubInv, SubType
<1>4. /\ events' \in Seq(SubEvent) /\ 1 \in DOMAIN events /\ e = events[1] /\ e \in SubEvent
      /\ \A k \in DOMAIN events' : k \in Nat /\ k > 0 /\ k + 1 \in DOMAIN events /\ events'[k] = events[k + 1]
      /\ \A k \in DOMAIN events : k = 1 \/ (k \in Nat /\ k - 1 \in DOMAIN events' /\ events'[k - 1] = events[k])
      /\ IF events' = <<>> THEN Len(events) = 1 ELSE events'[Len(events')] = events[Len(events)]
  BY <1>1, <1>2, <1>3, SubEventLess
<1>5. /\ slice' \in BubbleSlice
      /\ e.t = "done" => slice'.content["bubble"] = e.content /\ slice'.streaming = {}
      /\ e.t = "task" => slice' = slice
  BY <1>2, <1>3, <1>4, Reduced
<1>6. SubType' /\ RowInv'
  BY <1>2, <1>4, <1>5 DEF SubInv, SubType, RowInv
<1>7. CardInv'
  <2> SUFFICES ASSUME task_row # "running" PROVE CardInv'
    BY <1>2 DEF CardInv
  <2>1. events[Len(events)] = TaskIs(task_row)
    BY <1>2 DEF SubInv, CardInv
  <2>2. CASE events' = <<>>
    <3>1. e = TaskIs(task_row)
      BY <1>4, <2>1, <2>2
    <3>2. task_card' = task_row
      BY <1>2, <3>1 DEF TaskAfter, TaskIs
    <3> QED
      BY <1>2, <2>2, <3>2 DEF CardInv
  <2>3. CASE events' # <<>>
    BY <1>2, <1>4, <2>1, <2>3 DEF CardInv
  <2> QED
    BY <2>2, <2>3
<1>8. ContentInv'
  <2> SUFFICES ASSUME Announced PROVE ContentInv'
    BY <1>2 DEF ContentInv, Announced
  <2>1. \A c : Final(c)' <=> Final(c)
    BY <1>2 DEF Final
  <2>2. \A k \in Nat : Quiet(k + 1) => Quiet(k)'
    BY <1>4 DEF Quiet
  <2>3. CASE \E k \in DOMAIN events : events[k].t = "done" /\ Final(events[k].content) /\ Quiet(k)
    <3>1. PICK k \in DOMAIN events : events[k].t = "done" /\ Final(events[k].content) /\ Quiet(k)
      BY <2>3
    <3>2. CASE k = 1
      <4>1. Quiet(0)'
        BY <2>2, <3>1, <3>2
      <4> QED
        BY <1>4, <1>5, <2>1, <3>1, <3>2, <4>1 DEF ContentInv
    <3>3. CASE k # 1
      <4>1. PICK p \in Nat : p = k
        BY <1>4, <3>3
      <4>2. PICK q \in Nat : q = p - 1 /\ q \in DOMAIN events' /\ events'[q] = events[k] /\ q + 1 = k
        BY <1>4, <3>3, <4>1
      <4>3. Quiet(q)'
        BY <2>2, <3>1, <4>2
      <4>4. PICK c : c = events[k].content /\ Final(c)
        BY <3>1
      <4>5. Final(c)'
        BY <2>1, <4>4
      <4> QED
        BY <3>1, <4>2, <4>3, <4>4, <4>5 DEF ContentInv, Final
    <3> QED
      BY <3>2, <3>3
  <2>4. CASE Final(slice.content["bubble"]) /\ slice.streaming = {} /\ Quiet(0)
    <3>1. e.t = "task"
      BY <1>4, <2>4 DEF Quiet
    <3>2. slice' = slice
      BY <1>5, <3>1
    <3>3. Quiet(0)'
      BY <1>4, <2>4 DEF Quiet
    <3>4. Final(slice.content["bubble"])'
      BY <1>2, <2>4, <3>2 DEF Final
    <3> QED
      BY <2>4, <3>2, <3>3, <3>4 DEF ContentInv
  <2> QED
    BY <2>3, <2>4 DEF SubInv, ContentInv
<1> QED
  BY <1>6, <1>7, <1>8 DEF SubInv

LEMMA SubStep == ASSUME SubInv, SubNext PROVE SubInv'
<1> USE DEF stream, browser
<1>1. sub_at \in {"load", "stream", "saved", "page", "page_saved", "marking", "missing"} => task_row = "running"
  BY DEF SubInv, RowInv
<1>2. CASE LoadAgent
  BY <1>1, <1>2, SubWorks DEF LoadAgent, SubInv, SubType
<1>3. CASE AgentMissing
  <2>1. Web!Text({}, "agent_missing") \in Content /\ Web!Text({}, "unavailable") \in Content
    BY Contents
  <2> QED
    BY <1>1, <1>3, <2>1, SubAnnounces DEF AgentMissing
<1>4. CASE SubtaskChunk
  <2>1. PICK n \in 1..MaxChunks : /\ parts' = parts \cup {n}
                                  /\ events' = Append(events, [t |-> "chunk", m |-> "bubble", n |-> n])
    BY <1>4 DEF SubtaskChunk
  <2>2. PICK e \in SubEvent : e = [t |-> "chunk", m |-> "bubble", n |-> n]
    BY DEF SubEvent
  <2>3. events' \in Seq(SubEvent)
    BY <2>1, <2>2, SubEventMore DEF SubInv, SubType
  <2>4. SubType'
    BY <1>4, <2>1, <2>3 DEF SubtaskChunk, SubInv, SubType
  <2> QED
    BY <1>1, <1>4, <2>4, SubWorks DEF SubtaskChunk
<1>5. CASE SubtaskError
  BY <1>1, <1>5, SubWorks DEF SubtaskError, SubInv, SubType
<1>6. CASE SaveContent
  <2>1. content' \in Content
    <3>1. FinalCard \subseteq Content
      BY Contents DEF FinalCard, Says, SubInv, SubType
    <3> QED
      BY <1>6, <3>1 DEF SaveContent
  <2>2. SubType'
    BY <1>6, <2>1 DEF SaveContent, SubInv, SubType
  <2> QED
    BY <1>1, <1>6, <2>2, SubWorks DEF SaveContent
<1>7. CASE AnnounceContent
  <2>1. PICK c \in Content : c = content
    BY DEF SubInv, SubType
  <2>2. sub_at' \in {"marking", "page"} /\ sub_at = "saved" /\ events' = Append(events, Done(c))
        /\ content' = c /\ UNCHANGED <<stream, task_row, browser>>
    BY <1>7, <2>1 DEF AnnounceContent
  <2> QED
    BY <1>1, <2>1, <2>2, SubAnnounces
<1>8. CASE SavePage
  <2>1. SubType'
    BY <1>8, Contents DEF SavePage, SubInv, SubType
  <2> QED
    BY <1>1, <1>8, <2>1, SubWorks DEF SavePage
<1>9. CASE AnnouncePage
  <2>1. PICK c \in Content : c = content
    BY DEF SubInv, SubType
  <2>2. sub_at' = "marking" /\ sub_at = "page_saved" /\ events' = Append(events, Done(c))
        /\ content' = c /\ UNCHANGED <<stream, task_row, browser>>
    BY <1>9, <2>1 DEF AnnouncePage
  <2> QED
    BY <1>1, <2>1, <2>2, SubAnnounces
<1>10. CASE MarkSubtask
  BY <1>10, MarkKeeps
<1>11. CASE SubtaskRaises
  <2>1. task_row = "running" \/ sub_at = "load"
    BY <1>11 DEF SubtaskRaises, SubInv, RowInv
  <2> QED
    BY <1>1, <1>11, <2>1, SubWorks DEF SubtaskRaises, SubInv, SubType
<1>12. CASE SubtaskCancelled
  <2>1. SubType'
    BY <1>12, Contents DEF SubtaskCancelled, SubInv, SubType
  <2> QED
    BY <1>1, <1>12, <2>1, SubWorks DEF SubtaskCancelled
<1>13. CASE RetrySubtask
  BY <1>13, RetryKeeps
<1>14. CASE ReduceEvent
  BY <1>14, ReduceKeeps
<1>15. ASSUME NEW k \in {"preview", "file", "code", "diff"}, ToolCreates(k) PROVE SubInv'
  <2>1. SubType'
    BY <1>15 DEF ToolCreates, SubInv, SubType
  <2> QED
    BY <1>1, <1>15, <2>1, SubWorks DEF ToolCreates
<1> QED
  BY <1>2, <1>3, <1>4, <1>5, <1>6, <1>7, <1>8, <1>9, <1>10, <1>11, <1>12, <1>13, <1>14, <1>15 DEF SubNext

LEMMA SubtaskSeen == SubInv => SubtaskShown
<1> SUFFICES ASSUME SubInv, events = <<>>, sub_at = "returned" \/ (sub_at = "gave_up" /\ task_row = "failed")
             PROVE  /\ slice.content["bubble"] = content \/ content = Web!Text({}, "agent_missing")
                    /\ slice.streaming = {} /\ task_card = task_row
  BY DEF SubtaskShown
<1>1. task_row # "running"
  BY DEF SubInv, RowInv
<1> QED
  BY <1>1 DEF SubInv, ContentInv, CardInv, Announced, Final

\* The inductive invariant holds for any number of chunks.
THEOREM SubtaskInvariance == SubSpec => []SubInv
<1>1. SubInv /\ [SubNext]_subVars => SubInv'
  <2> SUFFICES ASSUME SubInv, [SubNext]_subVars PROVE SubInv'
    OBVIOUS
  <2>1. CASE UNCHANGED subVars
    BY <2>1 DEF SubInv, SubType, RowInv, ContentInv, CardInv, Announced, Final, Quiet, subVars
  <2> QED
    BY <2>1, SubStep
<1> QED
  BY <1>1, SubStart, PTL DEF SubSpec

\* However often the content of a subtask is replaced on the way, by an error, a card or a page
\* that is found in it, and whenever the browser reduces the events: once the dispatch is over
\* the bubble shows what is stored and the card of the task has the status of the row.
THEOREM SubtaskIsShown == SubSpec => []SubtaskShown
BY SubtaskInvariance, SubtaskSeen, PTL

-----------------------------------------------------------------------------
\* The context of a reply.  What load() leaves of the conversation is right when it is made
\* and stays so, because messages are only added behind those it has seen; and what the
\* replies write into a list leaves the entries of the messages in their order.

MessageRoles == {"user", "assistant"}
Msg == [n : Nat, role : MessageRoles, pinned : BOOLEAN, size : Nat]
Item == [what : MessageRoles \cup {"notice", "pinned", "workspace", "prompt", "call", "result"}, n : Nat,
         by : Speakers \cup {"build"}]
Loads == [pins : Seq(Msg), cut : Nat, older : Nat, seen : Nat, rest : Seq(Msg)]

IsConversation(s) == s \in Seq(Msg) /\ \A i \in DOMAIN s : s[i].n = i

ReadOf(l) == (l.older + 1)..l.seen
PinnedOf(s, l) == {n \in ReadOf(l) : s[n].pinned}
PinNumbers(l) == {m.n : m \in ToSet(l.pins)}
RestNumbers(l) == {m.n : m \in ToSet(l.rest)}
HeadOf(S) == {n \in S : Cardinality({o \in S : o < n}) < HeadSize}

\* The pinned messages that load() has kept of the conversation s
PinsRight(s, l) ==
  /\ \A i, j \in DOMAIN l.pins : i < j => l.pins[i].n < l.pins[j].n
  /\ PinNumbers(l) \subseteq PinnedOf(s, l) /\ Cardinality(PinNumbers(l)) + l.cut = Cardinality(PinnedOf(s, l))
  /\ PinnedOf(s, l) # {} => Max(PinnedOf(s, l)) \in PinNumbers(l)

\* and the others
RestRight(s, l) ==
  /\ RestNumbers(l) \subseteq ReadOf(l) \ PinnedOf(s, l)
  /\ \A m \in ToSet(l.rest) : m = s[m.n]
  /\ \A n \in ReadOf(l) \ RestNumbers(l) :
       ~s[n].pinned => \A o \in RestNumbers(l) \ HeadOf(RestNumbers(l)) : n < o

LoadOK(s, l) == l \in Loads /\ l.seen <= Len(s) /\ PinsRight(s, l) /\ RestRight(s, l)

InOrder(items) == \A i, j \in DOMAIN items : i < j => Ahead(items[i], items[j])
NumbersIn(items, what) == {e.n : e \in {x \in ToSet(items) : x.what = what}}

\* A list that was built of it
ListOK(s, l) ==
  /\ LoadOK(s, l.from) /\ l.items \in Seq(Item) /\ InOrder(l.items)
  /\ NumbersIn(l.items, "pinned") = PinNumbers(l.from)
  /\ NumbersIn(l.items, "notice") = IF l.from.cut > 0 THEN {l.from.cut} ELSE {}
  /\ \A role \in MessageRoles : NumbersIn(l.items, role) = {m.n : m \in {o \in ToSet(l.from.rest) : o.role = role}}

\* The three parts of the invariant: what has been loaded, what is sent, and who uses which list
BuiltLists == [items : Seq(Item), from : Loads]

LoadedInv == loaded \in [Speakers -> Loads] /\ \A r \in Speakers : LoadOK(rows, loaded[r])
ListsInv == lists \in Seq(BuiltLists) /\ \A i \in DOMAIN lists : ListOK(rows, lists[i])
UsesInv ==
  /\ ctx_at \in [Speakers -> {"idle", "loaded", "built", "asking", "answering", "over"}]
  /\ list_of \in [Speakers -> Nat]
  /\ \A r \in Speakers : ctx_at[r] \in {"built", "asking", "answering"} => list_of[r] \in DOMAIN lists
  /\ \A k \in DOMAIN build_cache : build_cache[k] \in DOMAIN lists

ContextInv == IsConversation(rows) /\ LoadedInv /\ ListsInv /\ UsesInv

-----------------------------------------------------------------------------
\* The sum of sizes, step by step
SumRun(s, f) == f = [n \in 0..Len(s) |-> IF n = 0 THEN 0 ELSE f[n - 1] + s[n].size]

LEMMA SizeIs ==
  ASSUME NEW s \in Seq(Msg)
  PROVE  SizeOf(s) \in Nat /\ (Len(s) = 0 => SizeOf(s) = 0)
<1> DEFINE N == Len(s)
           turn == [nx \in (1..N) \X Nat |-> nx[2] + s[nx[1]].size]
<1>1. N \in Nat /\ \A n \in 1..N : s[n].size \in Nat
  <2>1. N \in Nat /\ \A n \in 1..N : s[n] \in Msg
    OBVIOUS
  <2> QED BY <2>1 DEF Msg
<1>2. turn \in [(1..N) \X Nat -> Nat]
  BY <1>1
<1>3. PICK h \in [0..N -> Nat] : h = [n \in 0..N |-> IF n = 0 THEN 0 ELSE turn[<<n, h[n - 1]>>]]
  <2> HIDE DEF N, turn
  <2> PICK h : Recursion(N, Nat, 0, turn, h)
    BY <1>1, <1>2, RecursionTheorem
  <2> QED BY DEF Recursion
<1>4. SumRun(s, h)
  <2>1. \A n \in 0..N : n # 0 => <<n, h[n - 1]>> \in (1..N) \X Nat
    <3> HIDE DEF N, turn
    <3>1. \A n \in 0..N : n # 0 => n \in 1..N /\ n - 1 \in 0..N
      BY <1>1
    <3> QED BY <3>1
  <2>2. \A n \in 0..N : n # 0 => turn[<<n, h[n - 1]>>] = h[n - 1] + s[n].size
    BY <2>1
  <2> HIDE DEF turn
  <2> QED BY <1>3, <2>2 DEF SumRun
<1>5. SizeOf(s) = (CHOOSE f : SumRun(s, f))[N]
  BY DEF SizeOf, SumRun
<1> PICK f : SumRun(s, f) /\ SizeOf(s) = f[N]
  BY <1>4, <1>5
<1> DEFINE P == {n \in Nat : n <= N => f[n] \in Nat}
<1>6. f[0] = 0 /\ \A n \in Nat : n + 1 <= N => f[n + 1] = f[n] + s[n + 1].size
  BY <1>1 DEF SumRun
<1>7. 0 \in P
  BY <1>6
<1>8. ASSUME NEW n \in P PROVE n + 1 \in P
  <2> SUFFICES ASSUME n + 1 <= N PROVE f[n + 1] \in Nat
    OBVIOUS
  <2>1. f[n] \in Nat /\ f[n + 1] = f[n] + s[n + 1].size /\ n + 1 \in 1..N
    BY <1>1, <1>6
  <2> QED BY <1>1, <2>1
<1>9. P = Nat
  <2> HIDE DEF P
  <2>1. P \subseteq Nat
    BY DEF P
  <2> QED BY <1>7, <1>8, <2>1, Inductive
<1>10. N \in P
  BY <1>1, <1>9
<1> QED BY <1>6, <1>10

-----------------------------------------------------------------------------
\* The pinned messages that are taken: the newest is always one of them.
TakeRun(pins, budget, f) ==
  f = [n \in 0..Len(pins) |-> IF n = 0 THEN [chosen |-> {}, used |-> 0]
                              ELSE Taken(f[n - 1], pins, Len(pins) + 1 - n, budget)]
Takings(pins) == [chosen : SUBSET (1..Len(pins)), used : Nat]

LEMMA TakenIs ==
  ASSUME NEW pins \in Seq(Msg), NEW budget, NEW acc \in Takings(pins), NEW i \in 1..Len(pins)
  PROVE  LET new == Taken(acc, pins, i, budget) IN
           /\ new \in Takings(pins) /\ acc.chosen \subseteq new.chosen
           /\ acc.chosen = {} => i \in new.chosen
<1>1. pins[i].size \in Nat /\ acc.chosen \in SUBSET (1..Len(pins)) /\ acc.used \in Nat
  <2>1. pins[i] \in Msg
    OBVIOUS
  <2> QED BY <2>1 DEF Msg, Takings
<1>2. CASE acc.chosen # {} /\ acc.used + pins[i].size > budget
  BY <1>2 DEF Taken
<1>3. CASE ~(acc.chosen # {} /\ acc.used + pins[i].size > budget)
  <2>1. Taken(acc, pins, i, budget) = [chosen |-> acc.chosen \cup {i}, used |-> acc.used + pins[i].size]
    BY <1>3 DEF Taken
  <2> QED BY <1>1, <2>1 DEF Takings
<1> QED BY <1>2, <1>3

LEMMA PinsKeptIs ==
  ASSUME NEW pins \in Seq(Msg), NEW budget
  PROVE  PinsKept(pins, budget) \subseteq 1..Len(pins) /\ (Len(pins) > 0 => Len(pins) \in PinsKept(pins, budget))
<1> DEFINE N == Len(pins)
           X == Takings(pins)
           start == [chosen |-> {}, used |-> 0]
           turn == [nx \in (1..N) \X X |-> Taken(nx[2], pins, N + 1 - nx[1], budget)]
<1>1. N \in Nat
  OBVIOUS
<1>2. start \in X
  BY DEF Takings
<1>3. turn \in [(1..N) \X X -> X]
  <2>1. ASSUME NEW nx \in (1..N) \X X PROVE Taken(nx[2], pins, N + 1 - nx[1], budget) \in X
    <3>1. nx[2] \in Takings(pins) /\ nx[1] \in 1..N /\ N + 1 - nx[1] \in 1..Len(pins)
      BY <1>1
    <3> QED BY <3>1, TakenIs
  <2> HIDE DEF X
  <2> QED BY <2>1
<1>4. PICK h \in [0..N -> X] : h = [n \in 0..N |-> IF n = 0 THEN start ELSE turn[<<n, h[n - 1]>>]]
  <2> HIDE DEF start, N, turn, X
  <2> PICK Y : Y = X
    OBVIOUS
  <2> PICK h : Recursion(N, Y, start, turn, h)
    BY <1>1, <1>2, <1>3, RecursionTheorem
  <2> QED BY DEF Recursion
<1>5. TakeRun(pins, budget, h)
  <2>1. \A n \in 0..N : n # 0 => <<n, h[n - 1]>> \in (1..N) \X X
    <3> HIDE DEF X
    <3> QED BY <1>1
  <2>2. \A n \in 0..N : n # 0 => turn[<<n, h[n - 1]>>] = Taken(h[n - 1], pins, N + 1 - n, budget)
    BY <2>1
  <2> HIDE DEF turn
  <2> QED BY <1>4, <2>2 DEF TakeRun
<1>6. PinsKept(pins, budget) = (CHOOSE f : TakeRun(pins, budget, f))[N].chosen
  BY DEF PinsKept, TakeRun
<1> PICK f : TakeRun(pins, budget, f) /\ PinsKept(pins, budget) = f[N].chosen
  BY <1>5, <1>6
<1> DEFINE P == {n \in Nat : n <= N => f[n] \in X /\ (n > 0 => N \in f[n].chosen)}
<1>7. f[0] = start /\ \A n \in Nat : n + 1 <= N => f[n + 1] = Taken(f[n], pins, N - n, budget)
  <2>1. \A n \in Nat : N + 1 - (n + 1) = N - n /\ (n + 1) - 1 = n
    BY <1>1
  <2>2. \A n \in 0..N : f[n] = IF n = 0 THEN start ELSE Taken(f[n - 1], pins, N + 1 - n, budget)
    BY DEF TakeRun
  <2> HIDE DEF start, N
  <2>3. ASSUME NEW n \in Nat, n + 1 <= N PROVE f[n + 1] = Taken(f[n], pins, N - n, budget)
    <3>1. n + 1 \in 0..N /\ n + 1 # 0
      BY <1>1, <2>3
    <3> QED BY <2>1, <2>2, <3>1
  <2> QED BY <1>1, <2>2, <2>3
<1>8. 0 \in P
  BY <1>2, <1>7
<1>9. ASSUME NEW n \in P PROVE n + 1 \in P
  <2> SUFFICES ASSUME n + 1 <= N PROVE f[n + 1] \in X /\ N \in f[n + 1].chosen
    OBVIOUS
  <2>1. f[n] \in X /\ (n > 0 => N \in f[n].chosen) /\ f[n + 1] = Taken(f[n], pins, N - n, budget)
    BY <1>1, <1>7
  <2>2. N - n \in 1..Len(pins)
    BY <1>1
  <2>3. f[n + 1] \in X /\ f[n].chosen \subseteq f[n + 1].chosen /\ (f[n].chosen = {} => N - n \in f[n + 1].chosen)
    BY <2>1, <2>2, TakenIs
  <2>4. CASE n = 0
    <3>1. f[n].chosen = {} /\ N - n = N
      BY <1>1, <1>7, <2>4
    <3> QED BY <2>3, <3>1
  <2>5. CASE n # 0
    BY <2>1, <2>3, <2>5
  <2> QED BY <2>4, <2>5
<1>10. P = Nat
  <2> HIDE DEF P
  <2>1. P \subseteq Nat
    BY DEF P
  <2> QED BY <1>8, <1>9, <2>1, Inductive
<1>11. f[N] \in X /\ (N > 0 => N \in f[N].chosen)
  BY <1>1, <1>10
<1> QED BY <1>11 DEF Takings

-----------------------------------------------------------------------------
\* What is left of the other messages: h of them, from some place on, and the last ones.
Window(c, h, d, L) == ((c + 1)..(c + h)) \cup ((d + 1)..L)

Through(W, R, c, h, d) ==
  /\ c + h <= d
  /\ \A k \in DOMAIN W : \E i \in Window(c, h, d, Len(R)) : W[k] = R[i]
  /\ \A i \in Window(c, h, d, Len(R)) : \E k \in DOMAIN W : W[k] = R[i]

IsWindow(W, R) == W \in Seq(Msg) /\ \E c, d \in 0..Len(R) : \E h \in 0..HeadSize : Through(W, R, c, h, d)

LEMMA LastIs ==
  ASSUME NEW R \in Seq(Msg), NEW n \in Nat
  PROVE  \E c \in 0..Len(R) : /\ LastOf(R, n) \in Seq(Msg) /\ Len(LastOf(R, n)) = Len(R) - c
                              /\ \A i \in 1..(Len(R) - c) : LastOf(R, n)[i] = R[c + i]
<1>1. Len(R) \in Nat /\ \A i \in 1..Len(R) : R[i] \in Msg
  OBVIOUS
<1>2. CASE Len(R) > n
  <2> DEFINE c == Len(R) - n
             W == SubSeq(R, c + 1, Len(R))
  <2>1. c \in 0..Len(R) /\ c + 1 \in Int /\ Len(R) \in Int /\ c + 1 <= Len(R) + 1
    BY <1>1, <1>2
  <2>2. \A i \in (c + 1)..Len(R) : R[i] \in Msg
    BY <1>1, <2>1
  <2>3. /\ W \in Seq(Msg) /\ Len(W) = IF c + 1 <= Len(R) THEN Len(R) - (c + 1) + 1 ELSE 0
        /\ \A i \in 1..(Len(R) - (c + 1) + 1) : W[i] = R[c + 1 + i - 1]
    <3> HIDE DEF c
    <3> QED BY <2>1, <2>2, SubSeqProperties
  <2>4. LastOf(R, n) = W
    BY <1>2 DEF LastOf
  <2> HIDE DEF W, c
  <2>5. Len(W) = Len(R) - c
    BY <1>1, <2>1, <2>3
  <2>6. ASSUME NEW i \in 1..(Len(R) - c) PROVE W[i] = R[c + i]
    <3>1. i \in 1..(Len(R) - (c + 1) + 1) /\ c + 1 + i - 1 = c + i
      BY <1>1, <2>1
    <3> QED BY <2>3, <3>1
  <2> QED BY <2>1, <2>3, <2>4, <2>5, <2>6
<1>3. CASE ~(Len(R) > n)
  <2>1. LastOf(R, n) = R
    BY <1>3 DEF LastOf
  <2>2. 0 \in 0..Len(R) /\ Len(R) - 0 = Len(R) /\ \A i \in 1..Len(R) : 0 + i = i
    BY <1>1
  <2>3. /\ LastOf(R, n) \in Seq(Msg) /\ Len(LastOf(R, n)) = Len(R) - 0
        /\ \A i \in 1..(Len(R) - 0) : LastOf(R, n)[i] = R[0 + i]
    BY <1>1, <2>1, <2>2
  <2> QED BY <2>2, <2>3
<1> QED BY <1>2, <1>3

LEMMA NewestIs ==
  ASSUME NEW tail \in Seq(Msg), NEW room \in Nat
  PROVE  \E t \in 0..Len(tail) : /\ NewestThatFit(tail, room) \in Seq(Msg) /\ Len(NewestThatFit(tail, room)) = t
                                 /\ \A k \in 1..t : NewestThatFit(tail, room)[k] = tail[Len(tail) + 1 - k]
<1> DEFINE back == Reverse(tail)
           fits == {n \in 0..Len(back) : SizeOf(SubSeq(back, 1, n)) <= room}
           t == Max(fits)
<1>1. Len(tail) \in Nat /\ \A i \in 1..Len(tail) : tail[i] \in Msg
  OBVIOUS
<1>2. back \in Seq(Msg) /\ Len(back) = Len(tail) /\ \A k \in 1..Len(tail) : back[k] = tail[Len(tail) + 1 - k]
  <2>1. back \in [1..Len(tail) -> Msg]
    BY <1>1 DEF Reverse
  <2>2. back \in Seq(Msg)
    BY <1>1, <2>1, ListOf
  <2>3. \A k \in 1..Len(tail) : (Len(tail) - k) + 1 = Len(tail) + 1 - k
    BY <1>1
  <2>4. \A k \in 1..Len(tail) : back[k] = tail[(Len(tail) - k) + 1]
    BY DEF Reverse
  <2>5. Len(back) = Len(tail)
    <3> HIDE DEF back
    <3> QED BY <1>1, <2>1, <2>2, LenProperties
  <2> HIDE DEF back
  <2> QED BY <2>2, <2>3, <2>4, <2>5
<1> HIDE DEF back
<1>3. 0 \in fits
  <2>1. SubSeq(back, 1, 0) = <<>>
    BY SubSeqEmpty
  <2>2. <<>> \in Seq(Msg) /\ Len(<<>>) = 0
    OBVIOUS
  <2>3. SizeOf(SubSeq(back, 1, 0)) = 0
    BY <2>1, <2>2, SizeIs
  <2> QED BY <1>1, <1>2, <2>3
<1>4. t \in 0..Len(tail)
  <2>1. fits \subseteq 0..Len(tail) /\ fits # {}
    BY <1>2, <1>3
  <2> HIDE DEF fits
  <2>2. Max(fits) \in fits
    BY <1>1, <2>1, GreatestOf
  <2> QED BY <2>1, <2>2
<1>5. NewestThatFit(tail, room) = SubSeq(back, 1, t)
  BY DEF NewestThatFit, back
<1> HIDE DEF t
<1>6. \A i \in 1..t : back[i] \in Msg
  BY <1>1, <1>2, <1>4
<1>7. /\ SubSeq(back, 1, t) \in Seq(Msg) /\ Len(SubSeq(back, 1, t)) = IF 1 <= t THEN t - 1 + 1 ELSE 0
      /\ \A i \in 1..(t - 1 + 1) : SubSeq(back, 1, t)[i] = back[1 + i - 1]
  <2>1. 1 \in Int /\ t \in Int
    BY <1>1, <1>4
  <2> QED BY <1>6, <2>1, SubSeqProperties
<1>8. Len(SubSeq(back, 1, t)) = t
  BY <1>1, <1>4, <1>7
<1>9. ASSUME NEW k \in 1..t PROVE SubSeq(back, 1, t)[k] = tail[Len(tail) + 1 - k]
  <2>1. k \in 1..(t - 1 + 1) /\ 1 + k - 1 = k /\ k \in 1..Len(tail)
    BY <1>1, <1>4
  <2>2. SubSeq(back, 1, t)[k] = back[1 + k - 1]
    BY <1>7, <2>1
  <2> QED BY <1>2, <2>1, <2>2
<1> QED BY <1>4, <1>5, <1>7, <1>8, <1>9

\* Joining lists puts their elements together.
IsJoin(s, t, u) ==
  /\ Len(u) = Len(s) + Len(t)
  /\ \A i \in DOMAIN s : i \in DOMAIN u /\ u[i] = s[i]
  /\ \A j \in DOMAIN t : Len(s) + j \in DOMAIN u /\ u[Len(s) + j] = t[j]
  /\ \A k \in DOMAIN u : \/ k \in DOMAIN s /\ u[k] = s[k]
                         \/ k > Len(s) /\ k - Len(s) \in DOMAIN t /\ u[k] = t[k - Len(s)]

LEMMA Joined ==
  ASSUME NEW T, NEW s \in Seq(T), NEW t \in Seq(T)
  PROVE  s \o t \in Seq(T) /\ IsJoin(s, t, s \o t)
<1>1. /\ s \o t \in Seq(T) /\ Len(s \o t) = Len(s) + Len(t)
      /\ \A i \in 1..(Len(s) + Len(t)) : (s \o t)[i] = IF i <= Len(s) THEN s[i] ELSE t[i - Len(s)]
  BY ConcatProperties
<1>2. /\ DOMAIN s = 1..Len(s) /\ DOMAIN t = 1..Len(t) /\ DOMAIN (s \o t) = 1..(Len(s) + Len(t))
      /\ Len(s) \in Nat /\ Len(t) \in Nat
  BY <1>1, LenProperties
<1> DEFINE u == s \o t
<1> HIDE DEF u
<1>3. /\ \A i \in 1..(Len(s) + Len(t)) : u[i] = IF i <= Len(s) THEN s[i] ELSE t[i - Len(s)]
      /\ u \in Seq(T) /\ Len(u) = Len(s) + Len(t) /\ DOMAIN u = 1..(Len(s) + Len(t))
  BY <1>1, <1>2 DEF u
<1>4. ASSUME NEW i \in DOMAIN s PROVE i \in DOMAIN u /\ u[i] = s[i]
  BY <1>2, <1>3
<1>5. ASSUME NEW j \in DOMAIN t PROVE Len(s) + j \in DOMAIN u /\ u[Len(s) + j] = t[j]
  <2>1. Len(s) + j \in 1..(Len(s) + Len(t)) /\ ~(Len(s) + j <= Len(s)) /\ Len(s) + j - Len(s) = j
    BY <1>2
  <2> QED BY <1>3, <2>1
<1>6. ASSUME NEW k \in DOMAIN u
      PROVE  \/ k \in DOMAIN s /\ u[k] = s[k]
             \/ k > Len(s) /\ k - Len(s) \in DOMAIN t /\ u[k] = t[k - Len(s)]
  <2>1. CASE k <= Len(s)
    BY <1>2, <1>3, <2>1
  <2>2. CASE ~(k <= Len(s))
    <3>1. k > Len(s) /\ k - Len(s) \in 1..Len(t)
      BY <1>2, <1>3, <2>2
    <3> QED BY <1>2, <1>3, <2>2, <3>1
  <2> QED BY <2>1, <2>2
<1> QED BY <1>3, <1>4, <1>5, <1>6 DEF u, IsJoin

\* What the token strategy leaves: nothing, everything, or the head and the newest that fit.
LEMMA TokenIs ==
  ASSUME NEW R \in Seq(Msg), NEW pinned \in Nat, NEW notice \in Nat, NEW max \in Nat, ContextAssumption
  PROVE  IsWindow(TokenControl(R, pinned, notice, max), R)
<1> DEFINE L == Len(R)
           W == TokenControl(R, pinned, notice, max)
<1>1. L \in Nat /\ DOMAIN R = 1..L /\ (\A i \in 1..L : R[i] \in Msg) /\ HeadSize \in Nat /\ ShortSize \in Nat
      /\ HeadSize <= ShortSize
  BY DEF ContextAssumption
<1>2. CASE max <= notice + 2 * pinned
  <2>1. W = <<>> /\ W \in Seq(Msg) /\ DOMAIN W = {}
    BY <1>2 DEF TokenControl
  <2>2. Window(0, 0, L, L) = {} /\ 0 + 0 <= L /\ 0 \in 0..L /\ L \in 0..L /\ 0 \in 0..HeadSize
    BY <1>1 DEF Window
  <2> HIDE DEF W
  <2>3. Through(W, R, 0, 0, L)
    BY <2>1, <2>2 DEF Through
  <2> QED BY <2>1, <2>2, <2>3 DEF IsWindow, W
<1>3. CASE ~(max <= notice + 2 * pinned) /\ L <= ShortSize
  <2>1. W = R
    BY <1>3 DEF TokenControl
  <2>2. Window(0, 0, 0, L) = 1..L /\ 0 + 0 <= 0 /\ 0 \in 0..L /\ 0 \in 0..HeadSize
    BY <1>1 DEF Window
  <2> HIDE DEF W
  <2>3. Through(R, R, 0, 0, 0)
    BY <1>1, <2>2 DEF Through
  <2> QED BY <2>1, <2>2, <2>3 DEF IsWindow, W
<1>4. CASE ~(max <= notice + 2 * pinned) /\ ~(L <= ShortSize)
  <2> DEFINE head == SubSeq(R, 1, HeadSize)
             tail == SubSeq(R, HeadSize + 1, L)
             room == max - notice - 2 * pinned
             new == NewestThatFit(tail, room)
  <2>1. W = head \o new
    BY <1>4 DEF TokenControl
  <2>2. room \in Nat /\ HeadSize <= L
    <3>1. 2 * pinned \in Nat
      OBVIOUS
    <3> QED BY <1>1, <1>4, <3>1
  <2>3. head \in Seq(Msg) /\ Len(head) = HeadSize /\ \A i \in 1..HeadSize : head[i] = R[i]
    <3>1. /\ head \in Seq(Msg) /\ Len(head) = IF 1 <= HeadSize THEN HeadSize - 1 + 1 ELSE 0
          /\ \A i \in 1..(HeadSize - 1 + 1) : head[i] = R[1 + i - 1]
      <4>1. 1 \in Int /\ HeadSize \in Int /\ \A i \in 1..HeadSize : R[i] \in Msg
        BY <1>1, <2>2
      <4> QED BY <4>1, SubSeqProperties
    <3> HIDE DEF head
    <3>2. \A i \in 1..HeadSize : i \in 1..(HeadSize - 1 + 1) /\ 1 + i - 1 = i
      BY <1>1
    <3>3. Len(head) = HeadSize
      BY <1>1, <3>1
    <3> QED BY <3>1, <3>2, <3>3
  <2>4. tail \in Seq(Msg) /\ Len(tail) = L - HeadSize /\ \A i \in 1..(L - HeadSize) : tail[i] = R[HeadSize + i]
    <3>1. /\ tail \in Seq(Msg) /\ Len(tail) = IF HeadSize + 1 <= L THEN L - (HeadSize + 1) + 1 ELSE 0
          /\ \A i \in 1..(L - (HeadSize + 1) + 1) : tail[i] = R[HeadSize + 1 + i - 1]
      <4>1. HeadSize + 1 \in Int /\ L \in Int /\ \A i \in (HeadSize + 1)..L : R[i] \in Msg
        BY <1>1, <2>2
      <4> DEFINE lo == HeadSize + 1
      <4>2. lo \in Int /\ L \in Int /\ \A i \in lo..L : R[i] \in Msg
        BY <4>1
      <4> HIDE DEF L, lo
      <4>3. /\ SubSeq(R, lo, L) \in Seq(Msg) /\ Len(SubSeq(R, lo, L)) = IF lo <= L THEN L - lo + 1 ELSE 0
            /\ \A i \in 1..(L - lo + 1) : SubSeq(R, lo, L)[i] = R[lo + i - 1]
        BY <4>2, SubSeqProperties
      <4> QED BY <4>3 DEF lo
    <3> HIDE DEF tail, L
    <3>2. \A i \in 1..(L - HeadSize) : i \in 1..(L - (HeadSize + 1) + 1) /\ HeadSize + 1 + i - 1 = HeadSize + i
      BY <1>1
    <3>3. Len(tail) = L - HeadSize
      BY <1>1, <2>2, <3>1
    <3> QED BY <3>1, <3>2, <3>3
  <2> HIDE DEF W, head, tail, room
  <2>5. PICK t \in 0..Len(tail) : /\ new \in Seq(Msg) /\ Len(new) = t
                                  /\ \A k \in 1..t : new[k] = tail[Len(tail) + 1 - k]
    BY <2>2, <2>4, NewestIs
  <2> HIDE DEF new, L
  <2>6. t \in Nat /\ t <= L - HeadSize /\ DOMAIN new = 1..t /\ DOMAIN head = 1..HeadSize
    BY <1>1, <2>2, <2>3, <2>4, <2>5
  <2>7. \A k \in 1..t : new[k] = R[L + 1 - k]
    <3> SUFFICES ASSUME NEW k \in 1..t PROVE new[k] = R[L + 1 - k]
      OBVIOUS
    <3>1. Len(tail) + 1 - k \in 1..(L - HeadSize) /\ HeadSize + (Len(tail) + 1 - k) = L + 1 - k
      BY <1>1, <2>2, <2>4, <2>6
    <3> QED BY <2>4, <2>5, <3>1
  <2> DEFINE d == L - t
  <2>8. d \in 0..L /\ 0 + HeadSize <= d /\ Window(0, HeadSize, d, L) = (1..HeadSize) \cup ((d + 1)..L)
    BY <1>1, <2>2, <2>6 DEF Window
  <2>9. /\ W \in Seq(Msg)
        /\ \A i \in 1..HeadSize : i \in DOMAIN W /\ W[i] = head[i]
        /\ \A j \in 1..t : HeadSize + j \in DOMAIN W /\ W[HeadSize + j] = new[j]
        /\ \A k \in DOMAIN W : \/ k \in 1..HeadSize /\ W[k] = head[k]
                               \/ k - HeadSize \in 1..t /\ W[k] = new[k - HeadSize]
    <3>1. head \o new \in Seq(Msg) /\ IsJoin(head, new, head \o new)
      BY <2>3, <2>5, Joined
    <3>2. DOMAIN head = 1..HeadSize /\ Len(head) = HeadSize /\ DOMAIN new = 1..t /\ head \o new = W
      BY <2>1, <2>3, <2>6
    <3>3. W \in Seq(Msg) /\ IsJoin(head, new, W)
      BY <3>1, <3>2
    <3> QED BY <3>2, <3>3 DEF IsJoin
  <2>10. ASSUME NEW k \in DOMAIN W PROVE \E i \in (1..HeadSize) \cup ((d + 1)..L) : W[k] = R[i]
    <3>1. CASE k \in 1..HeadSize /\ W[k] = head[k]
      BY <2>3, <3>1
    <3>2. CASE k - HeadSize \in 1..t /\ W[k] = new[k - HeadSize]
      <4>1. L + 1 - (k - HeadSize) \in (d + 1)..L
        BY <1>1, <2>6, <3>2
      <4>2. W[k] = R[L + 1 - (k - HeadSize)]
        BY <2>7, <3>2
      <4> QED BY <4>1, <4>2
    <3> QED BY <2>9, <3>1, <3>2
  <2>11. ASSUME NEW i \in (1..HeadSize) \cup ((d + 1)..L) PROVE \E k \in DOMAIN W : W[k] = R[i]
    <3>1. CASE i \in 1..HeadSize
      BY <2>3, <2>9, <3>1
    <3>2. CASE i \in (d + 1)..L
      <4>1. L + 1 - i \in 1..t /\ L + 1 - (L + 1 - i) = i
        BY <1>1, <2>6, <3>2
      <4>2. new[L + 1 - i] = R[i]
        BY <2>7, <4>1
      <4> QED BY <2>9, <4>1, <4>2
    <3> QED BY <3>1, <3>2
  <2> HIDE DEF d
  <2>12. Through(W, R, 0, HeadSize, d)
    BY <2>8, <2>10, <2>11 DEF Through, L
  <2>13. 0 \in 0..L /\ HeadSize \in 0..HeadSize
    BY <1>1
  <2> QED BY <2>8, <2>9, <2>12, <2>13 DEF IsWindow, L, W
<1> QED BY <1>2, <1>3, <1>4

\* A window of the last messages is one of them all.
LEMMA WindowOfLast ==
  ASSUME NEW R \in Seq(Msg), NEW n \in Nat, NEW W, IsWindow(W, LastOf(R, n)), HeadSize \in Nat
  PROVE  IsWindow(W, R)
<1> DEFINE Q == LastOf(R, n)
           L == Len(R)
<1>1. PICK b \in 0..L : Q \in Seq(Msg) /\ Len(Q) = L - b /\ \A i \in 1..(L - b) : Q[i] = R[b + i]
  BY LastIs
<1> HIDE DEF Q
<1>2. PICK c \in 0..Len(Q), d \in 0..Len(Q), h \in 0..HeadSize : Through(W, Q, c, h, d)
  BY DEF IsWindow, Q
<1>3. L \in Nat /\ b \in Nat /\ c \in Nat /\ d \in Nat /\ h \in Nat /\ b + c \in 0..L /\ b + d \in 0..L
      /\ c + h <= d /\ b + c + h <= b + d
  <2>1. L \in Nat /\ Len(Q) = L - b /\ c + h <= d
    BY <1>1, <1>2 DEF Through
  <2> HIDE DEF L
  <2> QED BY <2>1
<1>4. \A i \in Window(c, h, d, Len(Q)) : i \in 1..(L - b) /\ b + i \in Window(b + c, h, b + d, L) /\ Q[i] = R[b + i]
  <2>1. \A i \in Window(c, h, d, Len(Q)) : i \in 1..(L - b) /\ b + i \in Window(b + c, h, b + d, L)
    BY <1>1, <1>3 DEF Window
  <2> QED BY <1>1, <2>1
<1>5. \A i \in Window(b + c, h, b + d, L) : i - b \in Window(c, h, d, Len(Q)) /\ b + (i - b) = i
  BY <1>1, <1>3 DEF Window
<1>6. ASSUME NEW k \in DOMAIN W PROVE \E i \in Window(b + c, h, b + d, L) : W[k] = R[i]
  <2>1. PICK i \in Window(c, h, d, Len(Q)) : W[k] = Q[i]
    BY <1>2 DEF Through
  <2> QED BY <1>4, <2>1
<1>7. ASSUME NEW i \in Window(b + c, h, b + d, L) PROVE \E k \in DOMAIN W : W[k] = R[i]
  <2>1. i - b \in Window(c, h, d, Len(Q)) /\ b + (i - b) = i
    BY <1>5
  <2>2. PICK k \in DOMAIN W : W[k] = Q[i - b]
    BY <1>2, <2>1 DEF Through
  <2> QED BY <1>4, <2>1, <2>2
<1>8. Through(W, R, b + c, h, b + d)
  BY <1>3, <1>6, <1>7 DEF Through
<1> QED BY <1>3, <1>8 DEF IsWindow

LEMMA LastIsWindow ==
  ASSUME NEW R \in Seq(Msg), NEW n \in Nat, HeadSize \in Nat
  PROVE  IsWindow(LastOf(R, n), R)
<1> DEFINE Q == LastOf(R, n)
<1>1. PICK c \in 0..Len(R) : Q \in Seq(Msg) /\ Len(Q) = Len(R) - c /\ \A i \in 1..(Len(R) - c) : Q[i] = R[c + i]
  BY LastIs
<1> HIDE DEF Q
<1>2. Len(R) \in Nat /\ c \in Nat /\ DOMAIN Q = 1..(Len(R) - c)
  BY <1>1
<1>3. Window(0, 0, c, Len(R)) = (c + 1)..Len(R) /\ 0 + 0 <= c /\ 0 \in 0..HeadSize /\ 0 \in 0..Len(R)
  BY <1>2 DEF Window
<1>4. ASSUME NEW k \in DOMAIN Q PROVE \E i \in (c + 1)..Len(R) : Q[k] = R[i]
  <2>1. c + k \in (c + 1)..Len(R) /\ Q[k] = R[c + k]
    BY <1>1, <1>2
  <2> QED BY <2>1
<1>5. ASSUME NEW i \in (c + 1)..Len(R) PROVE \E k \in DOMAIN Q : Q[k] = R[i]
  <2>1. i - c \in DOMAIN Q /\ c + (i - c) = i
    BY <1>2
  <2> QED BY <1>1, <1>2, <2>1
<1>6. Through(Q, R, 0, 0, c)
  BY <1>3, <1>4, <1>5 DEF Through
<1> QED BY <1>1, <1>3, <1>6 DEF IsWindow, Q

LEMMA PrunedIs ==
  ASSUME NEW s, NEW R \in Seq(Msg), NEW pinned \in Nat, NEW notice \in Nat, NEW max \in Nat, ContextAssumption
  PROVE  IsWindow(Pruned(s, R, pinned, notice, max), R)
<1>1. HeadSize \in Nat /\ SlidingSize \in Nat /\ HybridSize \in Nat
  BY DEF ContextAssumption
<1>2. CASE Strategy(s) = "sliding"
  <2>1. Pruned(s, R, pinned, notice, max) = LastOf(R, SlidingSize)
    BY <1>2 DEF Pruned
  <2> QED BY <1>1, <2>1, LastIsWindow
<1>3. CASE Strategy(s) = "token"
  <2>1. Pruned(s, R, pinned, notice, max) = TokenControl(R, pinned, notice, max)
    BY <1>3 DEF Pruned
  <2> QED BY <2>1, TokenIs
<1>4. CASE Strategy(s) # "sliding" /\ Strategy(s) # "token"
  <2> DEFINE Q == LastOf(R, HybridSize)
  <2>1. Pruned(s, R, pinned, notice, max) = TokenControl(Q, pinned, notice, max)
    BY <1>4 DEF Pruned
  <2>2. Q \in Seq(Msg)
    BY <1>1, LastIs
  <2>3. IsWindow(TokenControl(Q, pinned, notice, max), Q)
    <3> HIDE DEF Q
    <3> QED BY <2>2, TokenIs
  <2> QED BY <1>1, <2>1, <2>3, WindowOfLast
<1> QED BY <1>2, <1>3, <1>4

-----------------------------------------------------------------------------
\* Of a conversation the numbers are the places.
LEMMA PickedNumbers ==
  ASSUME NEW s, IsConversation(s), NEW P \in SUBSET DOMAIN s
  PROVE  /\ IsFiniteSet(P) /\ Cardinality(P) \in Nat /\ P \subseteq 1..Len(s) /\ Len(s) \in Nat
         /\ Picked(s, P) \in Seq(Msg) /\ DOMAIN Picked(s, P) = 1..Cardinality(P) /\ Len(Picked(s, P)) = Cardinality(P)
         /\ \E at : Placed(s, P, Picked(s, P), at) /\ \A k \in 1..Cardinality(P) : Picked(s, P)[k].n = at[k]
<1>1. s \in Seq(Msg) /\ DOMAIN s = 1..Len(s) /\ Len(s) \in Nat /\ \A i \in DOMAIN s : s[i].n = i
  BY DEF IsConversation
<1> DEFINE N == Cardinality(P)
           p == Picked(s, P)
<1>2. /\ IsFiniteSet(P) /\ N \in Nat /\ p \in Seq(Msg) /\ DOMAIN p = 1..N /\ Len(p) = N
      /\ \E at : Placed(s, P, p, at)
  BY <1>1, PickedAt
<1> HIDE DEF N, p
<1>3. PICK at : Placed(s, P, p, at)
  BY <1>2
<1>4. \A k \in 1..N : p[k].n = at[k]
  <2>1. \A k \in 1..N : at[k] \in DOMAIN s /\ p[k] = s[at[k]]
    BY <1>3 DEF Placed, N
  <2> QED BY <1>1, <2>1
<1> QED BY <1>1, <1>2, <1>3, <1>4 DEF N, p

\* How many come before one of the head
Among(B, at, c, j) == \A o \in B : \E i \in (c + 1)..(j - 1) : o = at[i]

LEMMA FewBefore ==
  ASSUME NEW N \in Nat, NEW P, NEW at \in [1..N -> P], NEW c \in Nat, NEW j \in 1..N, c < j,
         NEW B, Among(B, at, c, j)
  PROVE  Cardinality(B) < j - c
<1> DEFINE I == (c + 1)..(j - 1)
           f == [i \in I |-> at[i]]
           A == {x \in P : \E i \in I : x = at[i]}
<1>1. IsFiniteSet(I) /\ Cardinality(I) = j - 1 - c
  <2>1. c + 1 \in Int /\ j - 1 \in Int
    OBVIOUS
  <2>2. IsFiniteSet(I) /\ Cardinality(I) = IF c + 1 > j - 1 THEN 0 ELSE (j - 1) - (c + 1) + 1
    BY <2>1, FS_Interval
  <2> QED BY <2>2
<1>2. f \in Surjection(I, A)
  <2>1. \A i \in I : i \in 1..N
    OBVIOUS
  <2> QED BY <2>1 DEF Surjection
<1>3. IsFiniteSet(A) /\ Cardinality(A) <= Cardinality(I)
  <2> HIDE DEF f, I, A
  <2> QED BY <1>1, <1>2, FS_Surjection
<1>4. B \in SUBSET A
  <2>1. \A i \in I : at[i] \in P
    OBVIOUS
  <2> QED BY <2>1 DEF Among
<1>5. Cardinality(B) <= Cardinality(A) /\ Cardinality(B) \in Nat /\ Cardinality(A) \in Nat
  <2> HIDE DEF A
  <2> QED BY <1>3, <1>4, FS_Subset, FS_CardinalityType
<1> HIDE DEF A, I
<1> QED BY <1>1, <1>3, <1>5

\* The rows that are read are rows of the conversation.
LEMMA RowsAre ==
  ASSUME NEW s, IsConversation(s), ContextAssumption
  PROVE  Older(s) \in Nat /\ RowsRead(s) \subseteq DOMAIN s /\ DOMAIN s = 1..Len(s) /\ Len(s) \in Nat
<1>1. DOMAIN s = 1..Len(s) /\ Len(s) \in Nat
  BY LenProperties DEF IsConversation
<1>2. RowLimit \in Nat
  BY DEF ContextAssumption
<1>3. Older(s) \in Nat
  BY <1>1, <1>2 DEF Older
<1> QED BY <1>1, <1>3 DEF RowsRead

\* What a window leaves of the others is right.
LEMMA RestIs ==
  ASSUME NEW s, IsConversation(s), NEW W, IsWindow(W, Picked(s, RowsRead(s) \ Pinned(s))), NEW l \in Loads,
         l.older = Older(s), l.seen = Len(s), l.rest = W, ContextAssumption
  PROVE  RestRight(s, l)
<1> DEFINE P == RowsRead(s) \ Pinned(s)
           N == Cardinality(P)
           R == Picked(s, P)
           RN == RestNumbers(l)
<1>1. /\ N \in Nat /\ P \subseteq 1..Len(s) /\ Len(s) \in Nat /\ DOMAIN R = 1..N /\ Len(R) = N
      /\ \E at : Placed(s, P, R, at) /\ \A k \in 1..N : R[k].n = at[k]
  <2>1. P \in SUBSET DOMAIN s
    BY RowsAre
  <2> HIDE DEF P
  <2>2. /\ Cardinality(P) \in Nat /\ P \subseteq 1..Len(s) /\ Len(s) \in Nat
        /\ DOMAIN Picked(s, P) = 1..Cardinality(P) /\ Len(Picked(s, P)) = Cardinality(P)
    BY <2>1, PickedNumbers
  <2>3. \E at : Placed(s, P, Picked(s, P), at) /\ \A k \in 1..Cardinality(P) : Picked(s, P)[k].n = at[k]
    BY <2>1, PickedNumbers
  <2> QED BY <2>2, <2>3
<1>2. /\ ReadOf(l) = RowsRead(s) /\ P \subseteq ReadOf(l) /\ ReadOf(l) \subseteq 1..Len(s)
      /\ PinnedOf(s, l) = ReadOf(l) \ P /\ \A n \in ReadOf(l) : n \notin P => s[n].pinned
  <2>1. ReadOf(l) = RowsRead(s) /\ RowsRead(s) \subseteq DOMAIN s /\ DOMAIN s = 1..Len(s)
    BY RowsAre DEF ReadOf, RowsRead
  <2> QED BY <2>1 DEF PinnedOf, Pinned
<1> HIDE DEF P, N, R, RN
<1> PICK at : Placed(s, P, R, at) /\ \A k \in 1..N : R[k].n = at[k]
  BY <1>1
<1>3. /\ at \in [1..N -> P]
      /\ \A k \in 1..N : R[k] = s[at[k]] /\ R[k].n = at[k]
      /\ \A j, k \in 1..N : j < k => at[j] < at[k]
      /\ \A i \in P : \E k \in 1..N : at[k] = i
  BY DEF Placed, N
<1>4. PICK c \in 0..N, d \in 0..N, h \in 0..HeadSize : Through(W, R, c, h, d)
  BY <1>1 DEF IsWindow, R, P
<1> DEFINE I == Window(c, h, d, N)
<1>5. /\ c + h <= d /\ HeadSize \in Nat /\ I \subseteq 1..N
      /\ \A k \in DOMAIN W : \E i \in I : W[k] = R[i]
      /\ \A i \in I : \E k \in DOMAIN W : W[k] = R[i]
      /\ \A i \in 1..N : i \in I <=> i \in (c + 1)..(c + h) \/ d < i
  <2>1. HeadSize \in Nat /\ c \in Nat /\ d \in Nat /\ h \in Nat /\ c + h <= d /\ d <= N
    BY <1>1, <1>4 DEF ContextAssumption, Through
  <2>2. I \subseteq 1..N /\ \A i \in 1..N : i \in I <=> i \in (c + 1)..(c + h) \/ d < i
    <3>1. N \in Nat
      BY <1>1
    <3>2. \A i \in (c + 1)..(c + h) : i \in 1..N
      BY <2>1, <3>1
    <3>3. \A i \in (d + 1)..N : i \in 1..N /\ d < i
      BY <2>1, <3>1
    <3>4. \A i \in 1..N : d < i => i \in (d + 1)..N
      BY <2>1, <3>1
    <3>5. \A i : i \in I <=> i \in (c + 1)..(c + h) \/ i \in (d + 1)..N
      BY DEF Window
    <3> HIDE DEF I
    <3> QED BY <3>2, <3>3, <3>4, <3>5
  <2> QED BY <1>1, <1>4, <2>1, <2>2 DEF Through
<1> HIDE DEF I
<1>6. \A m \in ToSet(l.rest) : \E i \in I : m = s[at[i]] /\ m.n = at[i]
  <2>1. \A m \in ToSet(l.rest) : \E k \in DOMAIN W : m = W[k]
    BY DEF ToSet
  <2>2. \A i \in I : R[i] = s[at[i]] /\ R[i].n = at[i]
    BY <1>3, <1>5
  <2> QED BY <1>5, <2>1, <2>2
<1>7. \A o \in RN : \E i \in I : o = at[i]
  BY <1>6 DEF RN, RestNumbers
<1>8. \A i \in I : at[i] \in RN
  <2> SUFFICES ASSUME NEW i \in I PROVE at[i] \in RN
    OBVIOUS
  <2>1. PICK k \in DOMAIN W : W[k] = R[i]
    BY <1>5
  <2>2. W[k] \in ToSet(l.rest) /\ W[k].n = at[i]
    BY <1>3, <1>5, <2>1 DEF ToSet
  <2> QED BY <2>2 DEF RN, RestNumbers
<1>9. \A i, j \in 1..N : at[i] \in Nat /\ (at[i] < at[j] => i < j)
  <2> SUFFICES ASSUME NEW i \in 1..N, NEW j \in 1..N PROVE at[i] \in Nat /\ (at[i] < at[j] => i < j)
    OBVIOUS
  <2>1. at[i] \in Nat /\ at[j] \in Nat
    <3>1. at[i] \in P /\ at[j] \in P
      BY <1>3
    <3>2. P \subseteq Nat
      BY <1>1
    <3> QED BY <3>1, <3>2
  <2>2. (i = j => at[i] = at[j]) /\ (j < i => at[j] < at[i])
    BY <1>3
  <2>3. i \in Nat /\ j \in Nat
    BY <1>1
  <2> QED BY <2>1, <2>2, <2>3
<1>10. RN \subseteq ReadOf(l) \ PinnedOf(s, l)
  <2>1. RN \subseteq P
    BY <1>3, <1>5, <1>7
  <2> QED BY <1>1, <1>2, <2>1
<1>11. \A m \in ToSet(l.rest) : m = s[m.n]
  BY <1>6
<1>12. ASSUME NEW j \in I, j \in (c + 1)..(c + h) PROVE at[j] \in HeadOf(RN)
  <2> DEFINE B == {o \in RN : o < at[j]}
  <2>1. c \in Nat /\ h \in Nat /\ j \in 1..N /\ c < j /\ j <= c + h /\ h <= HeadSize /\ d \in Nat
    BY <1>1, <1>4, <1>5, <1>12
  <2>2. ASSUME NEW o \in B PROVE \E i \in (c + 1)..(j - 1) : o = at[i]
    <3>1. PICK i \in I : o = at[i]
      BY <1>7
    <3>2. i \in 1..N /\ i < j
      BY <1>5, <1>9, <2>1, <2>2, <3>1
    <3>3. i \in (c + 1)..(j - 1)
      BY <1>1, <1>5, <2>1, <3>2
    <3> QED BY <3>1, <3>3
  <2> HIDE DEF B
  <2>3. Cardinality(B) < j - c
    <3>1. Among(B, at, c, j)
      BY <2>2 DEF Among
    <3>2. N \in Nat /\ at \in [1..N -> P] /\ c \in Nat /\ j \in 1..N /\ c < j
      BY <1>1, <1>3, <2>1
    <3> QED BY <3>1, <3>2, FewBefore
  <2>4. Cardinality(B) \in Nat /\ IsFiniteSet(B)
    <3>1. B \in SUBSET (1..Len(s))
      BY <1>2, <1>10 DEF B
    <3>2. IsFiniteSet(1..Len(s))
      BY <1>1, FS_Interval
    <3> QED BY <3>1, <3>2, FS_Subset, FS_CardinalityType
  <2>5. Cardinality(B) < HeadSize
    BY <1>5, <2>1, <2>3, <2>4
  <2> QED BY <1>8, <2>5 DEF HeadOf, B
<1>13. ASSUME NEW n \in ReadOf(l) \ RN, ~s[n].pinned, NEW o \in RN \ HeadOf(RN) PROVE n < o
  <2>1. PICK j \in I : o = at[j]
    BY <1>7
  <2>2. n \in P
    BY <1>2, <1>13
  <2>3. PICK k \in 1..N : at[k] = n
    BY <1>3, <2>2
  <2>4. k \notin I
    BY <1>8, <2>3
  <2>5. j \notin (c + 1)..(c + h) /\ j \in 1..N
    BY <1>5, <1>12, <2>1
  <2>6. d < j /\ ~(d < k)
    BY <1>5, <2>4, <2>5
  <2>7. k < j
    BY <1>1, <2>5, <2>6
  <2> QED BY <1>3, <2>1, <2>3, <2>5, <2>7
<1> QED BY <1>10, <1>11, <1>13 DEF RestRight, RN

\* A list that goes up has as many different numbers as places.
LEMMA CountUp ==
  ASSUME NEW M \in Nat, NEW f \in [1..M -> Nat], \A j, k \in 1..M : j < k => f[j] < f[k],
         NEW S, \A x : x \in S <=> \E k \in 1..M : x = f[k]
  PROVE  Cardinality(S) = M
<1>1. IsFiniteSet(1..M) /\ Cardinality(1..M) = M
  BY FS_Interval
<1>2. f \in [1..M -> S]
  OBVIOUS
<1>3. ASSUME NEW j \in 1..M, NEW k \in 1..M, f[j] = f[k] PROVE j = k
  <2>1. f[j] \in Nat /\ ~(j < k) /\ ~(k < j)
    BY <1>3
  <2> QED BY <2>1
<1>4. f \in Bijection(1..M, S)
  BY <1>2, <1>3 DEF Bijection, Injection, Surjection, IsInjective
<1>5. ExistsBijection(1..M, S)
  BY <1>4 DEF ExistsBijection
<1> QED BY <1>1, <1>5, FS_Bijection

\* What is kept of the pinned messages is right.
LEMMA PinsIs ==
  ASSUME NEW s, IsConversation(s), NEW pins, pins = Picked(s, RowsRead(s) \cap Pinned(s)),
         NEW K, K \subseteq 1..Len(pins), Len(pins) > 0 => Len(pins) \in K,
         NEW l \in Loads, l.older = Older(s), l.seen = Len(s), RowsRead(s) \subseteq DOMAIN s,
         l.pins = Picked(pins, K), l.cut = Len(pins) - Len(l.pins)
  PROVE  PinsRight(s, l)
<1> DEFINE P == RowsRead(s) \cap Pinned(s)
           N == Cardinality(P)
           M == Cardinality(K)
           kept == Picked(pins, K)
<1>1. /\ IsFiniteSet(P) /\ N \in Nat /\ P \subseteq 1..Len(s) /\ Len(s) \in Nat
      /\ pins \in Seq(Msg) /\ DOMAIN pins = 1..N /\ Len(pins) = N
      /\ \E at : Placed(s, P, pins, at) /\ \A k \in 1..N : pins[k].n = at[k]
  <2>1. P \in SUBSET DOMAIN s
    OBVIOUS
  <2> HIDE DEF P
  <2>2. pins = Picked(s, P)
    BY DEF P
  <2>3. /\ IsFiniteSet(P) /\ Cardinality(P) \in Nat /\ P \subseteq 1..Len(s) /\ Len(s) \in Nat
        /\ pins \in Seq(Msg) /\ DOMAIN pins = 1..Cardinality(P) /\ Len(pins) = Cardinality(P)
    BY <2>1, <2>2, PickedNumbers
  <2>4. \E at : Placed(s, P, pins, at) /\ \A k \in 1..Cardinality(P) : pins[k].n = at[k]
    <3>1. \E at : Placed(s, P, Picked(s, P), at) /\ \A k \in 1..Cardinality(P) : Picked(s, P)[k].n = at[k]
      BY <2>1, PickedNumbers
    <3> QED BY <2>2, <3>1
  <2> QED BY <2>3, <2>4
<1>2. PinnedOf(s, l) = P
  <2>1. ReadOf(l) = RowsRead(s) /\ RowsRead(s) \subseteq DOMAIN s
    BY DEF ReadOf, RowsRead
  <2> QED BY <2>1 DEF PinnedOf, Pinned
<1> HIDE DEF P, N
<1> PICK at : Placed(s, P, pins, at) /\ \A k \in 1..N : pins[k].n = at[k]
  BY <1>1
<1>3. /\ at \in [1..N -> P]
      /\ \A k \in 1..N : pins[k].n = at[k]
      /\ \A j, k \in 1..N : j < k => at[j] < at[k]
      /\ \A i \in P : \E k \in 1..N : at[k] = i
  BY DEF Placed, N
<1>4. M \in Nat /\ DOMAIN kept = 1..M /\ Len(kept) = M /\ \E on : Placed(pins, K, kept, on)
  <2>1. K \in SUBSET DOMAIN pins
    BY <1>1
  <2> QED BY <1>1, <2>1, PickedAt
<1> HIDE DEF M, kept
<1> PICK on : Placed(pins, K, kept, on)
  BY <1>4
<1>5. /\ on \in [1..M -> K]
      /\ \A k \in 1..M : kept[k] = pins[on[k]]
      /\ \A j, k \in 1..M : j < k => on[j] < on[k]
      /\ \A i \in K : \E k \in 1..M : on[k] = i
  BY DEF Placed, M
<1>6. \A k \in 1..M : on[k] \in 1..N /\ on[k] \in K /\ kept[k].n = at[on[k]]
  <2>1. \A k \in 1..M : on[k] \in K /\ on[k] \in 1..N
    BY <1>1, <1>5
  <2> QED BY <1>3, <1>5, <2>1
<1>7. l.pins = kept
  BY DEF kept
<1>8. \A k \in 1..N : at[k] \in P /\ at[k] \in Nat
  <2>1. \A k \in 1..N : at[k] \in P
    BY <1>3
  <2>2. \A k \in 1..N : at[k] \in 1..Len(s)
    BY <1>1, <2>1
  <2> QED BY <1>1, <2>1, <2>2
<1>9. \A j, k \in 1..M : j < k => kept[j].n < kept[k].n
  BY <1>3, <1>5, <1>6
<1>10. \A x : x \in PinNumbers(l) <=> \E k \in 1..M : x = at[on[k]]
  <2>1. \A x : x \in PinNumbers(l) <=> \E k \in 1..M : x = kept[k].n
    BY <1>4, <1>7 DEF PinNumbers, ToSet
  <2> QED BY <1>6, <2>1
<1>11. PinNumbers(l) \subseteq P
  BY <1>6, <1>8, <1>10
<1>12. Cardinality(PinNumbers(l)) = M
  <2> DEFINE f == [k \in 1..M |-> at[on[k]]]
  <2>1. f \in [1..M -> Nat] /\ \A j, k \in 1..M : j < k => f[j] < f[k]
    <3>1. \A k \in 1..M : at[on[k]] \in Nat
      BY <1>6, <1>8
    <3>2. \A j, k \in 1..M : j < k => at[on[j]] < at[on[k]]
      BY <1>6, <1>9
    <3> QED BY <3>1, <3>2
  <2>2. \A x : x \in PinNumbers(l) <=> \E k \in 1..M : x = f[k]
    BY <1>10
  <2> HIDE DEF f
  <2> QED BY <1>4, <2>1, <2>2, CountUp
<1>13. Cardinality(PinNumbers(l)) + l.cut = Cardinality(PinnedOf(s, l))
  <2>1. l.cut = N - M
    BY <1>1, <1>4, <1>7
  <2> QED BY <1>1, <1>2, <1>4, <1>12, <2>1 DEF N
<1>14. ASSUME P # {} PROVE Max(P) \in PinNumbers(l)
  <2>1. Max(P) \in P /\ \A i \in P : i <= Max(P)
    <3>1. P \subseteq 0..Len(s)
      BY <1>1
    <3> QED BY <1>1, <1>14, <3>1, GreatestOf
  <2>2. PICK k \in 1..N : at[k] = Max(P)
    BY <1>3, <2>1
  <2>3. N \in 1..N /\ k <= N
    BY <1>1
  <2>4. at[N] \in P /\ at[N] <= at[k] /\ at[N] \in Nat /\ at[k] \in Nat
    BY <1>8, <2>1, <2>2, <2>3
  <2>5. ~(k < N)
    BY <1>3, <2>3, <2>4
  <2>6. k = N /\ N \in K
    BY <1>1, <2>3, <2>5
  <2>7. PICK j \in 1..M : on[j] = N
    BY <1>5, <2>6
  <2> QED BY <1>10, <2>2, <2>6, <2>7
<1> QED BY <1>2, <1>4, <1>7, <1>9, <1>11, <1>13, <1>14 DEF PinsRight

\* load() leaves what is right.
LEMMA LoadIs ==
  ASSUME NEW s, IsConversation(s), NEW max \in Nat, ContextAssumption
  PROVE  LoadOK(s, Loaded(s, max))
<1> DEFINE pins == Picked(s, RowsRead(s) \cap Pinned(s))
           K == PinsKept(pins, PinBudget(max))
           kept == Picked(pins, K)
           cut == Len(pins) - Len(kept)
           R == Picked(s, RowsRead(s) \ Pinned(s))
           notice == IF cut > 0 THEN 1 ELSE 0
           W == Pruned(Picked(s, RowsRead(s)), R, SizeOf(kept), notice, max)
           l == [pins |-> kept, cut |-> cut, older |-> Older(s), seen |-> Len(s), rest |-> W]
<1>1. Loaded(s, max) = l
  BY DEF Loaded
<1>2. pins \in Seq(Msg) /\ DOMAIN pins = 1..Len(pins) /\ Len(pins) \in Nat
  <2>1. (RowsRead(s) \cap Pinned(s)) \in SUBSET DOMAIN s
    BY RowsAre
  <2>2. pins \in Seq(Msg)
    BY <2>1, PickedNumbers
  <2> HIDE DEF pins
  <2> QED BY <2>2, LenProperties
<1> HIDE DEF pins
<1>3. K \subseteq 1..Len(pins) /\ (Len(pins) > 0 => Len(pins) \in K)
  BY <1>2, PinsKeptIs
<1> HIDE DEF K
<1>4. kept \in Seq(Msg) /\ Len(kept) = Cardinality(K) /\ Cardinality(K) \in Nat /\ Cardinality(K) <= Len(pins)
  <2>1. K \in SUBSET DOMAIN pins /\ K \in SUBSET (1..Len(pins))
    BY <1>2, <1>3
  <2>2. IsFiniteSet(1..Len(pins)) /\ Cardinality(1..Len(pins)) = Len(pins)
    <3>1. 1 \in Int /\ Len(pins) \in Int
      BY <1>2
    <3>2. /\ IsFiniteSet(1..Len(pins))
          /\ Cardinality(1..Len(pins)) = IF 1 > Len(pins) THEN 0 ELSE Len(pins) - 1 + 1
      BY <3>1, FS_Interval
    <3> QED BY <1>2, <3>2
  <2>3. Cardinality(K) <= Cardinality(1..Len(pins))
    BY <2>1, <2>2, FS_Subset
  <2> QED BY <1>2, <2>1, <2>2, <2>3, PickedAt
<1> HIDE DEF kept
<1>5. cut \in Nat
  BY <1>2, <1>4
<1>6. R \in Seq(Msg)
  <2>1. (RowsRead(s) \ Pinned(s)) \in SUBSET DOMAIN s
    BY RowsAre
  <2> QED BY <2>1, PickedNumbers
<1>7. IsWindow(W, R) /\ W \in Seq(Msg)
  <2>1. SizeOf(kept) \in Nat /\ notice \in Nat
    BY <1>4, SizeIs
  <2>2. IsWindow(W, R)
    <3> HIDE DEF R, notice
    <3> QED BY <1>6, <2>1, PrunedIs
  <2> QED BY <2>2 DEF IsWindow
<1> HIDE DEF W, cut
<1>8. Len(s) \in Nat /\ Older(s) \in Nat
  BY RowsAre
<1>9. l \in Loads /\ l.older = Older(s) /\ l.seen = Len(s) /\ l.pins = kept /\ l.cut = cut /\ l.rest = W
  BY <1>4, <1>5, <1>7, <1>8 DEF Loads
<1> HIDE DEF l
<1>10. PinsRight(s, l)
  BY <1>3, <1>9, RowsAre, PinsIs DEF pins, kept, cut
<1>11. RestRight(s, l)
  BY <1>7, <1>9, RestIs DEF R
<1> QED BY <1>1, <1>8, <1>9, <1>10, <1>11 DEF LoadOK

-----------------------------------------------------------------------------
\* Messages that are added behind those load() has seen change nothing of it.
Extends(t, s) == s \in Seq(Msg) /\ t \in Seq(Msg) /\ Len(s) <= Len(t) /\ \A i \in 1..Len(s) : t[i] = s[i]

LEMMA LoadStays == ASSUME NEW s, NEW t, Extends(t, s), NEW l, LoadOK(s, l) PROVE LoadOK(t, l)
<1>1. l \in Loads /\ l.older \in Nat /\ l.seen \in Nat /\ Len(s) \in Nat /\ Len(t) \in Nat /\ l.seen <= Len(s) /\ Len(s) <= Len(t)
  BY DEF LoadOK, Loads, Extends
<1>2. \A n \in ReadOf(l) : n \in 1..Len(s) /\ t[n] = s[n]
  BY <1>1 DEF Extends, ReadOf
<1>3. PinnedOf(t, l) = PinnedOf(s, l)
  BY <1>2 DEF PinnedOf
<1>4. PinsRight(t, l)
  BY <1>3 DEF PinsRight, LoadOK
<1>5. RestRight(s, l)
  BY DEF LoadOK
<1>6. ASSUME NEW m \in ToSet(l.rest) PROVE m = t[m.n]
  <2>1. m.n \in RestNumbers(l)
    BY DEF RestNumbers
  <2>2. m.n \in ReadOf(l) /\ m = s[m.n]
    BY <1>5, <2>1 DEF RestRight
  <2>3. t[m.n] = s[m.n]
    BY <1>2, <2>2
  <2> QED BY <2>2, <2>3
<1>7. ASSUME NEW n \in ReadOf(l) \ RestNumbers(l), ~t[n].pinned, NEW o \in RestNumbers(l) \ HeadOf(RestNumbers(l))
      PROVE  n < o
  <2>1. ~s[n].pinned
    BY <1>2, <1>7
  <2> QED BY <1>5, <1>7, <2>1 DEF RestRight
<1>8. RestRight(t, l)
  BY <1>3, <1>5, <1>6, <1>7 DEF RestRight
<1> QED BY <1>1, <1>4, <1>8 DEF LoadOK

LEMMA ListStays == ASSUME NEW s, NEW t, Extends(t, s), NEW l, ListOK(s, l) PROVE ListOK(t, l)
BY LoadStays DEF ListOK

-----------------------------------------------------------------------------
\* Two lists one after the other
LEMMA JoinedInOrder ==
  ASSUME NEW a \in Seq(Item), NEW b \in Seq(Item), InOrder(a), InOrder(b),
         \A x \in ToSet(a), y \in ToSet(b) : Ahead(x, y)
  PROVE  /\ a \o b \in Seq(Item) /\ InOrder(a \o b) /\ ToSet(a \o b) = ToSet(a) \cup ToSet(b)
         /\ \A what : NumbersIn(a \o b, what) = NumbersIn(a, what) \cup NumbersIn(b, what)
<1> DEFINE u == a \o b
<1>1. u \in Seq(Item) /\ IsJoin(a, b, u)
  BY Joined
<1> HIDE DEF u
<1>2. /\ Len(a) \in Nat /\ Len(b) \in Nat /\ DOMAIN a = 1..Len(a) /\ DOMAIN b = 1..Len(b) /\ DOMAIN u = 1..Len(u)
      /\ Len(u) = Len(a) + Len(b)
  BY <1>1, LenProperties DEF IsJoin
<1>3. /\ \A i \in DOMAIN a : i \in DOMAIN u /\ u[i] = a[i]
      /\ \A j \in DOMAIN b : Len(a) + j \in DOMAIN u /\ u[Len(a) + j] = b[j]
      /\ \A k \in DOMAIN u : \/ k \in DOMAIN a /\ u[k] = a[k]
                             \/ k > Len(a) /\ k - Len(a) \in DOMAIN b /\ u[k] = b[k - Len(a)]
  BY <1>1 DEF IsJoin
<1>4. ToSet(u) = ToSet(a) \cup ToSet(b)
  <2>1. ASSUME NEW x \in ToSet(u) PROVE x \in ToSet(a) \/ x \in ToSet(b)
    BY <1>3 DEF ToSet
  <2>2. ASSUME NEW x \in ToSet(a) PROVE x \in ToSet(u)
    BY <1>3 DEF ToSet
  <2>3. ASSUME NEW x \in ToSet(b) PROVE x \in ToSet(u)
    BY <1>3 DEF ToSet
  <2> QED BY <2>1, <2>2, <2>3
<1>5. ASSUME NEW j \in DOMAIN u, NEW k \in DOMAIN u, j < k PROVE Ahead(u[j], u[k])
  <2>1. CASE j \in DOMAIN a /\ u[j] = a[j] /\ k \in DOMAIN a /\ u[k] = a[k]
    BY <1>5, <2>1 DEF InOrder
  <2>2. CASE j \in DOMAIN a /\ u[j] = a[j] /\ k - Len(a) \in DOMAIN b /\ u[k] = b[k - Len(a)]
    BY <2>2 DEF ToSet
  <2>3. CASE /\ j > Len(a) /\ j - Len(a) \in DOMAIN b /\ u[j] = b[j - Len(a)]
             /\ k > Len(a) /\ k - Len(a) \in DOMAIN b /\ u[k] = b[k - Len(a)]
    <3>1. j - Len(a) < k - Len(a)
      BY <1>2, <1>5
    <3> QED BY <2>3, <3>1 DEF InOrder
  <2>4. ~(j > Len(a) /\ k \in DOMAIN a)
    BY <1>2, <1>5
  <2> QED BY <1>3, <2>1, <2>2, <2>3, <2>4
<1>6. \A what : NumbersIn(u, what) = NumbersIn(a, what) \cup NumbersIn(b, what)
  BY <1>4 DEF NumbersIn
<1> QED BY <1>1, <1>4, <1>5, <1>6 DEF InOrder, u

\* Entries that are neither of pinned messages nor the notice may stand anywhere.
LEMMA Apart ==
  ASSUME NEW x, NEW y, x.what \notin {"pinned", "notice"} \/ y.what \notin {"pinned", "notice"} \/ x.what # y.what
  PROVE  Ahead(x, y)
BY DEF Ahead

\* One entry is a list in order.
LEMMA OneEntry ==
  ASSUME NEW e \in Item
  PROVE  /\ <<e>> \in Seq(Item) /\ InOrder(<<e>>) /\ ToSet(<<e>>) = {e}
         /\ NumbersIn(<<e>>, e.what) = {e.n} /\ \A what : what # e.what => NumbersIn(<<e>>, what) = {}
<1>1. <<e>> \in Seq(Item) /\ DOMAIN <<e>> = {1} /\ <<e>>[1] = e
  OBVIOUS
<1>2. ToSet(<<e>>) = {e}
  BY <1>1 DEF ToSet
<1>3. InOrder(<<e>>)
  BY <1>1 DEF InOrder
<1>4. NumbersIn(<<e>>, e.what) = {e.n} /\ \A what : what # e.what => NumbersIn(<<e>>, what) = {}
  BY <1>2 DEF NumbersIn
<1> QED BY <1>1, <1>2, <1>3, <1>4

\* The entries that say something of the messages
Kinds == MessageRoles \cup {"pinned", "notice"}

\* An entry of another kind leaves what a list says of the messages, wherever it is put.
LEMMA InsertIs ==
  ASSUME NEW a \in Seq(Item), InOrder(a), NEW i \in 1..(Len(a) + 1), NEW e \in Item, e.what \notin Kinds
  PROVE  /\ InsertAt(a, i, e) \in Seq(Item) /\ InOrder(InsertAt(a, i, e))
         /\ \A what \in Kinds : NumbersIn(InsertAt(a, i, e), what) = NumbersIn(a, what)
<1> DEFINE x == SubSeq(a, 1, i - 1)
           y == SubSeq(a, i, Len(a))
<1>1. Len(a) \in Nat /\ DOMAIN a = 1..Len(a) /\ i \in Nat /\ 1 <= i /\ i <= Len(a) + 1
  BY LenProperties
<1>2. x \in Seq(Item) /\ DOMAIN x = 1..(i - 1) /\ \A k \in 1..(i - 1) : x[k] = a[k]
  <2>1. /\ x \in Seq(Item) /\ Len(x) = IF 1 <= i - 1 THEN i - 1 - 1 + 1 ELSE 0
        /\ \A k \in 1..(i - 1 - 1 + 1) : x[k] = a[1 + k - 1]
    <3>1. 1 \in Int /\ i - 1 \in Int /\ \A k \in 1..(i - 1) : a[k] \in Item
      BY <1>1
    <3> QED BY <3>1, SubSeqProperties
  <2> HIDE DEF x
  <2>2. Len(x) = i - 1
    BY <1>1, <2>1
  <2>3. DOMAIN x = 1..(i - 1)
    BY <2>1, <2>2, LenProperties
  <2>4. \A k \in 1..(i - 1) : k \in 1..(i - 1 - 1 + 1) /\ 1 + k - 1 = k
    BY <1>1
  <2> QED BY <2>1, <2>3, <2>4
<1>3. y \in Seq(Item) /\ DOMAIN y = 1..(Len(a) + 1 - i) /\ \A k \in 1..(Len(a) + 1 - i) : y[k] = a[i + k - 1]
  <2>1. /\ y \in Seq(Item) /\ Len(y) = IF i <= Len(a) THEN Len(a) - i + 1 ELSE 0
        /\ \A k \in 1..(Len(a) - i + 1) : y[k] = a[i + k - 1]
    <3>1. i \in Int /\ Len(a) \in Int /\ \A k \in i..Len(a) : a[k] \in Item
      BY <1>1
    <3> QED BY <3>1, SubSeqProperties
  <2> HIDE DEF y
  <2>2. Len(y) = Len(a) + 1 - i
    BY <1>1, <2>1
  <2>3. DOMAIN y = 1..(Len(a) + 1 - i)
    BY <2>1, <2>2, LenProperties
  <2>4. \A k \in 1..(Len(a) + 1 - i) : k \in 1..(Len(a) - i + 1)
    BY <1>1
  <2> QED BY <2>1, <2>3, <2>4
<1> HIDE DEF x, y
<1>4. InOrder(x)
  <2> SUFFICES ASSUME NEW j \in 1..(i - 1), NEW k \in 1..(i - 1), j < k PROVE Ahead(x[j], x[k])
    BY <1>2 DEF InOrder
  <2>1. j \in DOMAIN a /\ k \in DOMAIN a
    BY <1>1
  <2> QED BY <1>2, <2>1 DEF InOrder
<1>5. InOrder(y)
  <2> SUFFICES ASSUME NEW j \in 1..(Len(a) + 1 - i), NEW k \in 1..(Len(a) + 1 - i), j < k PROVE Ahead(y[j], y[k])
    BY <1>3 DEF InOrder
  <2>1. i + j - 1 \in DOMAIN a /\ i + k - 1 \in DOMAIN a /\ i + j - 1 < i + k - 1
    BY <1>1
  <2> QED BY <1>3, <2>1 DEF InOrder
<1>6. \A p \in ToSet(x), q \in ToSet(y) : Ahead(p, q)
  <2> SUFFICES ASSUME NEW j \in 1..(i - 1), NEW k \in 1..(Len(a) + 1 - i) PROVE Ahead(x[j], y[k])
    BY <1>2, <1>3 DEF ToSet
  <2>1. j \in DOMAIN a /\ i + k - 1 \in DOMAIN a /\ j < i + k - 1
    BY <1>1
  <2> QED BY <1>2, <1>3, <2>1 DEF InOrder
<1>7. ToSet(a) = ToSet(x) \cup ToSet(y)
  <2>1. ASSUME NEW m \in ToSet(a) PROVE m \in ToSet(x) \/ m \in ToSet(y)
    <3>1. PICK k \in 1..Len(a) : m = a[k]
      BY <1>1 DEF ToSet
    <3>2. CASE k < i
      <4>1. k \in 1..(i - 1)
        BY <1>1, <3>2
      <4> QED BY <1>2, <3>1, <4>1 DEF ToSet
    <3>3. CASE ~(k < i)
      <4>1. k - i + 1 \in 1..(Len(a) + 1 - i) /\ i + (k - i + 1) - 1 = k
        BY <1>1, <3>3
      <4>2. y[k - i + 1] = m
        BY <1>3, <3>1, <4>1
      <4> QED BY <1>3, <4>1, <4>2 DEF ToSet
    <3> QED BY <3>2, <3>3
  <2>2. ASSUME NEW m \in ToSet(x) PROVE m \in ToSet(a)
    <3>1. PICK k \in 1..(i - 1) : m = a[k]
      BY <1>2 DEF ToSet
    <3>2. k \in DOMAIN a
      BY <1>1
    <3> QED BY <3>1, <3>2 DEF ToSet
  <2>3. ASSUME NEW m \in ToSet(y) PROVE m \in ToSet(a)
    <3>1. PICK k \in 1..(Len(a) + 1 - i) : m = a[i + k - 1]
      BY <1>3 DEF ToSet
    <3>2. i + k - 1 \in DOMAIN a
      BY <1>1
    <3> QED BY <3>1, <3>2 DEF ToSet
  <2> QED BY <2>1, <2>2, <2>3
<1>8. e.what \notin {"pinned", "notice"}
  BY DEF Kinds
<1>9. /\ x \o <<e>> \in Seq(Item) /\ InOrder(x \o <<e>>) /\ ToSet(x \o <<e>>) = ToSet(x) \cup {e}
      /\ \A what : NumbersIn(x \o <<e>>, what) = NumbersIn(x, what) \cup NumbersIn(<<e>>, what)
  <2>1. <<e>> \in Seq(Item) /\ InOrder(<<e>>) /\ ToSet(<<e>>) = {e}
    BY OneEntry
  <2>2. \A p \in ToSet(x), q \in ToSet(<<e>>) : Ahead(p, q)
    BY <1>8, <2>1, Apart
  <2> DEFINE f == <<e>>
  <2> HIDE DEF f
  <2>3. f \in Seq(Item) /\ InOrder(f) /\ ToSet(f) = {e} /\ \A p \in ToSet(x), q \in ToSet(f) : Ahead(p, q)
    BY <2>1, <2>2 DEF f
  <2>4. /\ x \o f \in Seq(Item) /\ InOrder(x \o f) /\ ToSet(x \o f) = ToSet(x) \cup ToSet(f)
        /\ \A what : NumbersIn(x \o f, what) = NumbersIn(x, what) \cup NumbersIn(f, what)
    BY <1>2, <1>4, <2>3, JoinedInOrder
  <2> QED BY <2>3, <2>4 DEF f
<1> DEFINE z == x \o <<e>>
<1> HIDE DEF z
<1>10. /\ z \o y \in Seq(Item) /\ InOrder(z \o y)
       /\ \A what : NumbersIn(z \o y, what) = NumbersIn(z, what) \cup NumbersIn(y, what)
  <2>1. \A p \in ToSet(z), q \in ToSet(y) : Ahead(p, q)
    <3>1. \A q \in ToSet(y) : Ahead(e, q)
      BY <1>8, Apart
    <3> QED BY <1>6, <1>9, <3>1 DEF z
  <2> QED BY <1>3, <1>5, <1>9, <2>1, JoinedInOrder DEF z
<1>11. InsertAt(a, i, e) = z \o y
  BY DEF InsertAt, x, y, z
<1>12. \A what \in Kinds : NumbersIn(z \o y, what) = NumbersIn(a, what)
  <2> SUFFICES ASSUME NEW what \in Kinds PROVE NumbersIn(z \o y, what) = NumbersIn(a, what)
    OBVIOUS
  <2>1. NumbersIn(<<e>>, what) = {}
    BY OneEntry
  <2>2. NumbersIn(a, what) = NumbersIn(x, what) \cup NumbersIn(y, what)
    BY <1>7 DEF NumbersIn
  <2>3. NumbersIn(z, what) = NumbersIn(x, what)
    BY <1>9, <2>1 DEF z
  <2> QED BY <1>10, <2>2, <2>3
<1> QED BY <1>10, <1>11, <1>12

\* Entries of other kinds behind a list leave what it says of the messages.
LEMMA AddedIs ==
  ASSUME NEW a \in Seq(Item), InOrder(a), NEW e \in Item, NEW f \in Item, e.what \notin Kinds, f.what \notin Kinds
  PROVE  /\ a \o <<e, f>> \in Seq(Item) /\ InOrder(a \o <<e, f>>)
         /\ \A what \in Kinds : NumbersIn(a \o <<e, f>>, what) = NumbersIn(a, what)
<1> DEFINE b == <<e, f>>
<1>1. b \in Seq(Item) /\ DOMAIN b = {1, 2} /\ b[1] = e /\ b[2] = f
  OBVIOUS
<1> HIDE DEF b
<1>2. e.what \notin {"pinned", "notice"} /\ f.what \notin {"pinned", "notice"}
  BY DEF Kinds
<1>3. ToSet(b) = {e, f}
  BY <1>1 DEF ToSet
<1>4. InOrder(b)
  <2>1. \A j, k \in DOMAIN b : Ahead(b[j], b[k])
    BY <1>1, <1>2, Apart
  <2> QED BY <2>1 DEF InOrder
<1>5. \A p \in ToSet(a), q \in ToSet(b) : Ahead(p, q)
  BY <1>2, <1>3, Apart
<1>6. /\ a \o b \in Seq(Item) /\ InOrder(a \o b)
      /\ \A what : NumbersIn(a \o b, what) = NumbersIn(a, what) \cup NumbersIn(b, what)
  BY <1>1, <1>4, <1>5, JoinedInOrder
<1>7. \A what \in Kinds : NumbersIn(b, what) = {}
  BY <1>3 DEF NumbersIn
<1> QED BY <1>6, <1>7 DEF b

-----------------------------------------------------------------------------
LEMMA MessagesIn ==
  ASSUME NEW q \in Seq(Msg)
  PROVE  /\ DOMAIN q = 1..Len(q) /\ Len(q) \in Nat
         /\ \A i \in DOMAIN q : q[i] \in Msg /\ q[i].n \in Nat /\ q[i].role \in MessageRoles
<1>1. DOMAIN q = 1..Len(q) /\ Len(q) \in Nat /\ \A i \in DOMAIN q : q[i] \in Msg
  BY LenProperties
<1> QED BY <1>1 DEF Msg

\* The list that build() makes of what load() has left
LEMMA BuiltIs ==
  ASSUME NEW s, NEW l, LoadOK(s, l), IsConversation(s)
  PROVE  ListOK(s, [items |-> BuiltList(l), from |-> l])
<1> DEFINE a == IF l.cut > 0 THEN <<Entry("notice", l.cut, "build")>> ELSE <<>>
           b == [i \in DOMAIN l.pins |-> Entry("pinned", l.pins[i].n, "build")]
           e == Entry("workspace", 0, "build")
           c == <<e>>
           d == [i \in DOMAIN l.rest |-> Entry(l.rest[i].role, l.rest[i].n, "build")]
<1>1. l.pins \in Seq(Msg) /\ l.rest \in Seq(Msg) /\ l.cut \in Nat
  BY DEF LoadOK, Loads
<1>2. /\ a \in Seq(Item) /\ InOrder(a) /\ \A x \in ToSet(a) : x.what = "notice"
      /\ NumbersIn(a, "notice") = IF l.cut > 0 THEN {l.cut} ELSE {}
      /\ \A what : what # "notice" => NumbersIn(a, what) = {}
  <2>1. CASE l.cut > 0
    <3> DEFINE f == Entry("notice", l.cut, "build")
    <3>1. f \in Item /\ f.what = "notice" /\ f.n = l.cut
      BY <1>1 DEF Entry, Item
    <3>2. a = <<f>>
      BY <2>1
    <3> HIDE DEF f, a
    <3>3. /\ <<f>> \in Seq(Item) /\ InOrder(<<f>>) /\ ToSet(<<f>>) = {f}
          /\ NumbersIn(<<f>>, f.what) = {f.n} /\ \A what : what # f.what => NumbersIn(<<f>>, what) = {}
      BY <3>1, OneEntry
    <3> QED BY <2>1, <3>1, <3>2, <3>3
  <2>2. CASE ~(l.cut > 0)
    <3>1. a = <<>> /\ <<>> \in Seq(Item) /\ DOMAIN <<>> = {}
      BY <2>2
    <3> HIDE DEF a
    <3>2. ToSet(a) = {}
      BY <3>1 DEF ToSet
    <3> QED BY <2>2, <3>1, <3>2 DEF InOrder, NumbersIn
  <2> QED BY <2>1, <2>2
<1>3. /\ b \in Seq(Item) /\ InOrder(b) /\ \A x \in ToSet(b) : x.what = "pinned"
      /\ NumbersIn(b, "pinned") = PinNumbers(l)
      /\ \A what : what # "pinned" => NumbersIn(b, what) = {}
  <2>1. DOMAIN l.pins = 1..Len(l.pins) /\ Len(l.pins) \in Nat /\ \A i \in DOMAIN l.pins : l.pins[i].n \in Nat
    BY <1>1, MessagesIn
  <2>2. /\ DOMAIN b = DOMAIN l.pins
        /\ \A i \in DOMAIN l.pins : b[i] \in Item /\ b[i].what = "pinned" /\ b[i].n = l.pins[i].n
    BY <2>1 DEF Entry, Item
  <2>3. b \in [1..Len(l.pins) -> Item]
    BY <2>1 DEF Entry, Item
  <2>4. b \in Seq(Item)
    <3> HIDE DEF b
    <3> QED BY <2>1, <2>3, ListOf
  <2> HIDE DEF b
  <2>5. \A x \in ToSet(b) : \E i \in DOMAIN l.pins : x.what = "pinned" /\ x.n = l.pins[i].n
    BY <2>2 DEF ToSet
  <2>6. InOrder(b)
    <3>1. \A i, j \in DOMAIN l.pins : i < j => l.pins[i].n < l.pins[j].n
      BY DEF LoadOK, PinsRight
    <3> QED BY <2>2, <3>1 DEF InOrder, Ahead
  <2>7. NumbersIn(b, "pinned") = PinNumbers(l)
    <3>1. ASSUME NEW n \in NumbersIn(b, "pinned") PROVE n \in PinNumbers(l)
      BY <2>5 DEF NumbersIn, PinNumbers, ToSet
    <3>2. ASSUME NEW n \in PinNumbers(l) PROVE n \in NumbersIn(b, "pinned")
      <4>1. PICK i \in DOMAIN l.pins : n = l.pins[i].n
        BY DEF PinNumbers, ToSet
      <4>2. b[i] \in ToSet(b) /\ b[i].what = "pinned" /\ b[i].n = n
        BY <2>2, <4>1 DEF ToSet
      <4> QED BY <4>2 DEF NumbersIn
    <3> QED BY <3>1, <3>2
  <2> QED BY <2>4, <2>5, <2>6, <2>7 DEF NumbersIn
<1>4. /\ c \in Seq(Item) /\ InOrder(c) /\ \A x \in ToSet(c) : x.what = "workspace"
      /\ \A what \in Kinds : NumbersIn(c, what) = {}
  <2>1. e \in Item /\ e.what = "workspace"
    BY DEF Entry, Item
  <2> HIDE DEF e
  <2>2. /\ <<e>> \in Seq(Item) /\ InOrder(<<e>>) /\ ToSet(<<e>>) = {e}
        /\ \A what : what # e.what => NumbersIn(<<e>>, what) = {}
    BY <2>1, OneEntry
  <2>3. "workspace" \notin Kinds
    BY DEF Kinds, MessageRoles
  <2> QED BY <2>1, <2>2, <2>3
<1>5. /\ d \in Seq(Item) /\ InOrder(d) /\ \A x \in ToSet(d) : x.what \in MessageRoles
      /\ \A role \in MessageRoles : NumbersIn(d, role) = {m.n : m \in {o \in ToSet(l.rest) : o.role = role}}
      /\ \A what : what \notin MessageRoles => NumbersIn(d, what) = {}
  <2>1. DOMAIN l.rest = 1..Len(l.rest) /\ Len(l.rest) \in Nat
        /\ \A i \in DOMAIN l.rest : l.rest[i].n \in Nat /\ l.rest[i].role \in MessageRoles
    BY <1>1, MessagesIn
  <2>2. /\ DOMAIN d = DOMAIN l.rest
        /\ \A i \in DOMAIN l.rest : d[i] \in Item /\ d[i].what = l.rest[i].role /\ d[i].n = l.rest[i].n
    BY <2>1 DEF Entry, Item
  <2>3. d \in [1..Len(l.rest) -> Item]
    BY <2>1 DEF Entry, Item
  <2>4. d \in Seq(Item)
    <3> HIDE DEF d
    <3> QED BY <2>1, <2>3, ListOf
  <2> HIDE DEF d
  <2>5. \A x \in ToSet(d) : \E i \in DOMAIN l.rest : x.what = l.rest[i].role /\ x.n = l.rest[i].n
    BY <2>2 DEF ToSet
  <2>6. \A x \in ToSet(d) : x.what \in MessageRoles
    BY <2>1, <2>5
  <2>7. InOrder(d)
    <3>1. \A i \in DOMAIN d : d[i].what \notin {"pinned", "notice"}
      BY <2>1, <2>2 DEF MessageRoles
    <3> QED BY <3>1, Apart DEF InOrder
  <2>8. ASSUME NEW role \in MessageRoles
        PROVE  NumbersIn(d, role) = {m.n : m \in {o \in ToSet(l.rest) : o.role = role}}
    <3>1. ASSUME NEW n \in NumbersIn(d, role) PROVE \E m \in ToSet(l.rest) : m.role = role /\ n = m.n
      BY <2>5 DEF NumbersIn, ToSet
    <3>2. ASSUME NEW m \in ToSet(l.rest), m.role = role PROVE m.n \in NumbersIn(d, role)
      <4>1. PICK i \in DOMAIN l.rest : m = l.rest[i]
        BY DEF ToSet
      <4>2. d[i] \in ToSet(d) /\ d[i].what = role /\ d[i].n = m.n
        BY <2>2, <3>2, <4>1 DEF ToSet
      <4> QED BY <4>2 DEF NumbersIn
    <3> QED BY <3>1, <3>2
  <2>9. \A what : what \notin MessageRoles => NumbersIn(d, what) = {}
    BY <2>6 DEF NumbersIn
  <2> QED BY <2>4, <2>6, <2>7, <2>8, <2>9
<1>6. BuiltList(l) = a \o b \o c \o d
  BY DEF BuiltList
<1> HIDE DEF a, b, c, d
<1> DEFINE ab == a \o b
           abc == ab \o c
           abcd == abc \o d
<1>7. /\ ab \in Seq(Item) /\ InOrder(ab) /\ \A x \in ToSet(ab) : x.what \in {"notice", "pinned"}
      /\ \A what : NumbersIn(ab, what) = NumbersIn(a, what) \cup NumbersIn(b, what)
  <2>1. \A p \in ToSet(a), q \in ToSet(b) : Ahead(p, q)
    BY <1>2, <1>3, Apart
  <2>2. /\ ab \in Seq(Item) /\ InOrder(ab) /\ ToSet(ab) = ToSet(a) \cup ToSet(b)
        /\ \A what : NumbersIn(ab, what) = NumbersIn(a, what) \cup NumbersIn(b, what)
    BY <1>2, <1>3, <2>1, JoinedInOrder
  <2> HIDE DEF ab
  <2> QED BY <1>2, <1>3, <2>2
<1> HIDE DEF ab
<1>8. /\ abc \in Seq(Item) /\ InOrder(abc) /\ \A x \in ToSet(abc) : x.what \in {"notice", "pinned", "workspace"}
      /\ \A what : NumbersIn(abc, what) = NumbersIn(ab, what) \cup NumbersIn(c, what)
  <2>1. \A p \in ToSet(ab), q \in ToSet(c) : Ahead(p, q)
    BY <1>4, <1>7, Apart
  <2>2. /\ abc \in Seq(Item) /\ InOrder(abc) /\ ToSet(abc) = ToSet(ab) \cup ToSet(c)
        /\ \A what : NumbersIn(abc, what) = NumbersIn(ab, what) \cup NumbersIn(c, what)
    BY <1>4, <1>7, <2>1, JoinedInOrder
  <2> HIDE DEF abc
  <2> QED BY <1>4, <1>7, <2>2
<1> HIDE DEF abc
<1>9. /\ abcd \in Seq(Item) /\ InOrder(abcd)
      /\ \A what : NumbersIn(abcd, what) = NumbersIn(abc, what) \cup NumbersIn(d, what)
  <2>1. \A q \in ToSet(d) : q.what \notin {"notice", "pinned"}
    BY <1>5 DEF MessageRoles
  <2>2. \A p \in ToSet(abc), q \in ToSet(d) : Ahead(p, q)
    BY <2>1, Apart
  <2> QED BY <1>5, <1>8, <2>2, JoinedInOrder
<1> HIDE DEF abcd
<1>10. \A what \in Kinds : NumbersIn(abcd, what) = NumbersIn(a, what) \cup NumbersIn(b, what) \cup NumbersIn(d, what)
  BY <1>4, <1>7, <1>8, <1>9
<1>11. "pinned" \in Kinds /\ "notice" \in Kinds /\ "pinned" \notin MessageRoles /\ "notice" \notin MessageRoles
       /\ MessageRoles \subseteq Kinds
  BY DEF Kinds, MessageRoles
<1>12. NumbersIn(abcd, "pinned") = PinNumbers(l)
  BY <1>2, <1>3, <1>5, <1>10, <1>11
<1>13. NumbersIn(abcd, "notice") = IF l.cut > 0 THEN {l.cut} ELSE {}
  BY <1>2, <1>3, <1>5, <1>10, <1>11
<1>14. ASSUME NEW role \in MessageRoles
       PROVE  NumbersIn(abcd, role) = {m.n : m \in {o \in ToSet(l.rest) : o.role = role}}
  <2>1. role \in Kinds /\ role # "pinned" /\ role # "notice"
    BY <1>11
  <2>2. NumbersIn(abcd, role) = NumbersIn(d, role)
    BY <1>2, <1>3, <1>10, <2>1
  <2> QED BY <1>5, <2>2
<1>15. BuiltList(l) = abcd
  BY <1>6 DEF ab, abc, abcd
<1> QED BY <1>9, <1>12, <1>13, <1>14, <1>15 DEF ListOK

-----------------------------------------------------------------------------
LEMMA MessageIs ==
  ASSUME NEW n \in Nat, NEW role \in MessageRoles, NEW pinned \in BOOLEAN, NEW size \in Nat
  PROVE  Message(n, role, pinned, size) \in Msg /\ Message(n, role, pinned, size).n = n
BY DEF Message, Msg

\* A message that is added has the next number.
LEMMA AddedMessage ==
  ASSUME NEW s, IsConversation(s), NEW m \in Msg, m.n = Len(s) + 1
  PROVE  IsConversation(Append(s, m)) /\ Extends(Append(s, m), s)
<1>1. s \in Seq(Msg) /\ Len(s) \in Nat /\ DOMAIN s = 1..Len(s) /\ \A i \in 1..Len(s) : s[i].n = i
  BY LenProperties DEF IsConversation
<1> DEFINE t == Append(s, m)
<1>2. t \in Seq(Msg) /\ Len(t) = Len(s) + 1 /\ (\A i \in 1..Len(s) : t[i] = s[i]) /\ t[Len(s) + 1] = m
  BY <1>1, AppendProperties
<1> HIDE DEF t
<1>3. DOMAIN t = 1..(Len(s) + 1)
  BY <1>2, LenProperties
<1>4. ASSUME NEW i \in DOMAIN t PROVE t[i].n = i
  <2>1. i \in 1..Len(s) \/ i = Len(s) + 1
    BY <1>1, <1>3
  <2> QED BY <1>1, <1>2, <2>1
<1> QED BY <1>1, <1>2, <1>4 DEF IsConversation, Extends, t

\* Nothing has been loaded of no messages.
LEMMA NothingLoaded == LoadOK(<<>>, [pins |-> <<>>, cut |-> 0, older |-> 0, seen |-> 0, rest |-> <<>>])
<1> DEFINE e == <<>>
           l == [pins |-> e, cut |-> 0, older |-> 0, seen |-> 0, rest |-> e]
<1>1. e \in Seq(Msg) /\ DOMAIN e = {} /\ Len(e) = 0
  OBVIOUS
<1> HIDE DEF e
<1>2. l \in Loads /\ l.pins = e /\ l.cut = 0 /\ l.older = 0 /\ l.seen = 0 /\ l.rest = e
  BY <1>1 DEF Loads
<1> HIDE DEF l
<1>3. ToSet(l.pins) = {} /\ ToSet(l.rest) = {}
  BY <1>1, <1>2 DEF ToSet
<1>4. PinNumbers(l) = {} /\ RestNumbers(l) = {} /\ PinnedOf(e, l) = {} /\ ReadOf(l) = {}
  BY <1>2, <1>3 DEF PinNumbers, RestNumbers, PinnedOf, ReadOf
<1>5. Cardinality({}) = 0
  BY FS_EmptySet
<1>6. PinsRight(e, l)
  BY <1>1, <1>2, <1>4, <1>5 DEF PinsRight
<1>7. RestRight(e, l)
  BY <1>2, <1>3, <1>4 DEF RestRight
<1> QED BY <1>1, <1>2, <1>6, <1>7 DEF LoadOK, l, e

LEMMA ContextStarts == ContextInit => ContextInv
<1> SUFFICES ASSUME ContextInit PROVE ContextInv
  OBVIOUS
<1>1. IsConversation(rows)
  BY DEF ContextInit, IsConversation
<1>2. LoadedInv
  <2> DEFINE l == [pins |-> <<>>, cut |-> 0, older |-> 0, seen |-> 0, rest |-> <<>>]
  <2>1. LoadOK(<<>>, l)
    BY NothingLoaded
  <2>2. l \in Loads
    BY <2>1 DEF LoadOK
  <2>3. rows = <<>> /\ loaded = [r \in Speakers |-> l]
    BY DEF ContextInit
  <2> HIDE DEF l
  <2> QED BY <2>1, <2>2, <2>3 DEF LoadedInv
<1>3. ListsInv
  BY DEF ContextInit, ListsInv
<1>4. UsesInv
  BY DEF ContextInit, UsesInv
<1> QED BY <1>1, <1>2, <1>3, <1>4 DEF ContextInv

LEMMA RowsGrow ==
  ASSUME ContextInv, Extends(rows', rows), loaded' = loaded, lists' = lists
  PROVE  LoadedInv' /\ ListsInv'
<1>1. LoadedInv'
  <2>1. \A r \in Speakers : LoadOK(rows', loaded[r])
    BY LoadStays DEF ContextInv, LoadedInv
  <2> QED BY <2>1 DEF ContextInv, LoadedInv
<1>2. ListsInv'
  <2>1. \A i \in DOMAIN lists : ListOK(rows', lists[i])
    BY ListStays DEF ContextInv, ListsInv
  <2> QED BY <2>1 DEF ContextInv, ListsInv
<1> QED BY <1>1, <1>2

LEMMA AskAgentsStep == ASSUME ContextInv, AskAgents, ContextAssumption PROVE ContextInv'
<1>1. PICK n \in 0..(MaxRows - 1) : \E f \in [1..n -> {"user", "assistant"} \X BOOLEAN \X Sizes] :
          AskedWith([i \in 1..n |-> Message(i, f[i][1], f[i][2], f[i][3])])
  BY DEF AskAgents
<1>2. PICK f \in [1..n -> {"user", "assistant"} \X BOOLEAN \X Sizes] :
          AskedWith([i \in 1..n |-> Message(i, f[i][1], f[i][2], f[i][3])])
  BY <1>1
<1> DEFINE s == [i \in 1..n |-> Message(i, f[i][1], f[i][2], f[i][3])]
<1>3. n \in Nat /\ Sizes \subseteq Nat
  BY DEF ContextAssumption
<1>4. \A i \in 1..n : Message(i, f[i][1], f[i][2], f[i][3]) \in Msg /\ Message(i, f[i][1], f[i][2], f[i][3]).n = i
  <2> SUFFICES ASSUME NEW i \in 1..n
               PROVE  Message(i, f[i][1], f[i][2], f[i][3]) \in Msg /\ Message(i, f[i][1], f[i][2], f[i][3]).n = i
    OBVIOUS
  <2>1. f[i][1] \in MessageRoles /\ f[i][2] \in BOOLEAN /\ f[i][3] \in Nat /\ i \in Nat
    <3>1. f[i] \in {"user", "assistant"} \X BOOLEAN \X Sizes
      OBVIOUS
    <3>2. f[i][1] \in {"user", "assistant"} /\ f[i][2] \in BOOLEAN /\ f[i][3] \in Sizes
      BY <3>1
    <3>3. f[i][3] \in Nat
      BY <1>3, <3>2
    <3>4. i \in Nat
      BY <1>3
    <3>5. f[i][1] \in MessageRoles
      BY <3>2 DEF MessageRoles
    <3> QED BY <3>2, <3>3, <3>4, <3>5, Zenon
  <2> QED BY <2>1, MessageIs
<1>5. s \in [1..n -> Msg] /\ \A i \in 1..n : s[i].n = i
  BY <1>4
<1>6. AskedWith(s)
  BY <1>2
<1> HIDE DEF s
<1>7. s \in Seq(Msg) /\ Len(s) = n /\ DOMAIN s = 1..n
  <2>1. s \in Seq(Msg)
    BY <1>3, <1>5, ListOf
  <2>2. DOMAIN s = 1..n
    BY <1>5
  <2> QED BY <1>3, <2>1, <2>2, LenProperties
<1>8. IsConversation(s)
  BY <1>5, <1>7 DEF IsConversation
<1>9. rows = <<>> /\ UNCHANGED <<ctx_at, loaded, lists, list_of, build_cache>>
  BY <1>6 DEF AskedWith
<1>10. PICK size \in Sizes : rows' = Append(s, Message(Len(s) + 1, "user", FALSE, size))
  BY <1>6 DEF AskedWith
<1>11. IsConversation(rows')
  <2> DEFINE m == Message(Len(s) + 1, "user", FALSE, size)
  <2>1. m \in Msg /\ m.n = Len(s) + 1
    <3>1. Len(s) + 1 \in Nat /\ "user" \in MessageRoles /\ FALSE \in BOOLEAN /\ size \in Nat
      BY <1>3, <1>7 DEF MessageRoles
    <3> QED BY <3>1, MessageIs
  <2> HIDE DEF m
  <2>2. IsConversation(Append(s, m))
    BY <1>8, <2>1, AddedMessage
  <2> QED BY <1>10, <2>2 DEF m
<1>12. Extends(rows', rows)
  <2>1. rows' \in Seq(Msg)
    BY <1>11 DEF IsConversation
  <2>2. rows \in Seq(Msg) /\ Len(rows) = 0
    BY <1>9
  <2>3. Len(rows') \in Nat
    BY <2>1
  <2> QED BY <2>1, <2>2, <2>3 DEF Extends
<1>13. LoadedInv' /\ ListsInv'
  BY <1>9, <1>12, RowsGrow
<1>14. UsesInv'
  BY <1>9 DEF ContextInv, UsesInv
<1> QED BY <1>11, <1>13, <1>14 DEF ContextInv

LEMMA LoadStep == ASSUME ContextInv, NEW r \in Speakers, Load(r), ContextAssumption PROVE ContextInv'
<1>1. /\ loaded' = [loaded EXCEPT ![r] = Loaded(rows, MaxTokens[r])]
      /\ ctx_at' = [ctx_at EXCEPT ![r] = "loaded"] /\ UNCHANGED <<rows, lists, list_of, build_cache>>
  BY DEF Load
<1>2. LoadOK(rows, Loaded(rows, MaxTokens[r]))
  <2>1. MaxTokens[r] \in Nat
    BY DEF ContextAssumption
  <2> QED BY <2>1, LoadIs DEF ContextInv
<1>3. LoadedInv'
  <2>1. Loaded(rows, MaxTokens[r]) \in Loads
    BY <1>2 DEF LoadOK
  <2> QED BY <1>1, <1>2, <2>1 DEF ContextInv, LoadedInv
<1>4. IsConversation(rows)' /\ ListsInv'
  BY <1>1 DEF ContextInv, ListsInv
<1>5. UsesInv'
  BY <1>1 DEF ContextInv, UsesInv
<1> QED BY <1>3, <1>4, <1>5 DEF ContextInv

LEMMA BuildStep == ASSUME ContextInv, NEW r \in Speakers, Build(r) PROVE ContextInv'
<1> DEFINE k == CacheKey(loaded[r])
           new == [items |-> BuiltList(loaded[r]), from |-> loaded[r]]
<1>1. ctx_at' = [ctx_at EXCEPT ![r] = "built"] /\ rows' = rows /\ loaded' = loaded
  BY DEF Build
<1>2. lists \in Seq(BuiltLists) /\ DOMAIN lists = 1..Len(lists) /\ Len(lists) \in Nat
      /\ \A i \in DOMAIN lists : ListOK(rows, lists[i])
  BY LenProperties DEF ContextInv, ListsInv
<1>3. IsConversation(rows)' /\ LoadedInv'
  BY <1>1 DEF ContextInv, LoadedInv
<1>4. CASE k \in DOMAIN build_cache
  <2>1. list_of' = [list_of EXCEPT ![r] = build_cache[k]] /\ UNCHANGED <<lists, build_cache>>
    BY <1>4 DEF Build
  <2>2. ListsInv'
    BY <1>1, <2>1 DEF ContextInv, ListsInv
  <2>3. build_cache[k] \in DOMAIN lists /\ build_cache[k] \in Nat
    BY <1>2, <1>4 DEF ContextInv, UsesInv
  <2> HIDE DEF k
  <2>4. UsesInv'
    BY <1>1, <2>1, <2>3 DEF ContextInv, UsesInv
  <2> QED BY <1>3, <2>2, <2>4 DEF ContextInv
<1>5. CASE k \notin DOMAIN build_cache
  <2>1. /\ lists' = Append(lists, new) /\ list_of' = [list_of EXCEPT ![r] = Len(lists')]
        /\ build_cache' = [j \in DOMAIN build_cache \cup {k} |-> IF j = k THEN Len(lists') ELSE build_cache[j]]
    BY <1>5 DEF Build
  <2>2. ListOK(rows, new)
    <3>1. IsConversation(rows) /\ LoadOK(rows, loaded[r])
      BY DEF ContextInv, LoadedInv
    <3> QED BY <3>1, BuiltIs
  <2>3. new \in BuiltLists
    <3>1. new.items \in Seq(Item) /\ new.from \in Loads
      BY <2>2 DEF ListOK, LoadOK
    <3>2. new = [items |-> new.items, from |-> new.from]
      OBVIOUS
    <3> HIDE DEF new
    <3> QED BY <3>1, <3>2 DEF BuiltLists
  <2> HIDE DEF new, k
  <2>4. /\ lists' \in Seq(BuiltLists) /\ Len(lists') = Len(lists) + 1 /\ lists'[Len(lists) + 1] = new
        /\ \A i \in 1..Len(lists) : lists'[i] = lists[i]
    BY <1>2, <2>1, <2>3, AppendProperties
  <2>5. DOMAIN lists' = 1..(Len(lists) + 1)
    BY <2>4, LenProperties
  <2>6. ListsInv'
    <3>1. ASSUME NEW i \in DOMAIN lists' PROVE ListOK(rows, lists'[i])
      <4>1. i \in 1..Len(lists) \/ i = Len(lists) + 1
        BY <1>2, <2>5
      <4> QED BY <1>2, <2>2, <2>4, <4>1
    <3> QED BY <1>1, <2>4, <3>1 DEF ListsInv
  <2>7. Len(lists') \in DOMAIN lists' /\ Len(lists') \in Nat /\ \A i \in DOMAIN lists : i \in DOMAIN lists'
    BY <1>2, <2>4, <2>5
  <2>8. UsesInv'
    <3>1. \A j \in DOMAIN build_cache' : build_cache'[j] \in DOMAIN lists'
      <4>1. \A j \in DOMAIN build_cache : build_cache[j] \in DOMAIN lists
        BY DEF ContextInv, UsesInv
      <4> QED BY <2>1, <2>7, <4>1
    <3>2. list_of' \in [Speakers -> Nat] /\ list_of'[r] = Len(lists') /\ \A x \in Speakers : x # r => list_of'[x] = list_of[x]
      BY <2>1, <2>7 DEF ContextInv, UsesInv
    <3>3. ASSUME NEW x \in Speakers, ctx_at'[x] \in {"built", "asking", "answering"} PROVE list_of'[x] \in DOMAIN lists'
      <4>1. CASE x = r
        BY <2>7, <3>2, <4>1
      <4>2. CASE x # r
        <5>1. ctx_at'[x] = ctx_at[x]
          BY <1>1, <4>2 DEF ContextInv, UsesInv
        <5>2. list_of[x] \in DOMAIN lists
          BY <3>3, <5>1 DEF ContextInv, UsesInv
        <5> QED BY <2>7, <3>2, <4>2, <5>2
      <4> QED BY <4>1, <4>2
    <3>4. (ctx_at \in [Speakers -> {"idle", "loaded", "built", "asking", "answering", "over"}])'
      BY <1>1 DEF ContextInv, UsesInv
    <3> QED BY <3>1, <3>2, <3>3, <3>4 DEF UsesInv
  <2> QED BY <1>3, <2>6, <2>8 DEF ContextInv
<1> QED BY <1>4, <1>5

LEMMA ExpireStep == ASSUME ContextInv, Expire PROVE ContextInv'
<1>1. build_cache' = [k \in {} |-> 0] /\ UNCHANGED <<rows, ctx_at, loaded, lists, list_of>>
  BY DEF Expire
<1>2. IsConversation(rows)' /\ LoadedInv' /\ ListsInv'
  BY <1>1 DEF ContextInv, LoadedInv, ListsInv
<1>3. UsesInv'
  BY <1>1 DEF ContextInv, UsesInv
<1> QED BY <1>2, <1>3 DEF ContextInv

\* A reply writes entries of its own into its list.
LEMMA WriteStep ==
  ASSUME ContextInv, NEW r \in Speakers, ctx_at[r] \in {"built", "asking"}, NEW items \in Seq(Item), Write(r, items),
         InOrder(items), \A what \in Kinds : NumbersIn(items, what) = NumbersIn(lists[list_of[r]].items, what),
         NEW next \in {"asking", "answering"},
         ctx_at' = [ctx_at EXCEPT ![r] = next], UNCHANGED <<rows, loaded, list_of, build_cache>>
  PROVE  ContextInv'
<1> DEFINE w == list_of[r]
<1>1. w \in DOMAIN lists /\ lists \in Seq(BuiltLists) /\ \A i \in DOMAIN lists : ListOK(rows, lists[i])
  BY DEF ContextInv, ListsInv, UsesInv
<1>2. lists' = [lists EXCEPT ![w].items = items]
  BY DEF Write
<1> HIDE DEF w
<1>3. DOMAIN lists = 1..Len(lists) /\ Len(lists) \in Nat /\ \A i \in DOMAIN lists : lists[i] \in BuiltLists
  BY <1>1, LenProperties
<1>4. /\ DOMAIN lists' = DOMAIN lists
      /\ lists'[w] = [lists[w] EXCEPT !.items = items] /\ \A i \in DOMAIN lists : i # w => lists'[i] = lists[i]
  BY <1>1, <1>2
<1>5. lists'[w] \in BuiltLists /\ lists'[w].items = items /\ lists'[w].from = lists[w].from
  BY <1>1, <1>3, <1>4 DEF BuiltLists
<1>6. lists' \in Seq(BuiltLists)
  <2>1. lists' \in [1..Len(lists) -> BuiltLists]
    <3>1. \A i \in DOMAIN lists : lists'[i] \in BuiltLists
      BY <1>3, <1>4, <1>5
    <3>2. lists' = [i \in DOMAIN lists |-> lists'[i]]
      BY <1>2
    <3> QED BY <1>3, <3>1, <3>2
  <2> QED BY <1>3, <2>1, ListOf
<1>7. ListOK(rows, lists'[w])
  <2>1. ListOK(rows, lists[w])
    BY <1>1
  <2>2. \A what \in Kinds : NumbersIn(lists'[w].items, what) = NumbersIn(lists[w].items, what)
    BY <1>5 DEF w
  <2>3. "pinned" \in Kinds /\ "notice" \in Kinds /\ MessageRoles \subseteq Kinds
    BY DEF Kinds
  <2>4. NumbersIn(lists'[w].items, "pinned") = PinNumbers(lists'[w].from)
    BY <1>5, <2>1, <2>2, <2>3 DEF ListOK
  <2>5. NumbersIn(lists'[w].items, "notice") = IF lists'[w].from.cut > 0 THEN {lists'[w].from.cut} ELSE {}
    BY <1>5, <2>1, <2>2, <2>3 DEF ListOK
  <2>6. ASSUME NEW role \in MessageRoles
        PROVE  NumbersIn(lists'[w].items, role) = {m.n : m \in {o \in ToSet(lists'[w].from.rest) : o.role = role}}
    <3>1. NumbersIn(lists[w].items, role) = {m.n : m \in {o \in ToSet(lists[w].from.rest) : o.role = role}}
      BY <2>1 DEF ListOK
    <3>2. NumbersIn(lists'[w].items, role) = NumbersIn(lists[w].items, role)
      BY <2>2, <2>3
    <3> QED BY <1>5, <3>1, <3>2
  <2>7. LoadOK(rows, lists'[w].from)
    BY <1>5, <2>1 DEF ListOK
  <2> QED BY <1>5, <2>4, <2>5, <2>6, <2>7 DEF ListOK
<1>8. ListsInv'
  <2>1. \A i \in DOMAIN lists' : ListOK(rows, lists'[i])
    BY <1>1, <1>4, <1>7
  <2> QED BY <1>6, <2>1 DEF ListsInv
<1>9. IsConversation(rows)' /\ LoadedInv'
  BY DEF ContextInv, LoadedInv
<1>10. UsesInv'
  <2>1. ASSUME NEW x \in Speakers, ctx_at'[x] \in {"built", "asking", "answering"} PROVE list_of'[x] \in DOMAIN lists'
    <3>1. x # r => ctx_at'[x] = ctx_at[x]
      BY DEF ContextInv, UsesInv
    <3>2. ctx_at[x] \in {"built", "asking", "answering"}
      BY <2>1, <3>1
    <3> QED BY <1>4, <3>2 DEF ContextInv, UsesInv
  <2>2. (ctx_at \in [Speakers -> {"idle", "loaded", "built", "asking", "answering", "over"}])'
    BY DEF ContextInv, UsesInv
  <2> QED BY <1>4, <2>1, <2>2 DEF ContextInv, UsesInv
<1> QED BY <1>8, <1>9, <1>10 DEF ContextInv

LEMMA EntryIs ==
  ASSUME NEW what \in {"prompt", "call", "result"}, NEW r \in Speakers
  PROVE  Entry(what, 0, r) \in Item /\ Entry(what, 0, r).what \notin Kinds
BY DEF Entry, Item, Kinds, MessageRoles

LEMMA ItemsOf ==
  ASSUME ContextInv, NEW r \in Speakers, ctx_at[r] \in {"built", "asking"}
  PROVE  lists[list_of[r]].items \in Seq(Item) /\ InOrder(lists[list_of[r]].items)
<1>1. list_of[r] \in DOMAIN lists
  BY DEF ContextInv, UsesInv
<1>2. ListOK(rows, lists[list_of[r]])
  BY <1>1 DEF ContextInv, ListsInv
<1> QED BY <1>2 DEF ListOK

LEMMA PromptStep == ASSUME ContextInv, NEW r \in Speakers, Prompt(r) PROVE ContextInv'
<1> DEFINE items == lists[list_of[r]].items
           users == {i \in DOMAIN items : items[i].what = "user"}
           place == IF users = {} THEN 1 ELSE Min(users)
           e == Entry("prompt", 0, r)
<1>1. /\ ctx_at[r] \in {"built", "asking"} /\ Write(r, InsertAt(items, place, e))
      /\ ctx_at' = [ctx_at EXCEPT ![r] = "asking"] /\ UNCHANGED <<rows, loaded, list_of, build_cache>>
  BY DEF Prompt
<1>2. items \in Seq(Item) /\ InOrder(items)
  BY <1>1, ItemsOf
<1>3. e \in Item /\ e.what \notin Kinds
  BY EntryIs
<1> HIDE DEF items, e
<1>4. place \in 1..(Len(items) + 1)
  <2>1. Len(items) \in Nat /\ users \subseteq 1..Len(items)
    BY <1>2, LenProperties
  <2>2. CASE users = {}
    BY <2>1, <2>2
  <2>3. CASE users # {}
    <3>1. place = Min(users) /\ users \subseteq Nat
      BY <2>1, <2>3
    <3> HIDE DEF users, place
    <3>2. Min(users) \in users
      BY <2>3, <3>1, LeastOf
    <3>3. Min(users) \in 1..Len(items)
      BY <2>1, <3>2
    <3> QED BY <2>1, <3>1, <3>3
  <2> QED BY <2>2, <2>3
<1> HIDE DEF place
<1> DEFINE new == InsertAt(items, place, e)
<1>5. /\ new \in Seq(Item) /\ InOrder(new) /\ \A what \in Kinds : NumbersIn(new, what) = NumbersIn(items, what)
  BY <1>2, <1>3, <1>4, InsertIs
<1> HIDE DEF new
<1>6. Write(r, new)
  BY <1>1 DEF new
<1> QED BY <1>1, <1>5, <1>6, WriteStep DEF items

LEMMA ToolStepStep == ASSUME ContextInv, NEW r \in Speakers, ToolStep(r) PROVE ContextInv'
<1> DEFINE items == lists[list_of[r]].items
           e == Entry("call", 0, r)
           f == Entry("result", 0, r)
           new == items \o <<e, f>>
<1>1. /\ ctx_at[r] \in {"built", "asking"} /\ Write(r, new)
      /\ ctx_at' = [ctx_at EXCEPT ![r] = "answering"] /\ UNCHANGED <<rows, loaded, list_of, build_cache>>
  BY DEF ToolStep
<1>2. items \in Seq(Item) /\ InOrder(items)
  BY <1>1, ItemsOf
<1>3. e \in Item /\ e.what \notin Kinds /\ f \in Item /\ f.what \notin Kinds
  BY EntryIs
<1> HIDE DEF items, e, f
<1>4. /\ new \in Seq(Item) /\ InOrder(new) /\ \A what \in Kinds : NumbersIn(new, what) = NumbersIn(items, what)
  BY <1>2, <1>3, AddedIs
<1> HIDE DEF new
<1> QED BY <1>1, <1>4, WriteStep DEF items

LEMMA ReplyEndsStep == ASSUME ContextInv, NEW r \in Speakers, ReplyEnds(r) PROVE ContextInv'
<1> DEFINE m == Message(Len(rows) + 1, "assistant", FALSE, 1)
<1>1. rows' = Append(rows, m) /\ ctx_at' = [ctx_at EXCEPT ![r] = "over"] /\ UNCHANGED <<loaded, lists, list_of, build_cache>>
  BY DEF ReplyEnds
<1>2. m \in Msg /\ m.n = Len(rows) + 1
  <2>1. Len(rows) + 1 \in Nat /\ "assistant" \in MessageRoles /\ FALSE \in BOOLEAN /\ 1 \in Nat
    BY DEF ContextInv, IsConversation, MessageRoles
  <2> QED BY <2>1, MessageIs
<1> HIDE DEF m
<1>3. IsConversation(rows') /\ Extends(rows', rows)
  BY <1>1, <1>2, AddedMessage DEF ContextInv
<1>4. LoadedInv' /\ ListsInv'
  BY <1>1, <1>3, RowsGrow
<1>5. UsesInv'
  BY <1>1 DEF ContextInv, UsesInv
<1> QED BY <1>3, <1>4, <1>5 DEF ContextInv

\* The whole of it is an invariant: what has been loaded and what is sent is right of the
\* conversation as it was then.
THEOREM ContextInvariance == ContextSpec => []ContextInv
<1>1. ContextInit => ContextInv
  BY ContextStarts
<1>2. ContextInv /\ [ContextNext]_ctxVars => ContextInv'
  <2> SUFFICES ASSUME ContextInv, [ContextNext]_ctxVars PROVE ContextInv'
    OBVIOUS
  <2>1. CASE AskAgents
    BY <2>1, ContextAssumption, AskAgentsStep
  <2>2. ASSUME NEW r \in Speakers, Load(r) \/ Build(r) \/ Prompt(r) \/ ToolStep(r) \/ ReplyEnds(r) PROVE ContextInv'
    BY <2>2, ContextAssumption, LoadStep, BuildStep, PromptStep, ToolStepStep, ReplyEndsStep
  <2>3. CASE Expire
    BY <2>3, ExpireStep
  <2>4. CASE UNCHANGED ctxVars
    <3>1. IsConversation(rows)' /\ LoadedInv' /\ ListsInv'
      BY <2>4 DEF ctxVars, ContextInv, LoadedInv, ListsInv
    <3>2. UsesInv'
      BY <2>4 DEF ctxVars, ContextInv, UsesInv
    <3> QED BY <3>1, <3>2 DEF ContextInv
  <2> QED BY <2>1, <2>2, <2>3, <2>4 DEF ContextNext
<1> QED BY <1>1, <1>2, PTL DEF ContextSpec

LEMMA ContextShows == ContextInv => ContextSound
<1> SUFFICES ASSUME ContextInv, NEW l \in ToSet(lists)
    PROVE LET read == (l.from.older + 1)..l.from.seen
              pinned == {n \in read : rows[n].pinned}
              kept == NumbersOf(l, "pinned")
              rest == {n \in 1..l.from.seen : n \in NumbersOf(l, rows[n].role)}
              head == {n \in rest : Cardinality({o \in rest : o < n}) < HeadSize}
          IN /\ \A i, j \in DOMAIN l.items : i < j => Ahead(l.items[i], l.items[j])
             /\ kept \subseteq pinned /\ Cardinality(kept) + l.from.cut = Cardinality(pinned)
             /\ pinned # {} => Max(pinned) \in kept
             /\ NumbersOf(l, "notice") = IF l.from.cut > 0 THEN {l.from.cut} ELSE {}
             /\ rest \subseteq read
             /\ \A n \in read \ rest : ~rows[n].pinned => \A o \in rest \ head : n < o
  BY DEF ContextSound
<1> DEFINE f == l.from
           rest == {n \in 1..f.seen : n \in NumbersOf(l, rows[n].role)}
<1>1. ListOK(rows, l)
  BY DEF ContextInv, ListsInv, ToSet
<1>2. PinsRight(rows, f) /\ RestRight(rows, f) /\ f \in Loads
  BY <1>1 DEF ListOK, LoadOK
<1>3. \A what : NumbersOf(l, what) = NumbersIn(l.items, what)
  BY DEF NumbersOf, NumbersIn
<1>4. {n \in (f.older + 1)..f.seen : rows[n].pinned} = PinnedOf(rows, f) /\ ReadOf(f) = (f.older + 1)..f.seen
  BY DEF PinnedOf, ReadOf
<1>5. rest = RestNumbers(f)
  <2>1. ASSUME NEW n \in rest PROVE n \in RestNumbers(f)
    <3>1. PICK e \in ToSet(l.items) : e.what = rows[n].role /\ e.n = n
      BY DEF NumbersOf
    <3>2. n \in Nat /\ n \in 1..Len(rows)
      BY <1>1, <1>2 DEF ListOK, LoadOK, ContextInv, IsConversation, Loads
    <3>3. rows[n].role \in MessageRoles
      BY <3>2, MessagesIn DEF ContextInv, IsConversation
    <3>4. n \in {m.n : m \in {o \in ToSet(f.rest) : o.role = rows[n].role}}
      BY <1>1, <1>3, <3>3 DEF ListOK
    <3> QED BY <3>4 DEF RestNumbers
  <2>2. ASSUME NEW n \in RestNumbers(f) PROVE n \in rest
    <3>1. PICK m \in ToSet(f.rest) : n = m.n
      BY DEF RestNumbers
    <3>2. n \in 1..f.seen /\ m = rows[n]
      <4>1. n \in ReadOf(f) /\ m = rows[n] /\ f.older \in Nat /\ f.seen \in Nat
        BY <1>2, <3>1 DEF RestRight, Loads
      <4> QED BY <4>1 DEF ReadOf
    <3>3. m.role \in MessageRoles
      <4>1. f.rest \in Seq(Msg)
        BY <1>2 DEF Loads
      <4> QED BY <4>1, MessagesIn DEF ToSet
    <3>4. n \in NumbersIn(l.items, m.role)
      <4>1. NumbersIn(l.items, m.role) = {x.n : x \in {o \in ToSet(f.rest) : o.role = m.role}}
        BY <1>1, <3>3 DEF ListOK
      <4> QED BY <3>1, <4>1
    <3> QED BY <1>3, <3>2, <3>4
  <2> QED BY <2>1, <2>2
<1> HIDE DEF rest
<1>6. HeadOf(rest) = {n \in rest : Cardinality({o \in rest : o < n}) < HeadSize}
  BY DEF HeadOf
<1>7. \A i, j \in DOMAIN l.items : i < j => Ahead(l.items[i], l.items[j])
  BY <1>1 DEF ListOK, InOrder
<1>8. NumbersOf(l, "pinned") = PinNumbers(f) /\ NumbersOf(l, "notice") = IF f.cut > 0 THEN {f.cut} ELSE {}
  BY <1>1, <1>3 DEF ListOK
<1>9. /\ PinNumbers(f) \subseteq PinnedOf(rows, f) /\ Cardinality(PinNumbers(f)) + f.cut = Cardinality(PinnedOf(rows, f))
      /\ PinnedOf(rows, f) # {} => Max(PinnedOf(rows, f)) \in PinNumbers(f)
  BY <1>2 DEF PinsRight
<1>10. /\ rest \subseteq ReadOf(f)
       /\ \A n \in ReadOf(f) \ rest : ~rows[n].pinned => \A o \in rest \ HeadOf(rest) : n < o
  BY <1>2, <1>5 DEF RestRight
<1> QED BY <1>4, <1>6, <1>7, <1>8, <1>9, <1>10 DEF rest

\* ContextSound for any agents, models, messages and sizes: of the rows that load() has read,
\* the list an agent is sent has the pinned messages in the order of time, the newest always, and what is missing of the
\* others is older than what is kept besides the head.
THEOREM ContextIsSound == ContextSpec => []ContextSound
BY ContextInvariance, ContextShows, PTL
=============================================================================
