-------------------------- MODULE AgentReplyProofs --------------------------
(***************************************************************************)
(* Safety of a turn of the chat for any connections, producers and replies,*)
(* queues of any size, whatever is cancelled and whichever connection is   *)
(* lost.                                                                   *)
(*                                                                         *)
(* No reply ends silently: one that ends without a word was cancelled more *)
(* often than it can answer, so the invariant counts the cancels that met  *)
(* its task against those asked for.                                       *)
(*                                                                         *)
(* The turn ends last, and what was reported is what is shown.  Both follow*)
(* from what is on its way: what a batch of sends does to the queues       *)
(* (Produced), what each producer may owe (WireInv), what a task has said  *)
(* at each place of it (VerdictInv), how many are left (ActiveInv), where  *)
(* the end of the turn is (FanInv), what the queue of the origin holds in  *)
(* which order (OrderInv), and where a reply's last word is (SettledInv).  *)
(*                                                                         *)
(* And nobody waits in vain: RestInv says that nothing is queued for a     *)
(* connection that was never opened, so that a full queue is emptied or    *)
(* its writer is gone.                                                     *)
(***************************************************************************)
EXTENDS AgentReply, Induction, FiniteSetTheorems, SequenceTheorems, TLAPS

Places == {"none", "begin", "prepare", "stream", "coordinate", "reread", "persist", "report", "trace",
           "leave", "over"}
Ends == {"none", "done", "failed", "crashed", "cancelled"}

\* The connections whose cancel handler is about to cancel a reply
Aims(m) == {c \in Conns : target[c] = m}

\* The least number of cancels that have met the task of a reply
Met(m) ==
  IF pc[m] \in {"leave", "over"} /\ verdicts[m] = <<>> /\ ending[m] # "none"
  THEN IF ending[m] = "crashed" THEN 1 ELSE 2
  ELSE IF ending[m] = "cancelled" THEN 1 ELSE 0

ReplyType ==
  /\ DOMAIN owed = Producers /\ pc \in [Replies -> Places]
  /\ ending \in [Replies -> Ends] /\ verdicts \in [Replies -> Seq(Ends \cup {"error"})]
  /\ cancels \in Seq(Replies)
  /\ DOMAIN reader = Conns /\ target \in [Conns -> Replies \cup {None}]
  /\ \A c \in Conns : reader[c] = "cancelling" => target[c] \in Replies

\* The replies are started once, by the handler of the connection they were asked for on
StartedOnce ==
  /\ \A c \in Conns : origin = NoConn => reader[c] # "creating"
  /\ \A c, d \in Conns : reader[c] = "creating" /\ reader[d] = "creating" => c = d
  /\ (origin = NoConn \/ \E c \in Conns : reader[c] = "creating") => \A m \in Replies : pc[m] = "none"

\* Where the way a reply ends is open, where something was reported, and that a task
\* leaves when its events are sent
EndingInv ==
  \A m \in Replies :
    /\ pc[m] \in {"none", "begin", "prepare"} => ending[m] = "none"
    /\ pc[m] = "trace" => verdicts[m] # <<>>
    /\ pc[m] = "leave" /\ ending[m] # "none" => Free(m)

CountInv == \A m \in Replies : Asked(m) >= Cardinality(Aims(m)) + Met(m)

ReplyInv == ReplyType /\ StartedOnce /\ EndingInv /\ CountInv

LEMMA ReplyShows == ReplyInv => NoSilentEnd
<1> SUFFICES ASSUME ReplyInv, NEW m \in Replies, pc[m] = "over", verdicts[m] = <<>>, ending[m] # "none"
             PROVE  Asked(m) > (IF ending[m] = "crashed" THEN 0 ELSE 1)
  BY DEF NoSilentEnd
<1>1. IsFiniteSet(Aims(m))
  BY FS_Subset, WsAssumption DEF Aims
<1>2. Cardinality(Aims(m)) \in Nat
  BY <1>1, FS_CardinalityType
<1>3. Asked(m) \in Nat
  <2>1. IsFiniteSet(DOMAIN cancels)
    BY FS_Interval DEF ReplyInv, ReplyType
  <2> QED
    BY <2>1, FS_Subset, FS_CardinalityType DEF Asked
<1> QED
  BY <1>2, <1>3 DEF ReplyInv, CountInv, Met
-----------------------------------------------------------------------------
LEMMA ReplyStarts == Init => ReplyInv
<1> SUFFICES ASSUME Init PROVE ReplyInv
  OBVIOUS
<1>1. ReplyType
  BY EmptySeq, WsAssumption, ReplyAssumption DEF Init, ReplyType, Places, Ends, None
<1>2. StartedOnce /\ EndingInv
  BY DEF Init, StartedOnce, EndingInv
<1>3. ASSUME NEW m \in Replies PROVE Asked(m) >= Cardinality(Aims(m)) + Met(m)
  <2>1. Aims(m) = {} /\ {i \in DOMAIN cancels : cancels[i] = m} = {}
    BY ReplyAssumption DEF Init, Aims, None
  <2>2. Met(m) = 0
    BY DEF Init, Met
  <2> QED
    BY <2>1, <2>2, FS_EmptySet DEF Asked
<1> QED
  BY <1>1, <1>2, <1>3 DEF ReplyInv, CountInv

\* What is counted are numbers
LEMMA Numbers ==
  ASSUME ReplyInv, NEW m \in Replies
  PROVE  /\ IsFiniteSet(Aims(m)) /\ Cardinality(Aims(m)) \in Nat /\ Asked(m) \in Nat
         /\ Met(m) \in {0, 1, 2}
<1>1. IsFiniteSet(Aims(m))
  BY FS_Subset, WsAssumption DEF Aims
<1>2. IsFiniteSet(DOMAIN cancels)
  BY FS_Interval DEF ReplyInv, ReplyType
<1> QED
  BY <1>1, <1>2, FS_Subset, FS_CardinalityType DEF Asked, Met

\* Steps of the connections and their queues, which leave the replies as they are
LEMMA WireKeeps ==
  ASSUME ReplyInv, UNCHANGED <<pc, ending, verdicts, cancels, target, origin>>,
         DOMAIN owed' = Producers, DOMAIN reader' = Conns,
         \A m \in Replies : Free(m) => Free(m)',
         \A c \in Conns : reader'[c] \in {"creating", "cancelling"} => reader'[c] = reader[c]
  PROVE  ReplyInv'
<1>1. ReplyType'
  BY DEF ReplyInv, ReplyType
<1>2. StartedOnce'
  BY DEF ReplyInv, StartedOnce
<1>3. EndingInv'
  BY DEF ReplyInv, EndingInv
<1>4. CountInv'
  BY DEF ReplyInv, CountInv, Asked, Aims, Met
<1> QED
  BY <1>1, <1>2, <1>3, <1>4 DEF ReplyInv

\* A step of the task of one reply
LEMMA TaskKeeps ==
  ASSUME ReplyInv, NEW m \in Replies, pc[m] # "none",
         UNCHANGED <<reader, target, cancels, origin>>, DOMAIN owed' = Producers,
         pc' \in [Replies -> Places], ending' \in [Replies -> Ends],
         verdicts' \in [Replies -> Seq(Ends \cup {"error"})],
         \A n \in Replies \ {m} : /\ pc'[n] = pc[n] /\ ending'[n] = ending[n]
                                  /\ verdicts'[n] = verdicts[n] /\ owed'[n] = owed[n],
         pc'[m] # "none" /\ (pc'[m] \in {"begin", "prepare"} => ending'[m] = "none"),
         pc'[m] = "trace" => verdicts'[m] # <<>>,
         pc'[m] = "leave" /\ ending'[m] # "none" => owed'[m] = <<>>,
         Met(m)' <= Met(m)
  PROVE  ReplyInv'
<1>1. ReplyType'
  BY DEF ReplyInv, ReplyType
<1>2. StartedOnce'
  BY DEF ReplyInv, StartedOnce
<1>3. EndingInv'
  BY DEF ReplyInv, EndingInv, Free
<1>4. ASSUME NEW n \in Replies PROVE (Asked(n) >= Cardinality(Aims(n)) + Met(n))'
  <2>1. Asked(n)' = Asked(n) /\ Aims(n)' = Aims(n)
    BY DEF Asked, Aims
  <2>2. Met(n)' <= Met(n) /\ Met(n)' \in {0, 1, 2}
    <3>1. CASE n = m
      BY <3>1 DEF Met
    <3>2. CASE n # m
      BY <3>2, Numbers DEF Met
    <3> QED
      BY <3>1, <3>2
  <2>3. Cardinality(Aims(n)) \in Nat /\ Asked(n) \in Nat /\ Met(n) \in {0, 1, 2}
    BY Numbers
  <2>4. Asked(n) >= Cardinality(Aims(n)) + Met(n)
    BY DEF ReplyInv, CountInv
  <2>5. Asked(n) >= Cardinality(Aims(n)) + Met(n)'
    BY <2>2, <2>3, <2>4
  <2> QED
    BY <2>1, <2>5
<1> QED
  BY <1>1, <1>2, <1>3, <1>4 DEF ReplyInv, CountInv
-----------------------------------------------------------------------------
(* The handlers *)

LEMMA SendKeeps == ASSUME ReplyInv, NEW c \in Conns, SendMessage(c) PROVE ReplyInv'
<1>1. /\ UNCHANGED <<pc, ending, verdicts, cancels, target>> /\ origin = NoConn /\ origin' = c
      /\ reader' = [reader EXCEPT ![c] = "creating"]
  BY DEF SendMessage, taskVars, browserVars
<1>2. DOMAIN owed' = Producers /\ \A m \in Replies : Free(m) => Free(m)'
  BY WsAssumption, ReplyAssumption DEF SendMessage, Produce, Free, ReplyInv, ReplyType
<1>3. ReplyType'
  BY <1>1, <1>2 DEF ReplyInv, ReplyType
<1>4. StartedOnce'
  <2>1. c # NoConn
    BY WsAssumption DEF NoConn
  <2>2. \A d \in Conns : reader'[d] = "creating" => d = c
    BY <1>1 DEF ReplyInv, ReplyType, StartedOnce
  <2>3. \A m \in Replies : pc'[m] = "none"
    BY <1>1 DEF ReplyInv, StartedOnce
  <2> QED
    BY <1>1, <2>1, <2>2, <2>3 DEF StartedOnce
<1>5. EndingInv'
  BY <1>1, <1>2 DEF ReplyInv, EndingInv
<1>6. CountInv'
  BY <1>1 DEF ReplyInv, CountInv, Asked, Aims, Met
<1> QED
  BY <1>3, <1>4, <1>5, <1>6 DEF ReplyInv

LEMMA StartKeeps == ASSUME ReplyInv, NEW c \in Conns, StartReplies(c) PROVE ReplyInv'
<1>1. /\ UNCHANGED <<ending, verdicts, cancels, target, origin, owed>> /\ reader[c] = "creating"
      /\ pc' = [m \in Replies |-> IF m \in asked THEN "begin" ELSE "none"]
      /\ reader' = [reader EXCEPT ![c] = "dispatching"]
  BY DEF StartReplies, browserVars, wsVars, turn
<1>2. \A m \in Replies : pc[m] = "none" /\ ending[m] = "none"
  BY <1>1 DEF ReplyInv, StartedOnce, EndingInv
<1>3. ReplyType'
  BY <1>1 DEF ReplyInv, ReplyType, Places
<1>4. StartedOnce'
  BY <1>1 DEF ReplyInv, ReplyType, StartedOnce
<1>5. EndingInv'
  BY <1>1, <1>2 DEF EndingInv
<1>6. ASSUME NEW m \in Replies PROVE (Asked(m) >= Cardinality(Aims(m)) + Met(m))'
  <2>1. Asked(m)' = Asked(m) /\ Aims(m)' = Aims(m) /\ Met(m)' = Met(m)
    BY <1>1, <1>2 DEF Asked, Aims, Met
  <2> QED
    BY <2>1 DEF ReplyInv, CountInv
<1> QED
  BY <1>3, <1>4, <1>5, <1>6 DEF ReplyInv, CountInv

\* A cancel that is asked for counts at once
LEMMA AskedMore ==
  ASSUME ReplyInv, NEW m \in Replies, NEW n \in Replies, cancels' = Append(cancels, m)
  PROVE  Asked(n)' = Asked(n) + (IF n = m THEN 1 ELSE 0)
<1> DEFINE Of == {i \in DOMAIN cancels : cancels[i] = n}
<1>1. cancels \in Seq(Replies)
  BY DEF ReplyInv, ReplyType
<1>2. /\ DOMAIN cancels = 1..Len(cancels) /\ DOMAIN cancels' = 1..(Len(cancels) + 1)
      /\ Len(cancels) \in Nat /\ cancels'[Len(cancels) + 1] = m
      /\ \A i \in 1..Len(cancels) : cancels'[i] = cancels[i]
  BY <1>1, AppendProperties, LenProperties
<1>3. /\ IsFiniteSet(Of) /\ Len(cancels) + 1 \notin Of /\ Cardinality(Of) \in Nat
      /\ Cardinality(Of \cup {Len(cancels) + 1}) = Cardinality(Of) + 1
  <2>1. IsFiniteSet(1..Len(cancels))
    BY <1>2, FS_Interval
  <2>2. Of \subseteq 1..Len(cancels) /\ Len(cancels) + 1 \notin Of
    BY <1>2
  <2>3. IsFiniteSet(Of)
    BY <2>1, <2>2, FS_Subset
  <2> HIDE DEF Of
  <2> QED
    BY <2>2, <2>3, FS_AddElement, FS_CardinalityType
<1>4. {i \in DOMAIN cancels' : cancels'[i] = n} = Of \cup (IF n = m THEN {Len(cancels) + 1} ELSE {})
  BY <1>2
<1>5. Asked(n) = Cardinality(Of) /\ Asked(n)' = Cardinality({i \in DOMAIN cancels' : cancels'[i] = n})
  BY DEF Asked
<1> HIDE DEF Of
<1>6. CASE n = m
  BY <1>3, <1>4, <1>5, <1>6
<1>7. CASE n # m
  <2>1. Of \cup {} = Of
    OBVIOUS
  <2>2. {i \in DOMAIN cancels' : cancels'[i] = n} = Of
    BY <1>4, <1>7, <2>1
  <2>3. Asked(n)' = Asked(n)
    BY <1>5, <2>2
  <2>4. Asked(n) \in Nat
    BY Numbers
  <2> QED
    BY <1>7, <2>3, <2>4
<1> QED
  BY <1>6, <1>7

LEMMA AskKeeps == ASSUME ReplyInv, NEW c \in Conns, NEW m \in Replies, AskCancel(c, m) PROVE ReplyInv'
<1>1. /\ UNCHANGED <<pc, ending, verdicts, origin, owed>> /\ cancels' = Append(cancels, m)
      /\ reader' = [reader EXCEPT ![c] = "cancelling"] /\ target' = [target EXCEPT ![c] = m]
  BY DEF AskCancel, taskVars, wsVars, turn
<1>2. ReplyType'
  <2>1. cancels' \in Seq(Replies)
    BY <1>1, AppendProperties DEF ReplyInv, ReplyType
  <2> QED
    BY <1>1, <2>1 DEF ReplyInv, ReplyType
<1>3. StartedOnce'
  BY <1>1 DEF ReplyInv, ReplyType, StartedOnce
<1>4. EndingInv'
  BY <1>1 DEF ReplyInv, EndingInv, Free
<1>5. ASSUME NEW n \in Replies PROVE (Asked(n) >= Cardinality(Aims(n)) + Met(n))'
  <2>1. Met(n)' = Met(n)
    BY <1>1 DEF Met
  <2>2. Asked(n)' = Asked(n) + (IF n = m THEN 1 ELSE 0)
    BY <1>1, AskedMore
  <2>3. /\ IsFiniteSet(Aims(n)) /\ Cardinality(Aims(n)) \in Nat /\ Asked(n) \in Nat
        /\ Met(n) \in {0, 1, 2} /\ Asked(n) >= Cardinality(Aims(n)) + Met(n)
    BY Numbers DEF ReplyInv, CountInv
  <2>4. CASE n = m
    <3>1. Aims(n)' \subseteq Aims(n) \cup {c}
      BY <1>1 DEF Aims, ReplyInv, ReplyType
    <3>2. IsFiniteSet(Aims(n) \cup {c}) /\ Cardinality(Aims(n) \cup {c}) <= Cardinality(Aims(n)) + 1
          /\ Cardinality(Aims(n) \cup {c}) \in Nat
      <4>1. CASE c \in Aims(n)
        <5>1. Aims(n) \cup {c} = Aims(n)
          BY <4>1
        <5>2. Cardinality(Aims(n) \cup {c}) = Cardinality(Aims(n)) /\ IsFiniteSet(Aims(n) \cup {c})
          BY <2>3, <5>1
        <5> QED
          BY <2>3, <5>2
      <4>2. CASE c \notin Aims(n)
        BY <2>3, <4>2, FS_AddElement
      <4> QED
        BY <4>1, <4>2
    <3>3. Cardinality(Aims(n)') <= Cardinality(Aims(n)) + 1 /\ Cardinality(Aims(n)') \in Nat
      BY <2>3, <3>1, <3>2, FS_Subset, FS_CardinalityType
    <3> QED
      BY <2>1, <2>2, <2>3, <2>4, <3>3
  <2>5. CASE n # m
    <3>1. Aims(n)' \subseteq Aims(n)
      BY <1>1, <2>5 DEF Aims, ReplyInv, ReplyType
    <3>2. Cardinality(Aims(n)') <= Cardinality(Aims(n)) /\ Cardinality(Aims(n)') \in Nat
      BY <2>3, <3>1, FS_Subset, FS_CardinalityType
    <3> QED
      BY <2>1, <2>2, <2>3, <2>5, <3>2
  <2> QED
    BY <2>4, <2>5
<1> QED
  BY <1>2, <1>3, <1>4, <1>5 DEF ReplyInv, CountInv
\* A cancel that meets the task counts once, whatever it finds
LEMMA MetOnce ==
  ASSUME ReplyInv, NEW m \in Replies, CancelReply(m)
  PROVE  /\ pc' \in [Replies -> Places] /\ ending' \in [Replies -> Ends]
         /\ verdicts' \in [Replies -> Seq(Ends \cup {"error"})] /\ DOMAIN owed' = Producers
         /\ owed'[m] = <<>> /\ Met(m)' <= Met(m) + 1
         /\ pc[m] \in {"none", "begin"} => pc' = pc /\ ending' = ending
         /\ pc'[m] \notin {"prepare", "trace"} /\ (pc[m] # "none" => pc'[m] # "none")
         /\ \A n \in Replies \ {m} : /\ pc'[n] = pc[n] /\ ending'[n] = ending[n]
                                     /\ verdicts'[n] = verdicts[n] /\ owed'[n] = owed[n]
<1> DEFINE Kept == verdicts' = verdicts
           Lost == verdicts[m] # <<>> /\ ~Free(m) /\ pc[m] # "over" /\ verdicts' = [verdicts EXCEPT ![m] = Front(@)]
<1>1. /\ pc \in [Replies -> Places] /\ ending \in [Replies -> Ends]
      /\ verdicts \in [Replies -> Seq(Ends \cup {"error"})] /\ DOMAIN owed = Producers /\ m \in Producers
  BY ReplyAssumption DEF ReplyInv, ReplyType
<1>2. Kept \/ Lost
  BY DEF CancelReply
<1>3. verdicts' \in [Replies -> Seq(Ends \cup {"error"})]
      /\ \A n \in Replies \ {m} : verdicts'[n] = verdicts[n]
  <2>1. CASE Kept
    BY <1>1, <2>1
  <2>2. CASE Lost
    <3>1. Front(verdicts[m]) \in Seq(Ends \cup {"error"})
      BY <1>1, <2>2, EmptySeq, LenProperties, SubSeqProperties DEF Front
    <3> QED
      BY <1>1, <2>2, <3>1
  <2> QED
    BY <1>2, <2>1, <2>2
<1>4. owed'[m] = <<>> /\ DOMAIN owed' = Producers /\ \A n \in Replies \ {m} : owed'[n] = owed[n]
  BY <1>1, ReplyAssumption DEF CancelReply
<1> HIDE DEF Kept, Lost
<1>5. CASE ~InFlight(m)
  <2>1. pc' = pc /\ ending' = ending /\ pc[m] \in {"none", "begin", "over"}
    BY <1>5 DEF CancelReply, InFlight
  <2>2. Met(m)' <= Met(m)
    <3>1. pc[m] = "over" => verdicts' = verdicts
      BY <1>2 DEF Kept, Lost
    <3>2. Met(m)' = Met(m)
      BY <2>1, <3>1 DEF Met
    <3> QED
      BY <3>2 DEF Met
  <2> QED
    BY <1>1, <1>3, <1>4, <2>1, <2>2 DEF Met
<1>6. CASE InFlight(m) /\ InTry(m)
  <2>1. pc' = [pc EXCEPT ![m] = "persist"] /\ ending' = [ending EXCEPT ![m] = "cancelled"]
    BY <1>6 DEF CancelReply
  <2>2. Met(m)' = 1
    BY <1>1, <2>1 DEF Met
  <2> QED
    BY <1>1, <1>3, <1>4, <1>6, <2>1, <2>2 DEF Met, Places, Ends, InFlight
<1>7. CASE InFlight(m) /\ ~InTry(m)
  <2>1. pc' = [pc EXCEPT ![m] = "leave"] /\ ending' = ending
    BY <1>7 DEF CancelReply
  <2>2. Met(m)' <= Met(m) + 1
    <3>1. CASE ending[m] \in {"none", "crashed", "cancelled"}
      BY <1>1, <1>7, <2>1, <3>1 DEF Met, InFlight, ReplyInv, EndingInv, Free
    <3>2. CASE ending[m] \in {"done", "failed"}
      <4>1. pc[m] \in {"trace", "leave"} /\ Free(m) /\ (pc[m] = "trace" => verdicts[m] # <<>>)
        BY <1>1, <1>7, <3>2 DEF InFlight, InTry, Places, ReplyInv, EndingInv
      <4>2. verdicts' = verdicts
        BY <1>2, <4>1 DEF Kept, Lost
      <4> QED
        BY <1>1, <2>1, <4>1, <4>2 DEF Met
    <3> QED
      BY <1>1, <3>1, <3>2 DEF Ends
  <2> QED
    BY <1>1, <1>3, <1>4, <1>7, <2>1, <2>2 DEF Places, InFlight
<1> QED
  BY <1>5, <1>6, <1>7

LEMMA FireKeeps == ASSUME ReplyInv, NEW c \in Conns, FireCancel(c) PROVE ReplyInv'
<1> PICK m \in Replies : m = target[c]
  BY DEF FireCancel, ReplyInv, ReplyType
<1>1. /\ UNCHANGED <<cancels, origin>> /\ target' = [target EXCEPT ![c] = None]
      /\ reader[c] = "cancelling" /\ reader' = [reader EXCEPT ![c] = "idle"]
  BY DEF FireCancel, turn
<1>2. /\ DOMAIN owed' = Producers /\ pc' \in [Replies -> Places] /\ ending' \in [Replies -> Ends]
      /\ verdicts' \in [Replies -> Seq(Ends \cup {"error"})] /\ Met(m)' <= Met(m) + 1
      /\ pc[m] \in {"none", "begin"} => pc' = pc /\ ending' = ending
      /\ pc[m] # "none" => pc'[m] # "none"
      /\ \A n \in Replies \ {m} : /\ pc'[n] = pc[n] /\ ending'[n] = ending[n]
                                  /\ verdicts'[n] = verdicts[n] /\ owed'[n] = owed[n]
  <2>1. CASE CancelReply(m)
    BY <2>1, MetOnce
  <2>2. CASE UNCHANGED <<pc, ending, owed, verdicts>>
    <3>1. Met(m)' = Met(m) /\ Met(m) \in {0, 1, 2}
      BY <2>2 DEF Met
    <3> QED
      BY <2>2, <3>1 DEF ReplyInv, ReplyType
  <2> QED
    BY <2>1, <2>2 DEF FireCancel
<1>3. /\ pc'[m] = "prepare" => ending'[m] = "none"
      /\ pc'[m] = "trace" => verdicts'[m] # <<>>
      /\ pc'[m] = "leave" /\ ending'[m] # "none" => owed'[m] = <<>>
  <2>1. CASE CancelReply(m)
    BY <2>1, MetOnce
  <2>2. CASE UNCHANGED <<pc, ending, owed, verdicts>>
    BY <2>2 DEF ReplyInv, EndingInv, Free
  <2> QED
    BY <2>1, <2>2 DEF FireCancel
<1>4. pc'[m] \in {"none", "begin"} => ending'[m] = "none"
  <2>1. CASE CancelReply(m)
    <3>1. pc[m] \in {"none", "begin"} \/ pc'[m] \notin {"none", "begin"}
      BY <2>1 DEF CancelReply, InFlight, ReplyInv, ReplyType
    <3> QED
      BY <1>2, <3>1 DEF ReplyInv, EndingInv
  <2>2. CASE UNCHANGED <<pc, ending, owed, verdicts>>
    BY <2>2 DEF ReplyInv, EndingInv
  <2> QED
    BY <2>1, <2>2 DEF FireCancel
<1>5. ReplyType'
  BY <1>1, <1>2 DEF ReplyInv, ReplyType, None
<1>6. StartedOnce'
  BY <1>1, <1>2 DEF ReplyInv, ReplyType, StartedOnce
<1>7. EndingInv'
  BY <1>2, <1>3, <1>4 DEF ReplyInv, EndingInv, Free
<1>8. ASSUME NEW n \in Replies PROVE (Asked(n) >= Cardinality(Aims(n)) + Met(n))'
  <2>1. Asked(n)' = Asked(n)
    BY <1>1 DEF Asked
  <2>2. /\ IsFiniteSet(Aims(n)) /\ Cardinality(Aims(n)) \in Nat /\ Asked(n) \in Nat
        /\ Met(n) \in {0, 1, 2} /\ Asked(n) >= Cardinality(Aims(n)) + Met(n)
    BY Numbers DEF ReplyInv, CountInv
  <2>3. CASE n = m
    <3>1. Aims(n)' = Aims(n) \ {c} /\ c \in Aims(n)
      BY <1>1, <2>3, ReplyAssumption DEF Aims, ReplyInv, ReplyType, None
    <3>2. Cardinality(Aims(n)') = Cardinality(Aims(n)) - 1
      BY <2>2, <3>1, FS_RemoveElement
    <3>3. Met(n)' <= Met(n) + 1 /\ Met(n)' \in {0, 1, 2}
      BY <1>2, <2>3 DEF Met
    <3> QED
      BY <2>1, <2>2, <3>2, <3>3
  <2>4. CASE n # m
    <3>1. Aims(n)' = Aims(n)
      BY <1>1, <2>4, ReplyAssumption DEF Aims, ReplyInv, ReplyType, None
    <3>2. Met(n)' = Met(n)
      BY <1>2, <2>4 DEF Met
    <3> QED
      BY <2>1, <2>2, <3>1, <3>2
  <2> QED
    BY <2>3, <2>4
<1> QED
  BY <1>5, <1>6, <1>7, <1>8 DEF ReplyInv, CountInv
-----------------------------------------------------------------------------
(* The task of a reply *)

\* A step that does not report and lets the way the reply ends open, or decides it
LEMMA QuietKeeps ==
  ASSUME ReplyInv, NEW m \in Replies, NEW to \in Places, NEW end \in Ends, Silent,
         UNCHANGED <<active, verdicts>>, pc[m] # "none", Free(m),
         pc' = [pc EXCEPT ![m] = to], ending' = [ending EXCEPT ![m] = end],
         \/ end = ending[m] /\ (to = "leave" => pc[m] = "trace" \/ end = "none")
         \/ end # "cancelled" /\ to # "leave",
         to \notin {"none", "begin", "trace", "over"}, to = "prepare" => end = "none"
  PROVE  ReplyInv'
<1>1. /\ UNCHANGED <<reader, target, cancels, origin, owed>> /\ DOMAIN owed' = Producers
  BY DEF Silent, Quiet, browserVars, turn, ReplyInv, ReplyType
<1>2. /\ pc' \in [Replies -> Places] /\ ending' \in [Replies -> Ends]
      /\ verdicts' \in [Replies -> Seq(Ends \cup {"error"})]
      /\ pc'[m] = to /\ ending'[m] = end
      /\ \A n \in Replies \ {m} : pc'[n] = pc[n] /\ ending'[n] = ending[n]
  BY DEF ReplyInv, ReplyType
<1>3. Met(m)' <= Met(m)
  <2>1. verdicts'[m] = verdicts[m] /\ (pc[m] = "trace" => verdicts[m] # <<>>)
    BY DEF ReplyInv, EndingInv
  <2> QED
    BY <1>2, <2>1 DEF Met
<1> QED
  BY <1>1, <1>2, <1>3, TaskKeeps DEF Free

\* A step that reports
LEMMA LoudKeeps ==
  ASSUME ReplyInv, NEW m \in Replies, NEW to \in Places, NEW word \in Ends \cup {"error"}, NEW sends,
         Quiet, Produce(m, sends), UNCHANGED ending,
         pc[m] # "none", pc' = [pc EXCEPT ![m] = to], verdicts' = [verdicts EXCEPT ![m] = Append(@, word)],
         to = "trace" \/ (to = "leave" /\ ending[m] = "none")
  PROVE  ReplyInv'
<1>1. UNCHANGED <<reader, target, cancels, origin>>
  BY DEF Quiet, browserVars, turn
<1>2. DOMAIN owed' = Producers /\ \A n \in Replies \ {m} : owed'[n] = owed[n]
  BY ReplyAssumption DEF Produce, ReplyInv, ReplyType
<1>3. Append(verdicts[m], word) \in Seq(Ends \cup {"error"}) /\ Append(verdicts[m], word) # <<>>
  BY AppendProperties DEF ReplyInv, ReplyType
<1>4. /\ pc' \in [Replies -> Places] /\ ending' \in [Replies -> Ends]
      /\ verdicts' \in [Replies -> Seq(Ends \cup {"error"})]
      /\ pc'[m] = to /\ ending'[m] = ending[m] /\ verdicts'[m] # <<>>
      /\ \A n \in Replies \ {m} : /\ pc'[n] = pc[n] /\ ending'[n] = ending[n]
                                  /\ verdicts'[n] = verdicts[n] /\ owed'[n] = owed[n]
  BY <1>2, <1>3 DEF ReplyInv, ReplyType
<1>5. Met(m)' <= Met(m)
  BY <1>4 DEF Met
<1> QED
  BY <1>1, <1>2, <1>4, <1>5, TaskKeeps

LEMMA LeaveKeeps == ASSUME ReplyInv, NEW m \in Replies, LeaveTask(m) PROVE ReplyInv'
<1>1. UNCHANGED <<reader, target, cancels, origin, ending, verdicts>> /\ pc[m] = "leave"
  BY DEF LeaveTask, Step, Quiet, browserVars, turn
<1>2. DOMAIN owed' = Producers /\ \A n \in Replies \ {m} : owed'[n] = owed[n]
  BY ReplyAssumption DEF LeaveTask, Produce, ReplyInv, ReplyType
<1>3. /\ pc' \in [Replies -> Places] /\ pc'[m] = "over" /\ \A n \in Replies \ {m} : pc'[n] = pc[n]
  BY DEF LeaveTask, Step, ReplyInv, ReplyType, Places
<1>4. Met(m)' <= Met(m)
  <2>1. Met(m)' = Met(m)
    BY <1>1, <1>3 DEF Met
  <2> QED
    BY <2>1 DEF Met
<1>5. ending' \in [Replies -> Ends] /\ verdicts' \in [Replies -> Seq(Ends \cup {"error"})]
  BY <1>1 DEF ReplyInv, ReplyType
<1> QED
  BY <1>1, <1>2, <1>3, <1>4, <1>5, TaskKeeps

LEMMA ReplyKeeps == ASSUME ReplyInv, NEW m \in Replies, Reply(m) PROVE ReplyInv'
<1>1. /\ ending[m] \in Ends /\ (pc[m] \in {"begin", "prepare"} => ending[m] = "none")
      /\ pc \in [Replies -> Places] /\ ending \in [Replies -> Ends]
      /\ [ending EXCEPT ![m] = ending[m]] = ending
  BY DEF ReplyInv, ReplyType, EndingInv
<1> DEFINE Moved(to, end) == /\ pc' = [pc EXCEPT ![m] = to] /\ ending' = [ending EXCEPT ![m] = end]
                             /\ Silent /\ UNCHANGED <<active, verdicts>> /\ Free(m) /\ pc[m] # "none"
<1>2. CASE Begin(m)
  <2>1. PICK to \in {"prepare", "coordinate"} : Moved(to, ending[m]) /\ ending[m] = "none"
    BY <1>1, <1>2 DEF Begin, Step
  <2> QED
    BY <1>1, <2>1, QuietKeeps DEF Places
<1>3. CASE Prepared(m)
  <2>1. PICK to \in {"stream", "leave"} : Moved(to, ending[m]) /\ ending[m] = "none"
    BY <1>1, <1>3 DEF Prepared, Step
  <2> QED
    BY <1>1, <2>1, QuietKeeps DEF Places
<1>4. CASE StreamEnds(m)
  <2>1. PICK end \in {"done", "failed", "crashed"} : Moved("persist", end)
    BY <1>4 DEF StreamEnds, Step
  <2> QED
    BY <2>1, QuietKeeps DEF Places, Ends
<1>5. CASE Coordinate(m)
  <2>1. Moved("reread", ending[m]) \/ Moved("persist", "crashed")
    BY <1>1, <1>5 DEF Coordinate
  <2> QED
    BY <1>1, <2>1, QuietKeeps DEF Places, Ends
<1>6. CASE Reread(m)
  <2>1. Moved("report", "done")
    BY <1>6 DEF Reread, Step
  <2> QED
    BY <2>1, QuietKeeps DEF Places, Ends
<1>7. CASE Persist(m)
  <2>1. Moved("report", ending[m])
    BY <1>1, <1>7 DEF Persist, Step
  <2> QED
    BY <1>1, <2>1, QuietKeeps DEF Places
<1>8. CASE Trace(m)
  <2>1. Moved("leave", ending[m]) /\ pc[m] = "trace"
    BY <1>1, <1>8 DEF Trace, Step
  <2> QED
    BY <1>1, <2>1, QuietKeeps DEF Places
<1>9. CASE NotLoaded(m)
  <2>1. PICK sends : Produce(m, sends)
    BY <1>9 DEF NotLoaded
  <2>2. pc[m] = "prepare" /\ pc' = [pc EXCEPT ![m] = "leave"] /\ Quiet /\ ending' = ending
        /\ verdicts' = [verdicts EXCEPT ![m] = Append(@, "error")]
    BY <1>9 DEF NotLoaded, Step
  <2> QED
    BY <1>1, <2>1, <2>2, LoudKeeps DEF Places
<1>10. CASE Report(m)
  <2>1. PICK sends : Produce(m, sends)
    BY <1>10 DEF Report
  <2>2. pc[m] = "report" /\ pc' = [pc EXCEPT ![m] = "trace"] /\ Quiet /\ ending' = ending
        /\ verdicts' = [verdicts EXCEPT ![m] = Append(@, Verdict(m)[1].t)]
    BY <1>10 DEF Report, Step
  <2>3. PICK word \in Ends \cup {"error"} : word = Verdict(m)[1].t
    BY <1>1 DEF Verdict, Ends
  <2> QED
    BY <2>1, <2>2, <2>3, LoudKeeps DEF Places
<1>11. CASE TextChunk(m)
  <2>1. /\ UNCHANGED <<reader, target, cancels, origin, ending, verdicts>> /\ pc[m] = "stream"
        /\ pc' = [pc EXCEPT ![m] = "stream"]
    BY <1>11 DEF TextChunk, Step, Quiet, browserVars, turn
  <2>2. pc' = pc
    BY <1>1, <2>1
  <2>3. DOMAIN owed' = Producers /\ \A n \in Replies \ {m} : owed'[n] = owed[n]
    BY <1>11, ReplyAssumption DEF TextChunk, Produce, ReplyInv, ReplyType
  <2>4. Met(m)' <= Met(m)
    <3>1. Met(m)' = Met(m)
      BY <2>1, <2>2 DEF Met
    <3> QED
      BY <3>1 DEF Met
  <2>5. /\ pc' \in [Replies -> Places] /\ ending' \in [Replies -> Ends]
        /\ verdicts' \in [Replies -> Seq(Ends \cup {"error"})]
    BY <2>1, <2>2 DEF ReplyInv, ReplyType
  <2> QED
    BY <2>1, <2>2, <2>3, <2>4, <2>5, TaskKeeps
<1> QED
  BY <1>2, <1>3, <1>4, <1>5, <1>6, <1>7, <1>8, <1>9, <1>10, <1>11, LeaveKeeps DEF Reply

\* ReplyInv is an invariant of the turn: what the tasks have reported and how often
\* they were cancelled.
THEOREM ReplyInvariance == Spec => []ReplyInv
<1>1. ReplyInv /\ [Next]_vars => ReplyInv'
  <2> SUFFICES ASSUME ReplyInv, [Next]_vars PROVE ReplyInv'
    OBVIOUS
  <2> USE DEF wsVars, browserVars, turn, taskVars
  <2>1. DOMAIN owed = Producers /\ DOMAIN reader = Conns
    BY DEF ReplyInv, ReplyType
  <2>2. ASSUME NEW c \in Conns, Connect(c) \/ Disconnect(c) \/ Deliver(c) \/ Join(c) \/ ReadHistory(c)
                                \/ Return(c) \/ Leave(c)
        PROVE ReplyInv'
    <3>1. /\ UNCHANGED <<pc, ending, verdicts, cancels, target, origin, owed>> /\ DOMAIN reader' = Conns
          /\ \A d \in Conns : reader'[d] \in {"creating", "cancelling"} => reader'[d] = reader[d]
      BY <2>1, <2>2 DEF Connect, Disconnect, Deliver, Join, ReadHistory, Return, Leave
    <3> QED
      BY <2>1, <3>1, WireKeeps DEF Free
  <2>3. ASSUME NEW c \in Conns, Answer(c) \/ Close(c) PROVE ReplyInv'
    <3>1. /\ UNCHANGED <<pc, ending, verdicts, cancels, target, origin>> /\ DOMAIN reader' = Conns
          /\ \A d \in Conns : reader'[d] \in {"creating", "cancelling"} => reader'[d] = reader[d]
      BY <2>1, <2>3 DEF Answer, Close
    <3>2. DOMAIN owed' = Producers /\ \A m \in Replies : owed'[m] = owed[m]
      BY <2>1, <2>3, ReplyAssumption DEF Answer, Close, Produce, BeginClose
    <3> QED
      BY <3>1, <3>2, WireKeeps DEF Free
  <2>4. ASSUME NEW p \in Producers, PutWaiting(p) PROVE ReplyInv'
    <3>1. UNCHANGED <<pc, ending, verdicts, cancels, target, origin, reader>>
      BY <2>4 DEF PutWaiting
    <3>2. DOMAIN owed' = Producers /\ \A m \in Replies : Free(m) => Free(m)'
      BY <2>1, <2>4, ReplyAssumption DEF PutWaiting, Resume, Produce, Free
    <3> QED
      BY <2>1, <3>1, <3>2, WireKeeps
  <2>5. ASSUME NEW c \in Conns, Handler(c) PROVE ReplyInv'
    BY <2>2, <2>3, <2>5, StartKeeps, FireKeeps DEF Handler
  <2>6. CASE System
    BY <2>2, <2>4, <2>5, <2>6, ReplyKeeps DEF System
  <2>7. CASE Environment
    BY <2>2, <2>7, SendKeeps, AskKeeps DEF Environment
  <2>8. CASE UNCHANGED vars
    BY <2>1, <2>8, WireKeeps DEF vars, Free
  <2> QED
    BY <2>6, <2>7, <2>8 DEF Next
<1> QED
  BY ReplyStarts, <1>1, PTL DEF Spec

\* NoSilentEnd holds of any number of replies, connections and cancels, of queues of
\* any size, whenever connections are lost.
THEOREM RepliesReport == Spec => []NoSilentEnd
BY ReplyInvariance, ReplyShows, PTL

-----------------------------------------------------------------------------
(* The queues.  What a batch of sends does to them, by induction on the    *)
(* batch.                                                                  *)

Item(E) == [to : Conns, e : E, room : BOOLEAN, waits : BOOLEAN]
Sending(E) == [out : [Conns -> Seq(E)], rest : Seq(Item(E))]

\* An item is made to wait, left or put
Puts(acc, it, new) ==
  \/ /\ new.out = acc.out
     /\ new.rest \in {Append(acc.rest, it), <<[it EXCEPT !.waits = TRUE]>>}
     /\ new.rest = Append(acc.rest, it) \/ acc.rest = <<>>
  \/ new = acc /\ (Skipped(it) \/ it.e.t \in Droppable)
  \/ /\ new.out = [acc.out EXCEPT ![it.to] = Append(@, it.e)]
     /\ new.rest = acc.rest

LEMMA PutOne ==
  ASSUME NEW E, NEW acc \in Sending(E), NEW it \in Item(E)
  PROVE  PutStep(acc, it) \in Sending(E) /\ Puts(acc, it, PutStep(acc, it))
<1>1. /\ acc.out \in [Conns -> Seq(E)] /\ acc.rest \in Seq(Item(E))
      /\ it.to \in Conns /\ it.e \in E /\ acc = [out |-> acc.out, rest |-> acc.rest]
  BY DEF Sending, Item
<1>2. [acc EXCEPT !.rest = Append(@, it)] = [out |-> acc.out, rest |-> Append(acc.rest, it)]
      /\ Append(acc.rest, it) \in Seq(Item(E))
  <2>1. \A x : [acc EXCEPT !.rest = x] = [out |-> acc.out, rest |-> x]
    BY DEF Sending
  <2>2. Append(acc.rest, it) \in Seq(Item(E))
    BY <1>1, AppendProperties
  <2> QED BY <2>1, <2>2
<1>3. [acc EXCEPT !.out[it.to] = Append(@, it.e)] = [out |-> [acc.out EXCEPT ![it.to] = Append(@, it.e)], rest |-> acc.rest]
      /\ [acc.out EXCEPT ![it.to] = Append(@, it.e)] \in [Conns -> Seq(E)]
  <2>1. Append(acc.out[it.to], it.e) \in Seq(E)
    BY <1>1, AppendProperties
  <2>2. \A x : [acc EXCEPT !.out = x] = [out |-> x, rest |-> acc.rest]
    BY DEF Sending
  <2>3. [acc EXCEPT !.out[it.to] = Append(@, it.e)] = [acc EXCEPT !.out = [acc.out EXCEPT ![it.to] = Append(@, it.e)]]
    BY Zenon
  <2> QED BY <1>1, <2>1, <2>2, <2>3
<1>4. [acc EXCEPT !.rest = <<[it EXCEPT !.waits = TRUE]>>] = [out |-> acc.out, rest |-> <<[it EXCEPT !.waits = TRUE]>>]
      /\ <<[it EXCEPT !.waits = TRUE]>> \in Seq(Item(E))
  <2>1. PICK w \in Item(E) : w = [it EXCEPT !.waits = TRUE]
    BY DEF Item
  <2>2. \A x : [acc EXCEPT !.rest = x] = [out |-> acc.out, rest |-> x]
    BY DEF Sending
  <2>3. <<w>> \in Seq(Item(E))
    OBVIOUS
  <2> QED BY <2>1, <2>2, <2>3
<1>5. CASE acc.rest # <<>>
  <2>1. PutStep(acc, it) = [out |-> acc.out, rest |-> Append(acc.rest, it)]
    BY <1>2, <1>5 DEF PutStep
  <2> QED BY <1>1, <1>2, <2>1 DEF Sending, Puts
<1>6. CASE acc.rest = <<>> /\ Skipped(it)
  BY <1>6 DEF PutStep, Puts
<1>7. CASE acc.rest = <<>> /\ ~Skipped(it) /\ Len(acc.out[it.to]) < QueueSize
  <2>1. PutStep(acc, it) = [out |-> [acc.out EXCEPT ![it.to] = Append(@, it.e)], rest |-> acc.rest]
    BY <1>3, <1>7 DEF PutStep
  <2> QED BY <1>1, <1>3, <2>1 DEF Sending, Puts
<1>8. CASE acc.rest = <<>> /\ ~Skipped(it) /\ ~(Len(acc.out[it.to]) < QueueSize)
  <2>1. CASE it.e.t \in Droppable /\ ~it.waits
    BY <1>8, <2>1 DEF PutStep, Puts
  <2>2. CASE ~(it.e.t \in Droppable /\ ~it.waits)
    <3>1. PutStep(acc, it) = [out |-> acc.out, rest |-> <<[it EXCEPT !.waits = TRUE]>>]
      BY <1>4, <1>8, <2>2 DEF PutStep
    <3> QED BY <1>1, <1>4, <1>8, <3>1 DEF Sending, Puts
  <2> QED BY <2>1, <2>2
<1> QED BY <1>5, <1>6, <1>7, <1>8

\* The queues after some of the sends: longer by events of these, of which none that has
\* to arrive is lost
Same(x, y) == x.to = y.to /\ x.e = y.e /\ x.room = y.room
Arrives(it, acc) ==
  \/ \E i \in DOMAIN acc.out[it.to] : i > Len(outbound[it.to]) /\ acc.out[it.to][i] = it.e
  \/ \E i \in DOMAIN acc.rest : acc.rest[i].to = it.to /\ acc.rest[i].e = it.e

Longer(old, new, items, k, c) ==
  /\ Len(old) <= Len(new)
  /\ \A i \in 1..Len(old) : new[i] = old[i]
  /\ \A i \in DOMAIN new : i > Len(old) => \E j \in 1..k : items[j].to = c /\ new[i] = items[j].e

Adds(items, k, acc) ==
  /\ \A c \in Conns : Longer(outbound[c], acc.out[c], items, k, c)
  /\ \A i \in DOMAIN acc.rest : \E j \in 1..k : Same(acc.rest[i], items[j])
  /\ \A j \in 1..k : Skipped(items[j]) \/ items[j].e.t \in Droppable \/ Arrives(items[j], acc)

LEMMA Appended ==
  ASSUME NEW E, NEW s \in Seq(E), NEW e \in E, NEW t, t = Append(s, e)
  PROVE  /\ t \in Seq(E) /\ Len(t) = Len(s) + 1 /\ Len(s) \in Nat /\ Len(s) + 1 \in DOMAIN t
         /\ DOMAIN s = 1..Len(s) /\ DOMAIN t = (1..Len(s)) \cup {Len(s) + 1}
         /\ t[Len(s) + 1] = e /\ \A i \in DOMAIN s : t[i] = s[i]
BY AppendProperties, LenProperties

LEMMA LongerMore ==
  ASSUME NEW old, NEW new, NEW items, NEW k \in Nat, NEW c, Longer(old, new, items, k, c)
  PROVE  Longer(old, new, items, k + 1, c)
<1>1. 1..k \subseteq 1..(k + 1)
  OBVIOUS
<1> QED BY <1>1 DEF Longer

LEMMA LongerOne ==
  ASSUME NEW E, NEW old \in Seq(E), NEW new \in Seq(E), NEW items, NEW k \in Nat, NEW c, Longer(old, new, items, k, c),
         NEW e \in E, e = items[k + 1].e, c = items[k + 1].to
  PROVE  Longer(old, Append(new, e), items, k + 1, c)
<1> PICK more \in Seq(E) : more = Append(new, e)
  BY AppendProperties
<1>1. /\ DOMAIN more = (DOMAIN new) \cup {Len(new) + 1} /\ more[Len(new) + 1] = e
      /\ Len(more) = Len(new) + 1 /\ Len(new) \in Nat /\ Len(old) \in Nat /\ DOMAIN new = 1..Len(new)
      /\ \A i \in DOMAIN new : more[i] = new[i]
  BY AppendProperties, LenProperties
<1>2. k + 1 \in 1..(k + 1) /\ 1..k \subseteq 1..(k + 1)
  OBVIOUS
<1>3. \A i \in DOMAIN more : i > Len(old) => \E j \in 1..(k + 1) : items[j].to = c /\ more[i] = items[j].e
  BY <1>1, <1>2 DEF Longer
<1>4. Len(old) <= Len(more) /\ \A i \in 1..Len(old) : more[i] = old[i]
  BY <1>1 DEF Longer
<1> QED BY <1>3, <1>4 DEF Longer

LEMMA AddsOne ==
  ASSUME NEW E, outbound \in [Conns -> Seq(E)], NEW items \in Seq(Item(E)), NEW k \in Nat, k + 1 \in DOMAIN items,
         NEW acc \in Sending(E), Adds(items, k, acc)
  PROVE  Adds(items, k + 1, PutStep(acc, items[k + 1]))
<1> PICK it \in Item(E) : it = items[k + 1]
  BY ElementOfSeq
<1> PICK new \in Sending(E) : new = PutStep(acc, it)
  BY PutOne
<1> SUFFICES Adds(items, k + 1, new)
  OBVIOUS
<1>1. /\ acc.out \in [Conns -> Seq(E)] /\ acc.rest \in Seq(Item(E)) /\ it.to \in Conns /\ it.e \in E
      /\ new.out \in [Conns -> Seq(E)] /\ new.rest \in Seq(Item(E))
  BY DEF Sending, Item
<1>2. 1..(k + 1) = (1..k) \cup {k + 1}
  OBVIOUS
<1>7. \A c \in Conns : Longer(outbound[c], acc.out[c], items, k + 1, c)
  BY LongerMore DEF Adds
<1>3. CASE /\ new.out = acc.out
           /\ new.rest \in {Append(acc.rest, it), <<[it EXCEPT !.waits = TRUE]>>}
           /\ new.rest = Append(acc.rest, it) \/ acc.rest = <<>>
  <2>1. PICK w \in Item(E) : Same(w, it) /\ new.rest = Append(acc.rest, w)
    <3>1. CASE new.rest = Append(acc.rest, it)
      BY <3>1 DEF Same
    <3>2. CASE acc.rest = <<>> /\ new.rest = <<[it EXCEPT !.waits = TRUE]>>
      <4>1. PICK w \in Item(E) : w = [it EXCEPT !.waits = TRUE]
        BY DEF Item
      <4>2. Same(w, it)
        BY <4>1 DEF Same, Item
      <4>3. Append(<<>>, w) = <<w>>
        OBVIOUS
      <4> QED BY <3>2, <4>1, <4>2, <4>3
    <3> QED BY <1>3, <3>1, <3>2
  <2>2. /\ DOMAIN new.rest = (DOMAIN acc.rest) \cup {Len(acc.rest) + 1} /\ new.rest[Len(acc.rest) + 1] = w
        /\ \A i \in DOMAIN acc.rest : new.rest[i] = acc.rest[i]
    BY <1>1, <2>1, AppendProperties, LenProperties
  <2>3. \A i \in DOMAIN new.rest : \E j \in 1..(k + 1) : Same(new.rest[i], items[j])
    BY SMTT(20), <1>2, <2>1, <2>2 DEF Adds, Same
  <2>4. \A j \in 1..k : Arrives(items[j], acc) => Arrives(items[j], new)
    BY <1>3, <2>2 DEF Arrives
  <2>5. Arrives(it, new)
    BY <2>1, <2>2 DEF Arrives, Same
  <2>6. \A j \in 1..(k + 1) : Skipped(items[j]) \/ items[j].e.t \in Droppable \/ Arrives(items[j], new)
    BY <1>2, <2>4, <2>5 DEF Adds
  <2> QED BY <1>3, <1>7, <2>3, <2>6 DEF Adds
<1>4. CASE new = acc /\ (Skipped(it) \/ it.e.t \in Droppable)
  <2>1. \A j \in 1..(k + 1) : Skipped(items[j]) \/ items[j].e.t \in Droppable \/ Arrives(items[j], new)
    BY <1>2, <1>4 DEF Adds
  <2>2. \A i \in DOMAIN new.rest : \E j \in 1..(k + 1) : Same(new.rest[i], items[j])
    BY <1>2, <1>4 DEF Adds
  <2> QED BY <1>4, <1>7, <2>1, <2>2 DEF Adds
<1>5. CASE new.out = [acc.out EXCEPT ![it.to] = Append(@, it.e)] /\ new.rest = acc.rest
  <2> PICK to \in Conns, e \in E : to = it.to /\ e = it.e
    BY <1>1
  <2> PICK old \in Seq(E), had \in Seq(E), got \in Seq(E) : old = outbound[to] /\ had = acc.out[to] /\ got = new.out[to]
    BY <1>1
  <2>1. got = Append(had, e) /\ \A c \in Conns \ {to} : new.out[c] = acc.out[c]
    BY <1>1, <1>5
  <2>2. Longer(old, had, items, k, to)
    BY DEF Adds
  <2>3. ASSUME NEW c \in Conns PROVE Longer(outbound[c], new.out[c], items, k + 1, c)
    <3>1. CASE c # to
      BY <1>7, <2>1, <3>1
    <3>2. CASE c = to
      <4>1. Longer(old, Append(had, e), items, k + 1, to)
        BY <2>2, LongerOne
      <4> QED BY <2>1, <3>2, <4>1
    <3> QED BY <3>1, <3>2
  <2>4. \A i \in DOMAIN new.rest : \E j \in 1..(k + 1) : Same(new.rest[i], items[j])
    BY <1>2, <1>5 DEF Adds
  <2>5. /\ Len(had) + 1 \in DOMAIN got /\ got[Len(had) + 1] = e /\ Len(had) + 1 > Len(old)
        /\ \A i \in DOMAIN had : i \in DOMAIN got /\ got[i] = had[i]
    <3>1. Len(old) \in Nat /\ Len(old) <= Len(had)
      BY <2>2, LenProperties DEF Longer
    <3>2. got = Append(had, e)
      BY <2>1
    <3>3. /\ Len(had) + 1 \in DOMAIN got /\ got[Len(had) + 1] = e /\ Len(had) \in Nat
          /\ DOMAIN got = (1..Len(had)) \cup {Len(had) + 1} /\ DOMAIN had = 1..Len(had)
          /\ \A i \in DOMAIN had : got[i] = had[i]
      <4> HIDE DEF Puts
      <4>1. /\ got \in Seq(E) /\ Len(got) = Len(had) + 1 /\ Len(had) \in Nat
            /\ Len(had) + 1 \in DOMAIN got /\ got[Len(had) + 1] = e
        BY <3>2, Appended, SMTT(60)
      <4>2. DOMAIN had = 1..Len(had) /\ DOMAIN got = (1..Len(had)) \cup {Len(had) + 1}
        BY <3>2, Appended, SMTT(60)
      <4>3. \A i \in DOMAIN had : got[i] = had[i]
        BY <3>2, Appended, SMTT(60)
      <4> QED BY <4>1, <4>2, <4>3
    <3> QED BY <3>1, <3>3
  <2>6. Arrives(it, new)
    BY <2>5 DEF Arrives
  <2>7. ASSUME NEW j \in 1..k, Arrives(items[j], acc) PROVE Arrives(items[j], new)
    <3>1. CASE items[j].to = to
      <4>1. (\E i \in DOMAIN had : i > Len(old) /\ had[i] = items[j].e)
            \/ \E i \in DOMAIN new.rest : new.rest[i].to = items[j].to /\ new.rest[i].e = items[j].e
        BY <1>5, <2>7, <3>1 DEF Arrives
      <4>2. (\E i \in DOMAIN got : i > Len(old) /\ got[i] = items[j].e)
            \/ \E i \in DOMAIN new.rest : new.rest[i].to = items[j].to /\ new.rest[i].e = items[j].e
        BY <2>5, <4>1
      <4> QED BY <3>1, <4>2 DEF Arrives
    <3>2. CASE items[j].to # to
      <4>1. j \in DOMAIN items
        BY LenProperties
      <4>2. items[j] \in Item(E)
        BY <4>1, ElementOfSeq
      <4>3. items[j].to \in Conns
        BY <4>2 DEF Item
      <4> QED BY <1>5, <2>1, <2>7, <3>2, <4>3 DEF Arrives
    <3> QED BY <3>1, <3>2
  <2>8. \A j \in 1..(k + 1) : Skipped(items[j]) \/ items[j].e.t \in Droppable \/ Arrives(items[j], new)
    BY <1>2, <2>6, <2>7 DEF Adds
  <2> QED BY <2>3, <2>4, <2>8 DEF Adds
<1>6. Puts(acc, it, new)
  BY PutOne
<1> HIDE DEF Adds
<1> QED BY <1>3, <1>4, <1>5, <1>6 DEF Puts

\* What all the sends of a batch do is a recursion
Batch(items) == [out |-> outbound, rest |-> <<>>]
IsRun(items, g) ==
  g = [k \in 0..Len(items) |-> IF k = 0 THEN Batch(items) ELSE PutStep(g[k - 1], items[k])]

LEMMA BatchRuns ==
  ASSUME NEW E, outbound \in [Conns -> Seq(E)], NEW items \in Seq(Item(E))
  PROVE  /\ Len(items) \in Nat /\ DOMAIN items = 1..Len(items) /\ Batch(items) \in Sending(E)
         /\ \E f : IsRun(items, f) /\ PutAll(items) = f[Len(items)]
<1> DEFINE start == Batch(items)
           N == Len(items)
           step == [nx \in (1..N) \X Sending(E) |-> PutStep(nx[2], items[nx[1]])]
<1>1. N \in Nat /\ DOMAIN items = 1..N /\ \A k \in 1..N : items[k] \in Item(E)
  BY LenProperties, ElementOfSeq
<1>2. start \in Sending(E)
  BY EmptySeq DEF Sending, Batch
<1>3. step \in [(1..N) \X Sending(E) -> Sending(E)]
  BY <1>1, PutOne
<1>4. \E g : IsRun(items, g)
  <2>1. PICK h \in [0..N -> Sending(E)] : h = [n \in 0..N |-> IF n = 0 THEN start ELSE step[<<n, h[n - 1]>>]]
    <3> HIDE DEF start, N, step
    <3> PICK X : X = Sending(E)
      OBVIOUS
    <3> PICK b \in X, n \in Nat : b = start /\ n = N
      BY <1>1, <1>2
    <3> PICK s \in [(1..n) \X X -> X] : s = step
      BY <1>3
    <3> PICK h : Recursion(n, X, b, s, h)
      BY RecursionTheorem
    <3> QED BY DEF Recursion
  <2>2. \A n \in 0..N : n # 0 => step[<<n, h[n - 1]>>] = PutStep(h[n - 1], items[n])
    <3>1. \A n \in 0..N : n # 0 => <<n, h[n - 1]>> \in (1..N) \X Sending(E)
      BY <1>1
    <3> QED BY <3>1
  <2>3. h = [n \in 0..N |-> IF n = 0 THEN start ELSE PutStep(h[n - 1], items[n])]
    BY <2>1, <2>2
  <2> QED BY <2>3 DEF IsRun
<1>5. PutAll(items) = (CHOOSE f : IsRun(items, f))[N]
  BY Zenon DEF PutAll, IsRun, Batch
<1> QED BY <1>1, <1>2, <1>4, <1>5

LEMMA PutAllAdds ==
  ASSUME NEW E, outbound \in [Conns -> Seq(E)], NEW items \in Seq(Item(E))
  PROVE  PutAll(items) \in Sending(E) /\ Adds(items, Len(items), PutAll(items))
<1> DEFINE N == Len(items)
<1>1. N \in Nat /\ DOMAIN items = 1..N /\ Batch(items) \in Sending(E)
  BY BatchRuns
<1> PICK f : IsRun(items, f) /\ PutAll(items) = f[N]
  BY BatchRuns
<1> DEFINE P == {k \in Nat : k <= N => f[k] \in Sending(E) /\ Adds(items, k, f[k])}
<1>2. 0 \in P
  <2>1. f[0] = Batch(items)
    BY <1>1 DEF IsRun
  <2>2. \A c \in Conns : Longer(outbound[c], outbound[c], items, 0, c)
    BY LenProperties DEF Longer
  <2>3. Adds(items, 0, Batch(items))
    <3>1. Batch(items).out = outbound /\ Batch(items).rest = <<>> /\ DOMAIN <<>> = {}
      BY DEF Batch
    <3> QED BY <2>2, <3>1 DEF Adds
  <2> QED BY <1>1, <2>1, <2>3
<1>3. ASSUME NEW k \in P PROVE k + 1 \in P
  <2> SUFFICES ASSUME k + 1 <= N PROVE f[k + 1] \in Sending(E) /\ Adds(items, k + 1, f[k + 1])
    OBVIOUS
  <2>1. k \in Nat /\ k + 1 \in DOMAIN items /\ f[k] \in Sending(E) /\ Adds(items, k, f[k])
    BY <1>1
  <2>2. f[k + 1] = PutStep(f[k], items[k + 1])
    <3>1. k + 1 \in 0..N /\ k + 1 # 0 /\ (k + 1) - 1 = k
      BY <1>1
    <3> QED BY <3>1 DEF IsRun
  <2> PICK acc \in Sending(E) : acc = f[k]
    BY <2>1
  <2> PICK it \in Item(E) : it = items[k + 1]
    BY <2>1, ElementOfSeq
  <2> HIDE DEF P
  <2>3. PutStep(acc, it) \in Sending(E)
    BY PutOne
  <2>4. Adds(items, k + 1, PutStep(acc, items[k + 1]))
    BY <2>1, AddsOne
  <2> QED BY <2>2, <2>3, <2>4
<1>4. P = Nat
  <2> HIDE DEF P
  <2>1. P \subseteq Nat
    BY DEF P
  <2> QED BY <1>2, <1>3, <2>1, Inductive
<1>5. N \in P /\ N <= N
  BY <1>1, <1>4
<1> QED BY <1>5

\* A batch of one
LEMMA PutAllOne ==
  ASSUME NEW E, outbound \in [Conns -> Seq(E)], NEW it \in Item(E)
  PROVE  Puts(Batch(<<it>>), it, PutAll(<<it>>))
<1>0. <<it>> \in Seq(Item(E))
  OBVIOUS
<1> PICK items \in Seq(Item(E)) : items = <<it>>
  BY <1>0
<1>1. Len(items) = 1 /\ items[1] = it
  OBVIOUS
<1> HIDE DEF Puts
<1> PICK f : IsRun(items, f) /\ PutAll(items) = f[1]
  BY <1>1, BatchRuns
<1>2. f[0] = Batch(items) /\ f[1] = PutStep(f[0], it)
  BY <1>1 DEF IsRun
<1>3. Batch(items) \in Sending(E)
  BY BatchRuns
<1>4. Puts(Batch(items), it, PutStep(Batch(items), it))
  BY <1>3, PutOne
<1> QED BY <1>2, <1>4

-----------------------------------------------------------------------------
(* The types of what goes over the wire                                    *)

Contents == [kind : {"text", "artifact"}, parts : SUBSET Nat,
             note : {"none", "error", "cancelled", "summary"}]
Slices == [known : SUBSET Replies, content : [Replies -> Contents], streaming : SUBSET Replies, over : BOOLEAN]
Histories == [t : {"history"}, rows : UNION {[S -> Contents] : S \in SUBSET Replies}]
Signals == [t : {"fanout", "stop"}]
Notices == [t : {"created", "error"}, m : Replies]
Chunks == [t : {"chunk"}, m : Replies, n : Nat]
Finals == [t : {"done", "cancelled"}, m : Replies, content : Contents]
Events == Histories \cup Signals \cup Notices \cup Chunks \cup Finals

LEMMA EventKinds ==
  ASSUME NEW e \in Events
  PROVE  /\ e.t \in {"history", "fanout", "stop", "created", "error", "chunk", "done", "cancelled"}
         /\ e.t = "history" => DOMAIN e.rows \subseteq Replies /\ e.rows \in [DOMAIN e.rows -> Contents]
         /\ e.t \notin {"history", "fanout", "stop"} => e.m \in Replies
         /\ e.t \in {"done", "cancelled"} => e.content \in Contents
         /\ e.t = "chunk" => e.n \in Nat
<1>1. CASE e \in Histories
  <2>1. e.t = "history" /\ e.rows \in UNION {[S -> Contents] : S \in SUBSET Replies}
    BY <1>1 DEF Histories
  <2>2. PICK S \in SUBSET Replies : e.rows \in [S -> Contents]
    BY <2>1
  <2>3. DOMAIN e.rows = S
    BY <2>2
  <2> QED BY <2>1, <2>2, <2>3
<1>2. CASE e \in Signals
  BY <1>2 DEF Signals
<1>3. CASE e \in Notices
  BY <1>3 DEF Notices
<1>4. CASE e \in Chunks
  BY <1>4 DEF Chunks
<1>5. CASE e \in Finals
  BY <1>5 DEF Finals
<1> QED BY <1>1, <1>2, <1>3, <1>4, <1>5 DEF Events

LEMMA EventMade ==
  /\ \A m \in Replies : [t |-> "created", m |-> m] \in Events /\ [t |-> "error", m |-> m] \in Events
  /\ \A m \in Replies, n \in Nat : [t |-> "chunk", m |-> m, n |-> n] \in Events
  /\ \A m \in Replies, t \in {"done", "cancelled"}, x \in Contents : [t |-> t, m |-> m, content |-> x] \in Events
  /\ [t |-> "fanout"] \in Events /\ Stop \in Events
  /\ \A S \in SUBSET Replies : \A f \in [S -> Contents] : [t |-> "history", rows |-> f] \in Histories
  /\ Histories \subseteq Events
<1>1. \A m \in Replies : [t |-> "created", m |-> m] \in Notices /\ [t |-> "error", m |-> m] \in Notices
  BY DEF Notices
<1>2. \A m \in Replies, n \in Nat : [t |-> "chunk", m |-> m, n |-> n] \in Chunks
  BY DEF Chunks
<1>3. \A m \in Replies, t \in {"done", "cancelled"}, x \in Contents : [t |-> t, m |-> m, content |-> x] \in Finals
  BY DEF Finals
<1>4. [t |-> "fanout"] \in Signals /\ Stop \in Signals
  BY DEF Signals, Stop
<1>5. \A S \in SUBSET Replies : \A f \in [S -> Contents] : [t |-> "history", rows |-> f] \in Histories
  BY DEF Histories
<1> QED BY <1>1, <1>2, <1>3, <1>4, <1>5 DEF Events

Made(k, c, st, o) == [known |-> k, content |-> c, streaming |-> st, over |-> o]

Setting(s, k, c, st) == [s EXCEPT !.known = k, !.content = c, !.streaming = st]

LEMMA SettingMade ==
  ASSUME NEW s \in Slices, NEW k, NEW c, NEW st
  PROVE  Setting(s, k, c, st) = Made(k, c, st, s.over)
<1>1. [s EXCEPT !.known = k] = Made(k, s.content, s.streaming, s.over)
  BY DEF Made, Slices
<1>2. [Made(k, s.content, s.streaming, s.over) EXCEPT !.content = c] = Made(k, c, s.streaming, s.over)
  BY DEF Made
<1>3. [Made(k, c, s.streaming, s.over) EXCEPT !.streaming = st] = Made(k, c, st, s.over)
  BY DEF Made
<1> QED BY <1>1, <1>2, <1>3, Zenon DEF Setting

LEMMA SliceMade ==
  ASSUME NEW s \in Slices, NEW c, NEW st, NEW o
  PROVE  /\ [s EXCEPT !.content = c, !.streaming = st] = Made(s.known, c, st, s.over)
         /\ [s EXCEPT !.content = c] = Made(s.known, c, s.streaming, s.over)
         /\ [s EXCEPT !.over = o] = Made(s.known, s.content, s.streaming, o)
<1>5. [s EXCEPT !.content = c] = Made(s.known, c, s.streaming, s.over)
  BY DEF Made, Slices
<1>6. [Made(s.known, c, s.streaming, s.over) EXCEPT !.streaming = st] = Made(s.known, c, st, s.over)
  BY DEF Made
<1>7. [s EXCEPT !.content = c, !.streaming = st] = Made(s.known, c, st, s.over)
  BY <1>5, <1>6, Zenon
<1>8. [s EXCEPT !.over = o] = Made(s.known, s.content, s.streaming, o)
  BY DEF Made, Slices
<1> QED BY <1>5, <1>7, <1>8

\* What the browser makes of an event, field by field
LEMMA Reduced ==
  ASSUME NEW s \in Slices, NEW e \in Events
  PROVE  /\ Reduce(s, e) \in Slices
         /\ Reduce(s, e).over = (s.over \/ e.t = "fanout")
         /\ Reduce(s, e).known = CASE e.t = "history" -> DOMAIN e.rows
                                   [] e.t = "created" -> s.known \cup {e.m}
                                   [] OTHER -> s.known
<1>1. /\ s = Made(s.known, s.content, s.streaming, s.over) /\ s.known \in SUBSET Replies
      /\ s.content \in [Replies -> Contents] /\ s.streaming \in SUBSET Replies /\ s.over \in BOOLEAN
  BY DEF Slices, Made
<1>2. \A k \in SUBSET Replies, c \in [Replies -> Contents], st \in SUBSET Replies, o \in BOOLEAN :
        Made(k, c, st, o) \in Slices
        /\ Made(k, c, st, o).known = k /\ Made(k, c, st, o).content = c
        /\ Made(k, c, st, o).streaming = st /\ Made(k, c, st, o).over = o
  BY DEF Slices, Made
<1>3. Blank \in Contents /\ \A x \in Contents, n \in Nat : Text(x.parts \cup {n}, x.note) \in Contents /\ Text(x.parts, "error") \in Contents
  BY DEF Blank, Text, Contents
<1>4. CASE e.t = "history"
  <2> PICK rows : rows = e.rows
    OBVIOUS
  <2>1. DOMAIN rows \subseteq Replies /\ rows \in [DOMAIN rows -> Contents]
    BY <1>4, EventKinds
  <2> PICK c \in [Replies -> Contents] : c = [m \in Replies |-> IF m \in DOMAIN rows THEN rows[m] ELSE Blank]
    BY <2>1, <1>3
  <2> PICK st \in SUBSET Replies : st = s.streaming \cup {m \in DOMAIN rows : Pending(rows[m])}
    BY <1>1, <2>1
  <2>2. ApplyHistory(s, e) = Made(DOMAIN rows, c, st, s.over)
    <3> PICK k \in SUBSET Replies : k = DOMAIN rows
      BY <2>1
    <3>1. ApplyHistory(s, e) = Setting(s, k, c, st)
      BY Zenon DEF ApplyHistory, Setting
    <3>2. Setting(s, k, c, st) = Made(k, c, st, s.over)
      BY SettingMade
    <3> QED BY <3>1, <3>2
  <2>3. Reduce(s, e) = Made(DOMAIN rows, c, st, s.over)
    BY <1>4, <2>2 DEF Reduce
  <2>4. Made(DOMAIN rows, c, st, s.over) \in Slices
    BY <1>1, <1>2, <2>1
  <2> QED BY <1>1, <1>2, <1>4, <2>1, <2>3, <2>4
<1>5. CASE e.t = "created"
  <2>1. e.m \in Replies /\ Reduce(s, e) = ApplyCreated(s, e)
    BY <1>5, EventKinds DEF Reduce
  <2>2. CASE e.m \in s.known
    <3>1. Reduce(s, e) = s /\ s.known = s.known \cup {e.m}
      BY <2>1, <2>2 DEF ApplyCreated
    <3> QED BY <1>1, <1>5, <3>1
  <2>3. CASE e.m \notin s.known
    <3> PICK c \in [Replies -> Contents] : c = [s.content EXCEPT ![e.m] = Blank]
      BY <1>1, <1>3
    <3>1. ApplyCreated(s, e) = Made(s.known \cup {e.m}, c, s.streaming \cup {e.m}, s.over)
      <4> PICK k \in SUBSET Replies, st \in SUBSET Replies : k = s.known \cup {e.m} /\ st = s.streaming \cup {e.m}
        BY <1>1, <2>1
      <4>1. ApplyCreated(s, e) = Setting(s, k, c, st)
        BY <2>3, Zenon DEF ApplyCreated, Setting
      <4>2. Setting(s, k, c, st) = Made(k, c, st, s.over)
        BY SettingMade
      <4> QED BY <4>1, <4>2
    <3>2. Made(s.known \cup {e.m}, c, s.streaming \cup {e.m}, s.over) \in Slices
      BY <1>1, <1>2, <2>1
    <3> QED BY <1>1, <1>2, <1>5, <2>1, <3>1, <3>2
  <2> QED BY <2>2, <2>3
<1>6. CASE e.t = "chunk"
  <2>1. e.m \in Replies /\ e.n \in Nat /\ Reduce(s, e) = ApplyChunk(s, e)
    BY <1>6, EventKinds DEF Reduce
  <2>2. CASE e.m \notin s.known
    BY <1>1, <1>6, <2>1, <2>2 DEF ApplyChunk
  <2>3. CASE e.m \in s.known
    <3> PICK c \in [Replies -> Contents] : c = [s.content EXCEPT ![e.m] = Text(@.parts \cup {e.n}, @.note)]
      BY <1>1, <1>3, <2>1
    <3>1. ApplyChunk(s, e) = Made(s.known, c, s.streaming, s.over)
      BY <2>3, SliceMade DEF ApplyChunk
    <3>2. Made(s.known, c, s.streaming, s.over) \in Slices
      BY <1>1, <1>2
    <3> QED BY <1>1, <1>2, <1>6, <2>1, <3>1, <3>2
  <2> QED BY <2>2, <2>3
<1>7. CASE e.t \in {"done", "cancelled"}
  <2>1. e.m \in Replies /\ e.content \in Contents /\ Reduce(s, e) = ApplyFinal(s, e)
    BY <1>7, EventKinds DEF Reduce
  <2> PICK c \in [Replies -> Contents] : c = IF e.m \in s.known THEN [s.content EXCEPT ![e.m] = e.content] ELSE s.content
    BY <1>1, <2>1
  <2>2. ApplyFinal(s, e) = Made(s.known, c, s.streaming \ {e.m}, s.over)
    BY SliceMade DEF ApplyFinal
  <2>3. Made(s.known, c, s.streaming \ {e.m}, s.over) \in Slices
    BY <1>1, <1>2
  <2> QED BY <1>1, <1>2, <1>7, <2>1, <2>2, <2>3
<1>8. CASE e.t = "error"
  <2>1. e.m \in Replies /\ Reduce(s, e) = ApplyError(s, e)
    BY <1>8, EventKinds DEF Reduce
  <2>2. CASE e.m \notin s.streaming
    BY <1>1, <1>8, <2>1, <2>2 DEF ApplyError
  <2>3. CASE e.m \in s.streaming
    <3> PICK c \in [Replies -> Contents] : c = IF e.m \in s.known THEN [s.content EXCEPT ![e.m] = Text(@.parts, "error")] ELSE s.content
      BY <1>1, <1>3, <2>1
    <3>1. ApplyError(s, e) = Made(s.known, c, s.streaming \ {e.m}, s.over)
      BY <2>3, SliceMade DEF ApplyError
    <3>2. Made(s.known, c, s.streaming \ {e.m}, s.over) \in Slices
      BY <1>1, <1>2
    <3> QED BY <1>1, <1>2, <1>8, <2>1, <3>1, <3>2
  <2> QED BY <2>2, <2>3
<1>9. CASE e.t = "fanout"
  <2>1. Reduce(s, e) = Made(s.known, s.content, s.streaming, TRUE)
    BY <1>9, SliceMade, Zenon DEF Reduce
  <2>2. Made(s.known, s.content, s.streaming, TRUE) \in Slices
        /\ Made(s.known, s.content, s.streaming, TRUE).known = s.known
        /\ Made(s.known, s.content, s.streaming, TRUE).over = TRUE
    <3>1. TRUE \in BOOLEAN
      OBVIOUS
    <3>2. \A o \in BOOLEAN : /\ Made(s.known, s.content, s.streaming, o) \in Slices
                             /\ Made(s.known, s.content, s.streaming, o).known = s.known
                             /\ Made(s.known, s.content, s.streaming, o).over = o
      BY <1>1, <1>2
    <3> QED BY <3>1, <3>2, Zenon
  <2> QED BY <1>9, <2>1, <2>2
<1>11. CASE e.t = "stop"
  <2>1. Reduce(s, e) = s
    BY <1>11 DEF Reduce
  <2> QED BY <1>1, <1>11, <2>1
<1> QED BY <1>4, <1>5, <1>6, <1>7, <1>8, <1>9, <1>11, EventKinds

-----------------------------------------------------------------------------
(* The batches that the handlers and the tasks send                        *)

LEMMA DirectMade == ASSUME NEW c \in Conns, NEW e \in Events PROVE Direct(c, e) \in Item(Events)
BY DEF Direct, Item

LEMMA SendAllMade ==
  ASSUME NEW c \in Conns, NEW evs \in Seq(Events)
  PROVE  /\ SendAll(c, evs) \in Seq(Item(Events)) /\ DOMAIN SendAll(c, evs) = DOMAIN evs
         /\ \A i \in DOMAIN evs : SendAll(c, evs)[i] = Direct(c, evs[i])
<1>1. DOMAIN evs = 1..Len(evs) /\ Len(evs) \in Nat /\ \A i \in DOMAIN evs : evs[i] \in Events
  BY LenProperties, ElementOfSeq
<1>2. \A i \in DOMAIN evs : Direct(c, evs[i]) \in Item(Events)
  BY <1>1, DirectMade
<1>3. SendAll(c, evs) \in [1..Len(evs) -> Item(Events)]
  BY <1>1, <1>2 DEF SendAll
<1>4. SendAll(c, evs) \in Seq(Item(Events))
  BY <1>1, <1>3, SeqDef
<1> QED BY <1>4 DEF SendAll

\* What is sent is for the connection itself, or for who else is there
Told(c, it) == it.to = c \/ (it.room /\ ~it.waits)

LEMMA EmitMade ==
  ASSUME NEW c \in Conns, NEW e \in Events
  PROVE  /\ Emit(c, e) \in Seq(Item(Events)) /\ 1 \in DOMAIN Emit(c, e) /\ Emit(c, e)[1] = Direct(c, e)
         /\ \A i \in DOMAIN Emit(c, e) : Emit(c, e)[i].e = e /\ (Emit(c, e)[i].to = c => ~Emit(c, e)[i].room)
         /\ \A i \in DOMAIN Emit(c, e) : Told(c, Emit(c, e)[i])
<1> DEFINE S == Conns \ {c}
           seq == SetToSeq(S)
           n == Cardinality(S)
           also == [i \in DOMAIN seq |-> [to |-> seq[i], e |-> e, room |-> TRUE, waits |-> FALSE]]
<1>1. IsFiniteSet(S)
  BY WsAssumption, FS_Subset
<1>2. n \in Nat /\ seq \in [1..n -> S]
  <2> HIDE DEF S
  <2> QED BY <1>1, SetAsSeq
<1>3. also \in [1..n -> Item(Events)]
  BY <1>2 DEF Item
<1> PICK rest \in Seq(Item(Events)) : rest = also /\ Len(rest) = n /\ DOMAIN rest = 1..n
  <2> HIDE DEF also, n
  <2>1. also \in Seq(Item(Events)) /\ DOMAIN also = 1..n
    BY <1>2, <1>3, SeqDef
  <2>2. Len(also) = n
    BY <1>2, <2>1, LenProperties
  <2> QED BY <2>1, <2>2
<1>4. \A i \in 1..n : rest[i].e = e /\ rest[i].to # c /\ rest[i].room /\ ~rest[i].waits
  BY <1>2
<1> PICK first \in Item(Events) : first = Direct(c, e)
  BY DirectMade
<1>5. <<first>> \in Seq(Item(Events)) /\ Len(<<first>>) = 1 /\ <<first>>[1] = first
  OBVIOUS
<1> HIDE DEF also, n, seq, S
<1> PICK all \in Seq(Item(Events)) : /\ all = <<first>> \o rest /\ Len(all) = 1 + n
                                     /\ \A i \in 1..Len(all) : all[i] = IF i <= 1 THEN <<first>>[i] ELSE rest[i - 1]
  <2> PICK one \in Seq(Item(Events)) : one = <<first>> /\ Len(one) = 1
    BY <1>5
  <2>1. /\ one \o rest \in Seq(Item(Events)) /\ Len(one \o rest) = 1 + n
        /\ \A i \in 1..Len(one) + Len(rest) : (one \o rest)[i] = IF i <= Len(one) THEN one[i] ELSE rest[i - Len(one)]
    BY ConcatProperties
  <2> QED BY <2>1
<1>6. Emit(c, e) = all
  BY DEF Emit, also, seq, S
<1>7. DOMAIN all = 1..(1 + n) /\ 1 \in 1..(1 + n)
  BY <1>2, LenProperties
<1>8. all[1] = first
  BY <1>5, <1>7, LenProperties
<1>9. ASSUME NEW i \in DOMAIN all PROVE all[i].e = e /\ (all[i].to = c => ~all[i].room) /\ Told(c, all[i])
  <2>1. CASE i = 1
    BY <1>8, <2>1 DEF Direct, Told
  <2>2. CASE i # 1
    <3>1. all[i] = rest[i - 1] /\ i - 1 \in 1..n
      BY <1>2, <1>7, <2>2, LenProperties
    <3> QED BY <1>4, <3>1 DEF Told
  <2> QED BY <2>1, <2>2
<1> QED BY <1>6, <1>7, <1>8, <1>9

-----------------------------------------------------------------------------
(* What a producer's sends do to the queues                                *)

\* A send is in the queue, or waits for room, or was for nobody, or was dropped
GotThrough(p, it) ==
  \/ Skipped(it) \/ it.e.t \in Droppable
  \/ \E i \in DOMAIN outbound'[it.to] : i > Len(outbound[it.to]) /\ outbound'[it.to][i] = it.e
  \/ \E i \in DOMAIN owed'[p] : owed'[p][i].to = it.to /\ owed'[p][i].e = it.e

Produced(p, items) ==
  /\ outbound' \in [Conns -> Seq(Events)] /\ owed' \in [Producers -> Seq(Item(Events))]
  /\ \A q \in Producers \ {p} : owed'[q] = owed[q]
  /\ \A c \in Conns :
       /\ Len(outbound[c]) <= Len(outbound'[c]) /\ \A i \in DOMAIN outbound[c] : outbound'[c][i] = outbound[c][i]
       /\ \A i \in DOMAIN outbound'[c] :
            i > Len(outbound[c]) => \E j \in DOMAIN items : items[j].to = c /\ outbound'[c][i] = items[j].e
  /\ \A i \in DOMAIN owed'[p] : \E j \in DOMAIN items : Same(owed'[p][i], items[j])
  /\ \A j \in DOMAIN items : GotThrough(p, items[j])

QueueTypes == outbound \in [Conns -> Seq(Events)] /\ owed \in [Producers -> Seq(Item(Events))]

LEMMA ProduceDoes ==
  ASSUME QueueTypes, NEW p \in Producers, NEW items \in Seq(Item(Events)), Produce(p, items)
  PROVE  Produced(p, items)
<1> PICK r \in Sending(Events) : r = PutAll(items) /\ Adds(items, Len(items), r)
  BY PutAllAdds DEF QueueTypes
<1>1. outbound' = r.out /\ owed' = [owed EXCEPT ![p] = r.rest] /\ DOMAIN items = 1..Len(items)
  BY LenProperties DEF Produce
<1>2. r.out \in [Conns -> Seq(Events)] /\ r.rest \in Seq(Item(Events))
  BY DEF Sending
<1>3. /\ outbound' \in [Conns -> Seq(Events)] /\ owed' \in [Producers -> Seq(Item(Events))]
      /\ \A q \in Producers \ {p} : owed'[q] = owed[q]
      /\ owed'[p] = r.rest
  BY <1>1, <1>2 DEF QueueTypes
<1>4. ASSUME NEW c \in Conns
      PROVE  /\ Len(outbound[c]) <= Len(outbound'[c]) /\ \A i \in DOMAIN outbound[c] : outbound'[c][i] = outbound[c][i]
             /\ \A i \in DOMAIN outbound'[c] :
                  i > Len(outbound[c]) => \E j \in DOMAIN items : items[j].to = c /\ outbound'[c][i] = items[j].e
  <2>1. Longer(outbound[c], outbound'[c], items, Len(items), c)
    BY <1>1 DEF Adds
  <2>2. DOMAIN outbound[c] = 1..Len(outbound[c])
    BY LenProperties DEF QueueTypes
  <2> QED BY <1>1, <2>1, <2>2 DEF Longer
<1>5. \A i \in DOMAIN owed'[p] : \E j \in DOMAIN items : Same(owed'[p][i], items[j])
  BY <1>1, <1>3 DEF Adds
<1>6. \A j \in DOMAIN items : GotThrough(p, items[j])
  BY <1>1, <1>3 DEF Adds, Arrives, GotThrough
<1> QED BY <1>3, <1>4, <1>5, <1>6 DEF Produced

-----------------------------------------------------------------------------
(* What a task has reported of its reply at each place of it               *)

Word(m) == CASE ending[m] = "crashed" -> "error" [] ending[m] = "failed" -> "done" [] OTHER -> ending[m]

LEMMA FirstWord == \A m \in Replies : Verdict(m)[1].t = Word(m)
BY DEF Verdict, Word

VerdictOk(m) ==
  /\ \A k \in DOMAIN verdicts[m] : verdicts[m][k] # "none"
  /\ pc[m] \in {"none", "begin", "prepare", "stream", "coordinate", "reread"} => verdicts[m] = <<>>
  /\ pc[m] \in {"persist", "report", "trace"} => ending[m] # "none"
  /\ pc[m] \in {"persist", "report"} => /\ \A k \in DOMAIN verdicts[m] : verdicts[m][k] = "done"
                                        /\ ending[m] # "cancelled" => verdicts[m] = <<>>
  /\ pc[m] = "trace" => /\ verdicts[m] # <<>> /\ verdicts[m][Len(verdicts[m])] = Word(m)
                        /\ \A k \in DOMAIN verdicts[m] : k # Len(verdicts[m]) => verdicts[m][k] = "done"

VerdictInv == \A m \in Replies : VerdictOk(m)

Words == Seq(Ends \cup {"error"})

LEMMA FrontOf ==
  ASSUME NEW s \in Words, s # <<>>
  PROVE  /\ Front(s) \in Words /\ Len(s) \in Nat /\ Len(s) > 0 /\ Len(Front(s)) = Len(s) - 1
         /\ DOMAIN s = 1..Len(s) /\ DOMAIN Front(s) = 1..(Len(s) - 1)
         /\ \A k \in DOMAIN Front(s) : Front(s)[k] = s[k]
<1>1. Len(s) \in Nat /\ Len(s) > 0 /\ DOMAIN s = 1..Len(s)
  BY EmptySeq, LenProperties DEF Words
<1>2. Front(s) = SubSeq(s, 1, Len(s) - 1)
  BY DEF Front
<1>3. \A i \in 1..Len(s) : s[i] \in Ends \cup {"error"}
  BY <1>1, ElementOfSeq DEF Words
<1>4. /\ SubSeq(s, 1, Len(s) - 1) \in Words
      /\ Len(SubSeq(s, 1, Len(s) - 1)) = IF 1 <= Len(s) - 1 THEN (Len(s) - 1) - 1 + 1 ELSE 0
      /\ \A i \in 1..((Len(s) - 1) - 1 + 1) : SubSeq(s, 1, Len(s) - 1)[i] = s[1 + i - 1]
  BY <1>1, <1>3, SubSeqProperties DEF Words
<1>5. Len(Front(s)) = Len(s) - 1
  BY <1>1, <1>2, <1>4
<1>6. DOMAIN Front(s) = 1..(Len(s) - 1)
  BY <1>2, <1>4, <1>5, LenProperties DEF Words
<1>7. \A k \in 1..(Len(s) - 1) : Front(s)[k] = s[k]
  BY <1>1, <1>2, <1>4
<1> QED BY <1>1, <1>2, <1>4, <1>5, <1>6, <1>7

LEMMA AppendedWord ==
  ASSUME NEW s \in Words, NEW w \in Ends \cup {"error"}
  PROVE  /\ Append(s, w) \in Words /\ Append(s, w) # <<>> /\ Len(Append(s, w)) = Len(s) + 1
         /\ DOMAIN Append(s, w) = 1..(Len(s) + 1) /\ DOMAIN s = 1..Len(s) /\ Len(s) \in Nat
         /\ Append(s, w)[Len(s) + 1] = w /\ \A k \in DOMAIN s : Append(s, w)[k] = s[k]
BY AppendProperties, LenProperties DEF Words

\* What a cancel makes of a task
LEMMA CancelKeepsVerdict ==
  ASSUME ReplyInv, NEW m \in Replies, VerdictOk(m), CancelReply(m) PROVE VerdictOk(m)'
<1>1. /\ pc \in [Replies -> Places] /\ ending \in [Replies -> Ends] /\ verdicts \in [Replies -> Words]
  BY DEF ReplyInv, ReplyType, Words
<1> PICK s \in Words, t \in Words : s = verdicts[m] /\ t = verdicts'[m]
  BY <1>1, MetOnce DEF Words
<1>2. t = s \/ (pc[m] # "over" /\ s # <<>> /\ t = Front(s))
  BY <1>1 DEF CancelReply
<1>3. \A k \in DOMAIN t : k \in DOMAIN s /\ t[k] = s[k]
  BY <1>2, FrontOf
<1>4. s = <<>> => t = <<>>
  BY <1>2
<1>5. CASE ~InFlight(m)
  <2>1. pc'[m] = pc[m] /\ ending'[m] = ending[m] /\ pc[m] \in {"none", "begin", "over"}
    BY <1>1, <1>5 DEF CancelReply, InFlight
  <2> QED BY <1>3, <1>4, <2>1 DEF VerdictOk
<1>6. CASE InFlight(m) /\ InTry(m)
  <2>1. pc'[m] = "persist" /\ ending'[m] = "cancelled"
    BY <1>1, <1>6 DEF CancelReply
  <2>2. \A k \in DOMAIN s : s[k] = "done"
    <3>1. CASE pc[m] \in {"stream", "coordinate", "reread", "persist", "report"}
      <4>1. s = <<>> \/ \A k \in DOMAIN s : s[k] = "done"
        BY <3>1 DEF VerdictOk
      <4>2. DOMAIN <<>> = {}
        OBVIOUS
      <4> QED BY <4>1, <4>2
    <3>2. CASE pc[m] = "trace" /\ ending[m] \in {"done", "failed"}
      BY <3>2 DEF VerdictOk, Word
    <3> QED BY <1>6, <3>1, <3>2 DEF InTry
  <2> QED BY <1>3, <2>1, <2>2 DEF VerdictOk
<1>7. CASE InFlight(m) /\ ~InTry(m)
  <2>1. pc'[m] = "leave"
    BY <1>1, <1>7 DEF CancelReply
  <2> QED BY <1>3, <2>1 DEF VerdictOk
<1> QED BY <1>5, <1>6, <1>7

LEMMA FireKeepsVerdict == ASSUME ReplyInv, NEW c \in Conns, FireCancel(c), VerdictInv PROVE VerdictInv'
<1> PICK m \in Replies : m = target[c]
  BY DEF FireCancel, ReplyInv, ReplyType
<1>1. CASE CancelReply(m)
  <2>1. \A n \in Replies \ {m} : pc'[n] = pc[n] /\ ending'[n] = ending[n] /\ verdicts'[n] = verdicts[n]
    BY <1>1, MetOnce
  <2>2. \A n \in Replies \ {m} : VerdictOk(n)'
    BY <2>1 DEF VerdictInv, VerdictOk, Word
  <2> QED BY <1>1, <2>2, CancelKeepsVerdict DEF VerdictInv
<1>2. CASE UNCHANGED <<pc, ending, owed, verdicts>>
  BY <1>2 DEF VerdictInv, VerdictOk, Word
<1> QED BY <1>1, <1>2 DEF FireCancel

LEMMA ReplyKeepsVerdict == ASSUME ReplyInv, NEW m \in Replies, Reply(m), VerdictInv PROVE VerdictInv'
<1>1. /\ pc \in [Replies -> Places] /\ ending \in [Replies -> Ends] /\ verdicts \in [Replies -> Words]
      /\ VerdictOk(m) /\ (pc[m] \in {"begin", "prepare"} => ending[m] = "none")
  BY DEF ReplyInv, ReplyType, EndingInv, Words, VerdictInv
<1>2. CASE Begin(m) \/ Prepared(m) \/ TextChunk(m) \/ StreamEnds(m) \/ Coordinate(m) \/ Reread(m) \/ Persist(m) \/ Trace(m) \/ LeaveTask(m)
  <2>1. verdicts' = verdicts /\ \A n \in Replies \ {m} : pc'[n] = pc[n] /\ ending'[n] = ending[n]
    BY <1>1, <1>2 DEF Begin, Prepared, TextChunk, StreamEnds, Coordinate, Reread, Persist, Trace, LeaveTask, Step
  <2>2. \A n \in Replies \ {m} : VerdictOk(n)'
    BY <2>1 DEF VerdictInv, VerdictOk, Word
  <2>3. VerdictOk(m)'
    <3>0. DOMAIN <<>> = {}
      OBVIOUS
    <3>1. CASE Begin(m) \/ Prepared(m) \/ TextChunk(m)
      BY <1>1, <2>1, <3>1 DEF Begin, Prepared, TextChunk, Step, VerdictOk
    <3>2. CASE StreamEnds(m) \/ Coordinate(m)
      BY <1>1, <2>1, <3>0, <3>2 DEF StreamEnds, Coordinate, Step, VerdictOk
    <3>3. CASE Reread(m) \/ Persist(m)
      BY <1>1, <2>1, <3>0, <3>3 DEF Reread, Persist, Step, VerdictOk
    <3>4. CASE Trace(m) \/ LeaveTask(m)
      BY <1>1, <2>1, <3>4 DEF Trace, LeaveTask, Step, VerdictOk
    <3> QED BY <1>2, <3>1, <3>2, <3>3, <3>4
  <2> QED BY <2>2, <2>3 DEF VerdictInv
<1>3. CASE NotLoaded(m) \/ Report(m)
  <2>1. /\ \A n \in Replies \ {m} : pc'[n] = pc[n] /\ ending'[n] = ending[n] /\ verdicts'[n] = verdicts[n]
        /\ ending'[m] = ending[m]
    BY <1>1, <1>3 DEF NotLoaded, Report, Step
  <2>2. \A n \in Replies \ {m} : VerdictOk(n)'
    BY <2>1 DEF VerdictInv, VerdictOk, Word
  <2>3. VerdictOk(m)'
    <3>1. CASE NotLoaded(m)
      BY <1>1, <3>1 DEF NotLoaded, Step, VerdictOk
    <3>2. CASE Report(m)
      <4>1. /\ pc[m] = "report" /\ pc'[m] = "trace"
            /\ verdicts'[m] = Append(verdicts[m], Word(m))
        BY <1>1, <3>2, FirstWord DEF Report, Step
      <4>2. Word(m) \in Ends \cup {"error"} /\ Word(m)' = Word(m)
        BY <1>1, <2>1 DEF Word, Ends
      <4> PICK s \in Words, w \in Ends \cup {"error"}, t \in Words : s = verdicts[m] /\ w = Word(m) /\ t = Append(s, w)
        BY <1>1, <4>2, AppendedWord
      <4>3. /\ t # <<>> /\ Len(t) = Len(s) + 1 /\ DOMAIN t = 1..(Len(s) + 1) /\ DOMAIN s = 1..Len(s) /\ Len(s) \in Nat
            /\ t[Len(s) + 1] = w /\ \A k \in DOMAIN s : t[k] = s[k]
        BY AppendedWord
      <4>4. \A k \in DOMAIN s : s[k] = "done"
        BY <1>1, <4>1 DEF VerdictOk
      <4>5. \A k \in DOMAIN t : k # Len(t) => t[k] = "done"
        BY <4>3, <4>4
      <4>6. ending'[m] # "none"
        BY <1>1, <2>1, <4>1 DEF VerdictOk
      <4>7. \A k \in DOMAIN t : t[k] # "none"
        <5>1. w # "none"
          BY <2>1, <4>6 DEF Word
        <5> QED BY <4>3, <4>5, <5>1
      <4> QED BY <4>1, <4>2, <4>3, <4>5, <4>6, <4>7 DEF VerdictOk
    <3> QED BY <1>3, <3>1, <3>2
  <2> QED BY <2>2, <2>3 DEF VerdictInv
<1> QED BY <1>2, <1>3 DEF Reply

\* The final events a task has sent agree with the place it is at and with how its reply
\* ends: before it reports there is none but those of a report that a cancel met.
THEOREM VerdictInvariance == Spec => []VerdictInv
<1>1. Init => VerdictInv
  BY DEF Init, VerdictInv, VerdictOk
<1>2. ReplyInv /\ VerdictInv /\ [Next]_vars => VerdictInv'
  <2> SUFFICES ASSUME ReplyInv, VerdictInv, [Next]_vars PROVE VerdictInv'
    OBVIOUS
  <2> USE DEF wsVars, browserVars, turn, taskVars
  <2>1. CASE UNCHANGED <<pc, ending, verdicts>>
    BY <2>1 DEF VerdictInv, VerdictOk, Word
  <2>2. ASSUME NEW c \in Conns, StartReplies(c) PROVE VerdictInv'
    <3>1. /\ ending' = ending /\ verdicts' = verdicts /\ \A m \in Replies : pc[m] = "none" /\ pc'[m] \in {"begin", "none"}
      BY <2>2 DEF StartReplies, ReplyInv, StartedOnce
    <3> QED BY <3>1 DEF VerdictInv, VerdictOk
  <2>3. CASE System
    <3>1. ASSUME NEW c \in Conns, Deliver(c) \/ Join(c) \/ ReadHistory(c) \/ Answer(c) \/ Return(c) \/ Close(c) \/ Leave(c)
          PROVE UNCHANGED <<pc, ending, verdicts>>
      BY <3>1 DEF Deliver, Join, ReadHistory, Answer, Return, Close, Leave
    <3>2. ASSUME NEW p \in Producers, PutWaiting(p) PROVE UNCHANGED <<pc, ending, verdicts>>
      BY <3>2 DEF PutWaiting
    <3> QED BY <2>1, <2>2, <2>3, <3>1, <3>2, FireKeepsVerdict, ReplyKeepsVerdict DEF System, Handler
  <2>4. CASE Environment
    BY <2>1, <2>4 DEF Environment, Connect, Disconnect, SendMessage, AskCancel
  <2>5. CASE UNCHANGED vars
    BY <2>1, <2>5 DEF vars
  <2> QED BY <2>3, <2>4, <2>5 DEF Next
<1> QED BY <1>1, <1>2, ReplyInvariance, PTL DEF Spec

-----------------------------------------------------------------------------
(* What is on its way                                                      *)

FromReply == {"chunk", "done", "cancelled", "error", "fanout"}

WireType ==
  /\ QueueTypes /\ slice \in Slices /\ row \in [Replies -> Contents] /\ parts \in [Replies -> Nat]
  /\ closed \in [Conns -> BOOLEAN] /\ link \in [Conns -> {"none", "up", "down"}] /\ DOMAIN read = Conns
  /\ origin \in Conns \cup {NoConn} /\ asked \subseteq Replies
  /\ \A c \in Conns : reader[c] = "answering" => read[c] \in Histories

\* One connection is up at a time; the one that the message came from has answered its join
LinkInv ==
  /\ \A c \in Conns : /\ link[c] = "none" => reader[c] = "off"
                      /\ closed[c] => link[c] = "down"
                      /\ reader[c] = "creating" => c = origin
  /\ \A c, d \in Conns : link[c] = "up" /\ link[d] = "up" => c = d
  /\ origin \in Conns => reader[origin] \notin {"off", "joining", "reading", "answering"}

\* What a producer may still have to send
MayOwe(p, it) ==
  /\ it.to = origin => ~it.room
  /\ IF p \in Conns
     THEN it.to = p /\ \/ it.e.t = "history" /\ p # origin
                       \/ it.e.t = "created" /\ reader[p] = "creating"
                       \/ it.e.t = "stop" /\ closed[p]
     ELSE it.e.t \in FromReply /\ (it.e.t # "fanout" => it.e.m = p)

OwedInv ==
  /\ \A p \in Producers : \A i \in DOMAIN owed[p] : MayOwe(p, owed[p][i])
  /\ \A m \in Replies : pc[m] = "none" => Free(m)

StopInv == \A c \in Conns : \A i \in DOMAIN outbound[c] : outbound[c][i].t = "stop" => closed[c]

WireInv == WireType /\ LinkInv /\ OwedInv /\ StopInv

\* A running reply belongs to a message
LEMMA HasOrigin ==
  ASSUME ReplyInv, WireInv, NEW m \in Replies, pc[m] # "none" PROVE origin \in Conns /\ m \in Producers /\ m \notin Conns
BY ReplyAssumption DEF ReplyInv, StartedOnce, WireInv, WireType

\* What is owed is sent
LEMMA OwedIsItem ==
  ASSUME WireInv, NEW p \in Producers PROVE owed[p] \in Seq(Item(Events)) /\ \A i \in DOMAIN owed[p] : owed[p][i] \in Item(Events)
<1>1. owed[p] \in Seq(Item(Events))
  BY DEF WireInv, WireType, QueueTypes
<1> QED BY <1>1, ElementOfSeq

-----------------------------------------------------------------------------
(* The batches of the actions                                              *)

LEMMA AnswerSends ==
  ASSUME WireInv, NEW c \in Conns, Answer(c)
  PROVE  \E items \in Seq(Item(Events)) :
           Produced(c, items) /\ Produce(c, items) /\ \A i \in DOMAIN items : items[i] = Direct(c, read[c])
<1> PICK e \in Events : e = read[c]
  BY EventMade DEF Answer, WireInv, WireType
<1> PICK evs \in Seq(Events) : evs = <<e>>
  <2>1. <<e>> \in Seq(Events)
    OBVIOUS
  <2> QED BY <2>1
<1> PICK items \in Seq(Item(Events)) : /\ items = SendAll(c, evs) /\ DOMAIN items = DOMAIN evs
                                       /\ \A i \in DOMAIN evs : items[i] = Direct(c, evs[i])
  BY SendAllMade
<1>1. \A i \in DOMAIN evs : evs[i] = e
  OBVIOUS
<1>2. Produce(c, items) /\ Produced(c, items)
  BY WsAssumption, ProduceDoes DEF Answer, WireInv, WireType
<1> QED BY <1>1, <1>2

CreatedEvent(m) == [t |-> "created", m |-> m]

LEMMA SendMessageSends ==
  ASSUME WireInv, NEW c \in Conns, SendMessage(c)
  PROVE  \E items \in Seq(Item(Events)) :
           /\ Produced(c, items) /\ Produce(c, items) /\ asked' \subseteq Replies
           /\ \A i \in DOMAIN items : \E m \in asked' : items[i] = Direct(c, CreatedEvent(m))
           /\ \A m \in asked' : \E i \in DOMAIN items : items[i] = Direct(c, CreatedEvent(m))
<1> PICK ms \in SUBSET Replies : asked' = ms /\ Produce(c, SendAll(c, [i \in 1..Cardinality(ms) |-> [t |-> "created", m |-> SetToSeq(ms)[i]]]))
  BY DEF SendMessage
<1> DEFINE n == Cardinality(ms)
<1>1. IsFiniteSet(ms)
  BY ReplyAssumption, FS_Subset
<1>2. n \in Nat /\ SetToSeq(ms) \in [1..n -> ms] /\ \A x \in ms : \E i \in 1..n : SetToSeq(ms)[i] = x
  BY <1>1, SetAsSeq
<1> PICK f \in [1..n -> ms] : f = SetToSeq(ms)
  BY <1>2
<1> PICK es : es = [i \in 1..n |-> [t |-> "created", m |-> f[i]]]
  OBVIOUS
<1>3. es \in [1..n -> Events] /\ \A i \in 1..n : es[i] = CreatedEvent(f[i])
  <2>1. \A i \in 1..n : es[i] = CreatedEvent(f[i])
    BY DEF CreatedEvent
  <2>2. \A i \in 1..n : f[i] \in Replies
    OBVIOUS
  <2>3. \A i \in 1..n : es[i] \in Events
    BY <2>1, <2>2, EventMade DEF CreatedEvent
  <2> QED BY <2>1, <2>3
<1> PICK evs \in Seq(Events) : evs = es /\ DOMAIN evs = 1..n
  <2> HIDE DEF n
  <2>1. es \in Seq(Events) /\ DOMAIN es = 1..n
    BY <1>2, <1>3, SeqDef
  <2> QED BY <2>1
<1> PICK items \in Seq(Item(Events)) : /\ items = SendAll(c, evs) /\ DOMAIN items = DOMAIN evs
                                       /\ \A i \in DOMAIN evs : items[i] = Direct(c, evs[i])
  BY SendAllMade
<1>4. Produce(c, items) /\ Produced(c, items)
  BY WsAssumption, ProduceDoes DEF WireInv, WireType
<1>5. \A i \in 1..n : f[i] \in ms /\ items[i] = Direct(c, CreatedEvent(f[i]))
  <2>1. \A i \in 1..n : items[i] = Direct(c, es[i])
    OBVIOUS
  <2> QED BY <1>3, <2>1
<1>6. \A m \in ms : \E i \in 1..n : f[i] = m
  BY <1>2
<1>7. DOMAIN items = 1..n
  OBVIOUS
<1> HIDE DEF n
<1>8. \A i \in DOMAIN items : \E m \in ms : items[i] = Direct(c, CreatedEvent(m))
  BY <1>5, <1>7
<1>9. \A m \in ms : \E i \in DOMAIN items : items[i] = Direct(c, CreatedEvent(m))
  <2> TAKE m \in ms
  <2> PICK i \in 1..n : f[i] = m
    BY <1>6
  <2> QED BY <1>5, <1>7
<1> QED BY <1>4, <1>8, <1>9

LEMMA NotLoadedSends ==
  ASSUME ReplyInv, WireInv, NEW m \in Replies, NotLoaded(m)
  PROVE  \E items \in Seq(Item(Events)) :
           Produced(m, items) /\ Produce(m, items) /\ \A i \in DOMAIN items : items[i] = Direct(origin, [t |-> "error", m |-> m])
<1> PICK e \in Events : e = [t |-> "error", m |-> m]
  BY EventMade
<1> PICK evs \in Seq(Events) : evs = <<e>>
  <2>1. <<e>> \in Seq(Events)
    OBVIOUS
  <2> QED BY <2>1
<1>0. origin \in Conns /\ m \in Producers
  BY HasOrigin DEF NotLoaded, Step
<1> PICK items \in Seq(Item(Events)) : /\ items = SendAll(origin, evs) /\ DOMAIN items = DOMAIN evs
                                       /\ \A i \in DOMAIN evs : items[i] = Direct(origin, evs[i])
  BY <1>0, SendAllMade
<1>1. \A i \in DOMAIN evs : evs[i] = e
  OBVIOUS
<1>2. Produce(m, items) /\ Produced(m, items)
  BY <1>0, ProduceDoes DEF NotLoaded, WireInv, WireType
<1> QED BY <1>1, <1>2

LEMMA TextChunkSends ==
  ASSUME ReplyInv, WireInv, NEW m \in Replies, TextChunk(m)
  PROVE  \E items \in Seq(Item(Events)) :
           /\ Produced(m, items) /\ Produce(m, items)
           /\ \A i \in DOMAIN items : /\ items[i].e = [t |-> "chunk", m |-> m, n |-> parts[m] + 1]
                                      /\ items[i].to = origin => ~items[i].room
           /\ \A i \in DOMAIN items : Told(origin, items[i])
<1>0. origin \in Conns /\ m \in Producers
  BY HasOrigin DEF TextChunk, Step
<1>1. parts[m] + 1 \in Nat
  BY DEF WireInv, WireType
<1> PICK e \in Events : e = [t |-> "chunk", m |-> m, n |-> parts[m] + 1]
  BY <1>1, EventMade
<1> PICK items \in Seq(Item(Events)) : /\ items = Emit(origin, e)
                                       /\ \A i \in DOMAIN items : items[i].e = e /\ (items[i].to = origin => ~items[i].room)
                                       /\ \A i \in DOMAIN items : Told(origin, items[i])
  BY <1>0, EmitMade
<1>2. Produce(m, items) /\ Produced(m, items)
  BY <1>0, ProduceDoes DEF TextChunk, WireInv, WireType
<1> QED BY <1>2

LEMMA OneOf ==
  ASSUME NEW E, NEW x \in E
  PROVE  <<x>> \in Seq(E) /\ 1 \in DOMAIN <<x>> /\ <<x>>[1] = x /\ \A i \in DOMAIN <<x>> : <<x>>[i] = x
OBVIOUS

LEMMA TwoOf ==
  ASSUME NEW E, NEW x \in E, NEW y \in E
  PROVE  /\ <<x, y>> \in Seq(E) /\ 1 \in DOMAIN <<x, y>> /\ <<x, y>>[1] = x
         /\ \A i \in DOMAIN <<x, y>> : <<x, y>>[i] \in {x, y}
OBVIOUS

LEMMA VerdictMade ==
  ASSUME ReplyInv, VerdictInv, WireInv, NEW m \in Replies, pc[m] = "report"
  PROVE  /\ Verdict(m) \in Seq(Events) /\ 1 \in DOMAIN Verdict(m) /\ Verdict(m)[1] \in Events
         /\ \A i \in DOMAIN Verdict(m) : Verdict(m)[i] \in {Verdict(m)[1], [t |-> "error", m |-> m]}
<1>1. row[m] \in Contents /\ ending[m] \in {"done", "failed", "crashed", "cancelled"}
  BY DEF WireInv, WireType, VerdictInv, VerdictOk, ReplyInv, ReplyType, Ends
<1> PICK err \in Events : err = [t |-> "error", m |-> m]
  BY EventMade
<1> PICK done \in Events : done = [t |-> "done", m |-> m, content |-> row[m]]
  BY <1>1, EventMade
<1> PICK canc \in Events : canc = [t |-> "cancelled", m |-> m, content |-> row[m]]
  BY <1>1, EventMade
<1>2. Verdict(m) \in {<<err>>, <<done, err>>, <<done>>, <<canc>>}
  BY <1>1 DEF Verdict
<1> PICK v : v = Verdict(m)
  OBVIOUS
<1>3. /\ v \in Seq(Events) /\ 1 \in DOMAIN v /\ v[1] \in Events
      /\ \A i \in DOMAIN v : v[i] \in {v[1], err}
  <2>1. CASE v = <<done, err>>
    <3>1. /\ <<done, err>> \in Seq(Events) /\ 1 \in DOMAIN <<done, err>> /\ <<done, err>>[1] = done
          /\ \A i \in DOMAIN <<done, err>> : <<done, err>>[i] \in {done, err}
      BY TwoOf
    <3> QED BY <2>1, <3>1
  <2>2. ASSUME NEW x \in Events, v = <<x>>
        PROVE  /\ v \in Seq(Events) /\ 1 \in DOMAIN v /\ v[1] \in Events
               /\ \A i \in DOMAIN v : v[i] \in {v[1], err}
    <3>1. <<x>> \in Seq(Events) /\ 1 \in DOMAIN <<x>> /\ <<x>>[1] = x /\ \A i \in DOMAIN <<x>> : <<x>>[i] = x
      BY OneOf
    <3> QED BY <2>2, <3>1
  <2> QED BY <1>2, <2>1, <2>2
<1> QED BY <1>3

LEMMA ReportSends ==
  ASSUME ReplyInv, VerdictInv, WireInv, NEW m \in Replies, Report(m)
  PROVE  \E items \in Seq(Item(Events)) :
           /\ Produced(m, items) /\ Produce(m, items)
           /\ \A i \in DOMAIN items : /\ items[i].e \in {Verdict(m)[1], [t |-> "error", m |-> m]}
                                      /\ items[i].to = origin => ~items[i].room
           /\ \A i \in DOMAIN items : Told(origin, items[i])
           /\ \E i \in DOMAIN items : items[i] = Direct(origin, Verdict(m)[1])
<1>0. origin \in Conns /\ m \in Producers /\ pc[m] = "report"
  BY HasOrigin DEF Report, Step
<1> PICK evs \in Seq(Events) : evs = Verdict(m) /\ 1 \in DOMAIN evs /\ evs[1] \in Events
                               /\ \A i \in DOMAIN evs : evs[i] \in {evs[1], [t |-> "error", m |-> m]}
  BY <1>0, VerdictMade
<1> PICK e \in Events : e = evs[1]
  OBVIOUS
<1>1. CASE Alone(m)
  <2> PICK items \in Seq(Item(Events)) : /\ items = SendAll(origin, evs) /\ DOMAIN items = DOMAIN evs
                                         /\ \A i \in DOMAIN evs : items[i] = Direct(origin, evs[i])
    BY <1>0, SendAllMade
  <2>1. Produce(m, items) /\ Produced(m, items)
    BY <1>0, <1>1, ProduceDoes DEF Report, WireInv, WireType
  <2>2. \A i \in DOMAIN items : Told(origin, items[i])
    BY DEF Direct, Told
  <2> QED BY <2>1, <2>2 DEF Direct
<1>2. CASE ~Alone(m)
  <2> PICK items \in Seq(Item(Events)) :
        /\ items = Emit(origin, e) /\ 1 \in DOMAIN items /\ items[1] = Direct(origin, e)
        /\ \A i \in DOMAIN items : items[i].e = e /\ (items[i].to = origin => ~items[i].room)
        /\ \A i \in DOMAIN items : Told(origin, items[i])
    BY <1>0, EmitMade
  <2>1. Produce(m, items) /\ Produced(m, items)
    BY <1>0, <1>2, ProduceDoes DEF Report, WireInv, WireType
  <2> QED BY <2>1
<1> QED BY <1>1, <1>2

FanEvent == [t |-> "fanout"]

LEMMA LeaveTaskSends ==
  ASSUME ReplyInv, WireInv, NEW m \in Replies, LeaveTask(m)
  PROVE  \E items \in Seq(Item(Events)) :
           /\ Produced(m, items) /\ Produce(m, items)
           /\ LastOfAll(m) => items = <<Direct(origin, FanEvent)>>
           /\ ~LastOfAll(m) => items = <<>>
<1>0. origin \in Conns /\ m \in Producers
  BY HasOrigin DEF LeaveTask, Step
<1>1. CASE LastOfAll(m)
  <2> PICK it \in Item(Events) : it = Direct(origin, FanEvent)
    BY <1>0, EventMade, DirectMade DEF FanEvent
  <2>1. <<it>> \in Seq(Item(Events))
    OBVIOUS
  <2>2. SendAll(origin, <<[t |-> "fanout"]>>) = <<it>>
    <3>1. DOMAIN <<[t |-> "fanout"]>> = 1..1 /\ <<[t |-> "fanout"]>>[1] = FanEvent
      BY DEF FanEvent
    <3>2. \A i \in 1..1 : i = 1
      OBVIOUS
    <3>3. SendAll(origin, <<[t |-> "fanout"]>>) = [i \in 1..1 |-> it]
      BY <3>1, <3>2 DEF SendAll
    <3>4. <<it>> = [i \in 1..1 |-> it]
      OBVIOUS
    <3> QED BY <3>3, <3>4
  <2>3. Produce(m, <<it>>) /\ Produced(m, <<it>>)
    BY <1>0, <1>1, <2>1, <2>2, ProduceDoes DEF LeaveTask, WireInv, WireType
  <2> QED BY <1>1, <2>1, <2>3
<1>2. CASE ~LastOfAll(m)
  <2>1. <<>> \in Seq(Item(Events))
    BY EmptySeq
  <2>2. Produce(m, <<>>) /\ Produced(m, <<>>)
    BY <1>0, <1>2, <2>1, ProduceDoes DEF LeaveTask, WireInv, WireType
  <2> QED BY <1>2, <2>1, <2>2
<1> QED BY <1>1, <1>2

LEMMA PutWaitingSends ==
  ASSUME WireInv, NEW p \in Producers, PutWaiting(p) PROVE owed[p] \in Seq(Item(Events)) /\ Produced(p, owed[p])
<1>1. owed[p] \in Seq(Item(Events))
  BY OwedIsItem
<1> QED BY <1>1, ProduceDoes DEF PutWaiting, Resume, WireInv, WireType

-----------------------------------------------------------------------------
(* What a step leaves of everything but the queues                         *)

Around ==
  /\ row' \in [Replies -> Contents] /\ parts' \in [Replies -> Nat]
  /\ closed' \in [Conns -> BOOLEAN] /\ link' \in [Conns -> {"none", "up", "down"}] /\ DOMAIN read' = Conns
  /\ origin' \in Conns \cup {NoConn} /\ asked' \subseteq Replies
  /\ \A c \in Conns : reader'[c] = "answering" => read'[c] \in Histories
  /\ LinkInv'
  /\ \A c \in Conns : closed[c] => closed'[c]
  /\ \A c \in Conns : ~Free(c) /\ reader[c] = "creating" => reader'[c] = "creating"
  /\ \A m \in Replies : pc[m] # "none" => origin' = origin
  /\ \A c \in Conns : ~Free(c) /\ origin' = c => origin = c

LEMMA NothingAround ==
  ASSUME WireInv, UNCHANGED <<row, parts, closed, link, read, origin, asked, reader>> PROVE Around
BY DEF WireInv, WireType, LinkInv, Around

LEMMA ReplyAround == ASSUME ReplyInv, WireInv, NEW m \in Replies, Reply(m) PROVE Around
<1>1. UNCHANGED <<closed, link, read, origin, asked, reader>>
  <2>1. Quiet
    BY DEF Reply, Begin, NotLoaded, Prepared, TextChunk, StreamEnds, Coordinate, Reread, Persist, Report, Trace,
           LeaveTask, Silent
  <2> QED BY <2>1 DEF Quiet, turn
<1>2. row' \in [Replies -> Contents]
  <2>1. row \in [Replies -> Contents] /\ parts \in [Replies -> Nat]
    BY DEF WireInv, WireType
  <2>2. CASE row' = row
    BY <2>1, <2>2
  <2>3. CASE Persist(m)
    <3>1. FinalContents(m) \subseteq Contents
      <4>1. 1..parts[m] \in SUBSET Nat /\ {} \in SUBSET Nat
        BY <2>1
      <4>2. \A P \in SUBSET Nat, n \in {"none", "error", "cancelled", "summary"} : Text(P, n) \in Contents
        BY DEF Text, Contents
      <4>3. Artifact \in Contents
        BY DEF Artifact, Contents
      <4> QED BY <4>1, <4>2, <4>3 DEF FinalContents, Written
    <3>2. PICK x \in FinalContents(m) : row' = [row EXCEPT ![m] = x]
      BY <2>3 DEF Persist
    <3> QED BY <2>1, <3>1, <3>2
  <2>4. CASE Coordinate(m)
    <3>1. Text({}, "summary") \in Contents
      BY DEF Text, Contents
    <3> QED BY <2>1, <2>4, <3>1 DEF Coordinate
  <2> QED BY <2>2, <2>3, <2>4 DEF Reply, Begin, NotLoaded, Prepared, TextChunk, StreamEnds, Reread, Report, Trace, LeaveTask
<1>3. parts' \in [Replies -> Nat]
  <2>1. parts' = parts \/ parts' = [parts EXCEPT ![m] = @ + 1]
    BY DEF Reply, Begin, NotLoaded, Prepared, TextChunk, StreamEnds, Coordinate, Reread, Persist, Report, Trace, LeaveTask
  <2> QED BY <2>1 DEF WireInv, WireType
<1> QED BY <1>1, <1>2, <1>3 DEF WireInv, WireType, LinkInv, Around

LEMMA ConnAround ==
  ASSUME ReplyInv, WireInv, NEW c \in Conns,
         Connect(c) \/ Disconnect(c) \/ SendMessage(c) \/ (\E m \in Replies : AskCancel(c, m))
         \/ Join(c) \/ ReadHistory(c) \/ Answer(c) \/ Return(c) \/ StartReplies(c) \/ FireCancel(c) \/ Close(c) \/ Leave(c)
  PROVE  Around
<1> USE DEF browserVars, turn, taskVars, wsVars
<1>1. /\ DOMAIN reader = Conns /\ row \in [Replies -> Contents] /\ parts \in [Replies -> Nat]
      /\ closed \in [Conns -> BOOLEAN] /\ link \in [Conns -> {"none", "up", "down"}] /\ DOMAIN read = Conns
      /\ origin \in Conns \cup {NoConn} /\ asked \subseteq Replies
      /\ \A d \in Conns : reader[d] = "answering" => read[d] \in Histories
      /\ LinkInv /\ NoConn \notin Conns
  BY WsAssumption DEF ReplyInv, ReplyType, WireInv, WireType, NoConn
<1>2. CASE Connect(c)
  <2>1. /\ link[c] = "none" /\ link' = [link EXCEPT ![c] = "up"] /\ reader' = [reader EXCEPT ![c] = "joining"]
        /\ UNCHANGED <<row, parts, closed, read, origin, asked>> /\ \A d \in Conns : link[d] # "up"
    BY <1>2 DEF Connect, Accept
  <2> QED BY <1>1, <2>1 DEF LinkInv, Around
<1>3. CASE Disconnect(c)
  <2>1. /\ link[c] = "up" /\ link' = [link EXCEPT ![c] = "down"]
        /\ UNCHANGED <<reader, row, parts, closed, read, origin, asked>>
    BY <1>3 DEF Disconnect, Lose
  <2> QED BY <1>1, <2>1 DEF LinkInv, Around
<1>4. CASE SendMessage(c)
  <2>1. /\ origin = NoConn /\ origin' = c /\ reader[c] = "idle" /\ reader' = [reader EXCEPT ![c] = "creating"]
        /\ UNCHANGED <<link, row, parts, closed, read>> /\ asked' \subseteq Replies /\ link[c] = "up" /\ Free(c)
    BY <1>4 DEF SendMessage, Idle
  <2>2. \A m \in Replies : pc[m] = "none"
    BY <2>1 DEF ReplyInv, StartedOnce
  <2>3. \A d \in Conns : reader[d] # "creating"
    BY <1>1, <2>1 DEF LinkInv
  <2>4. LinkInv'
    BY <1>1, <2>1, <2>3 DEF LinkInv
  <2> QED BY <1>1, <2>1, <2>2, <2>3, <2>4 DEF Around
<1>5. CASE \E m \in Replies : AskCancel(c, m)
  <2>1. /\ reader[c] = "idle" /\ reader' = [reader EXCEPT ![c] = "cancelling"]
        /\ UNCHANGED <<link, row, parts, closed, read, origin, asked>>
    BY <1>5 DEF AskCancel, Idle
  <2> QED BY <1>1, <2>1 DEF LinkInv, Around
<1>6. CASE Join(c)
  <2>1. /\ reader[c] = "joining" /\ reader' = [reader EXCEPT ![c] = "reading"]
        /\ UNCHANGED <<link, row, parts, closed, read, origin, asked>>
    BY <1>6 DEF Join
  <2> QED BY <1>1, <2>1 DEF LinkInv, Around
<1>7. CASE ReadHistory(c)
  <2> PICK e : e = [t |-> "history", rows |-> [m \in asked |-> row[m]]]
    OBVIOUS
  <2>1. /\ reader[c] = "reading" /\ reader' = [reader EXCEPT ![c] = "answering"]
        /\ read' = [read EXCEPT ![c] = e]
        /\ UNCHANGED <<link, row, parts, closed, origin, asked>>
    BY <1>7 DEF ReadHistory
  <2>2. e \in Histories
    <3>1. asked \in SUBSET Replies /\ [m \in asked |-> row[m]] \in [asked -> Contents]
      BY <1>1
    <3> QED BY <3>1, EventMade
  <2>3. LinkInv'
    BY <1>1, <2>1 DEF LinkInv
  <2>4. \A d \in Conns : reader'[d] = "answering" => read'[d] \in Histories
    BY <1>1, <2>1, <2>2
  <2> QED BY <1>1, <2>1, <2>3, <2>4 DEF Around
<1>8. CASE Answer(c)
  <2>1. /\ reader[c] = "answering" /\ reader' = [reader EXCEPT ![c] = "idle"] /\ read' = [read EXCEPT ![c] = Unread]
        /\ UNCHANGED <<link, row, parts, closed, origin, asked>>
    BY <1>8 DEF Answer
  <2> QED BY <1>1, <2>1 DEF LinkInv, Around
<1>9. CASE Return(c)
  <2>1. /\ reader[c] = "dispatching" /\ reader' = [reader EXCEPT ![c] = "idle"]
        /\ UNCHANGED <<link, row, parts, closed, read, origin, asked>>
    BY <1>9 DEF Return
  <2> QED BY <1>1, <2>1 DEF LinkInv, Around
<1>10. CASE StartReplies(c)
  <2>1. /\ reader[c] = "creating" /\ Free(c) /\ reader' = [reader EXCEPT ![c] = "dispatching"]
        /\ UNCHANGED <<link, row, parts, closed, read, origin, asked>>
    BY <1>10 DEF StartReplies
  <2> QED BY <1>1, <2>1 DEF LinkInv, Around
<1>11. CASE FireCancel(c)
  <2>1. /\ reader[c] = "cancelling" /\ reader' = [reader EXCEPT ![c] = "idle"]
        /\ UNCHANGED <<link, row, parts, closed, read, origin, asked>>
    BY <1>11 DEF FireCancel
  <2> QED BY <1>1, <2>1 DEF LinkInv, Around
<1>12. CASE Close(c)
  <2>1. /\ reader[c] = "idle" /\ reader' = [reader EXCEPT ![c] = "closing"]
        /\ link[c] = "down" /\ closed' = [closed EXCEPT ![c] = TRUE]
        /\ UNCHANGED <<link, row, parts, read, origin, asked>>
    BY <1>12 DEF Close, Idle, BeginClose
  <2> QED BY <1>1, <2>1 DEF LinkInv, Around
<1>13. CASE Leave(c)
  <2>1. /\ reader[c] = "closing" /\ reader' = [reader EXCEPT ![c] = "gone"]
        /\ UNCHANGED <<link, row, parts, closed, read, origin, asked>>
    BY <1>13 DEF Leave, EndClose
  <2> QED BY <1>1, <2>1 DEF LinkInv, Around
<1> QED BY <1>2, <1>3, <1>4, <1>5, <1>6, <1>7, <1>8, <1>9, <1>10, <1>11, <1>12, <1>13

LEMMA StepAround == ASSUME ReplyInv, WireInv, [Next]_vars PROVE Around
<1>1. ASSUME NEW c \in Conns, Deliver(c) PROVE Around
  BY <1>1, NothingAround DEF Deliver, taskVars, turn
<1>2. ASSUME NEW p \in Producers, PutWaiting(p) PROVE Around
  BY <1>2, NothingAround DEF PutWaiting, taskVars, turn
<1>3. CASE UNCHANGED vars
  BY <1>3, NothingAround DEF vars, taskVars, turn, wsVars
<1>4. CASE System
  BY <1>1, <1>2, <1>4, ReplyAround, ConnAround DEF System, Handler
<1>5. CASE Environment
  BY <1>5, ConnAround DEF Environment
<1> QED BY <1>3, <1>4, <1>5 DEF Next

LEMMA StaysBegun == ASSUME ReplyInv, [Next]_vars, NEW m \in Replies, pc[m] # "none" PROVE pc'[m] # "none"
<1> USE DEF wsVars, browserVars, turn, taskVars
<1>1. pc \in [Replies -> Places]
  BY DEF ReplyInv, ReplyType
<1>2. CASE UNCHANGED pc
  BY <1>2
<1>3. ASSUME NEW c \in Conns, Handler(c) PROVE pc'[m] # "none"
  <2>1. CASE StartReplies(c)
    BY <2>1 DEF StartReplies, ReplyInv, StartedOnce
  <2>2. CASE FireCancel(c)
    <3>1. PICK n \in Replies : n = target[c]
      BY <2>2 DEF FireCancel, ReplyInv, ReplyType
    <3>2. CancelReply(n) \/ pc' = pc
      BY <2>2, <3>1 DEF FireCancel
    <3> QED BY <3>2, MetOnce
  <2> QED BY <1>2, <1>3, <2>1, <2>2 DEF Handler, Join, ReadHistory, Answer, Return, Close, Leave
<1>4. ASSUME NEW n \in Replies, Reply(n) PROVE pc'[m] # "none"
  BY <1>1, <1>4 DEF Reply, Begin, NotLoaded, Prepared, TextChunk, StreamEnds, Coordinate, Reread, Persist, Report,
                    Trace, LeaveTask, Step
<1>5. CASE System
  <2>1. ASSUME NEW c \in Conns, Deliver(c) PROVE UNCHANGED pc
    BY <2>1 DEF Deliver
  <2>2. ASSUME NEW p \in Producers, PutWaiting(p) PROVE UNCHANGED pc
    BY <2>2 DEF PutWaiting
  <2> QED BY <1>2, <1>3, <1>4, <1>5, <2>1, <2>2 DEF System
<1>6. CASE Environment
  BY <1>2, <1>6 DEF Environment, Connect, Disconnect, SendMessage, AskCancel
<1>7. CASE UNCHANGED vars
  BY <1>2, <1>7 DEF vars
<1> QED BY <1>5, <1>6, <1>7 DEF Next

-----------------------------------------------------------------------------
(* Every step leaves the queues, sends, takes an event out, or drops what  *)
(* a cancelled task owes.                                                  *)

Sends(p) ==
  /\ slice' = slice /\ (p \in Replies => pc[p] # "none")
  /\ \E items \in Seq(Item(Events)) :
       /\ Produced(p, items) /\ \A i \in DOMAIN items : MayOwe(p, items[i])'
       /\ ~Free(p) /\ p \in Replies \cup {origin} => items = owed[p]
       /\ Free(p) /\ p \in Replies /\ pc[p] \in {"trace", "leave", "over"} => \A i \in DOMAIN items : items[i].e.t = "fanout"

Taken(c) ==
  /\ outbound[c] # <<>> /\ outbound' = [outbound EXCEPT ![c] = Tail(@)] /\ owed' = owed
  /\ slice' = IF link[c] = "up" THEN Reduce(slice, Head(outbound[c])) ELSE slice

Drops(m) == CancelReply(m) /\ owed' = [owed EXCEPT ![m] = <<>>] /\ UNCHANGED <<outbound, slice>>

LEMMA CloseSends ==
  ASSUME WireInv, NEW c \in Conns, Close(c)
  PROVE  \E items \in Seq(Item(Events)) :
           Produced(c, items) /\ \A i \in DOMAIN items : items[i].to = c /\ items[i].e = Stop /\ ~items[i].room
<1>1. QueueTypes /\ c \in Producers /\ Free(c)
  BY WsAssumption DEF WireInv, WireType, Close, Idle
<1> PICK it \in Item(Events) : it = Direct(c, Stop)
  BY EventMade, DirectMade
<1>0. it.to = c /\ it.e = Stop /\ ~it.room
  BY DEF Direct
<1>5. PICK w \in Item(Events) : w = [it EXCEPT !.waits = TRUE]
  BY DEF Item
<1> PICK old \in Seq(Events), e \in Events : old = outbound[c] /\ e = Stop
  BY <1>1, EventMade DEF QueueTypes
<1> PICK items \in Seq(Item(Events)) : /\ items = <<it>> /\ 1 \in DOMAIN items /\ items[1] = it
                                       /\ \A i \in DOMAIN items : items[i] = it
  BY OneOf
<1>2. w.to = c /\ w.e = Stop /\ Same(w, it)
  BY <1>0, <1>5 DEF Same, Item
<1>3. CASE outbound' = [outbound EXCEPT ![c] = Append(@, Stop)] /\ owed' = owed
  <2> PICK new \in Seq(Events) : new = Append(old, e)
    BY AppendProperties
  <2>1. /\ Len(new) = Len(old) + 1 /\ Len(old) \in Nat /\ Len(old) + 1 \in DOMAIN new
        /\ DOMAIN old = 1..Len(old) /\ DOMAIN new = (1..Len(old)) \cup {Len(old) + 1}
        /\ new[Len(old) + 1] = e /\ \A i \in DOMAIN old : new[i] = old[i]
    BY Appended
  <2>2. outbound' \in [Conns -> Seq(Events)] /\ outbound'[c] = new /\ \A d \in Conns \ {c} : outbound'[d] = outbound[d]
    BY <1>1, <1>3 DEF QueueTypes
  <2>3. ASSUME NEW d \in Conns
        PROVE  /\ Len(outbound[d]) <= Len(outbound'[d]) /\ \A i \in DOMAIN outbound[d] : outbound'[d][i] = outbound[d][i]
               /\ \A i \in DOMAIN outbound'[d] :
                    i > Len(outbound[d]) => \E j \in DOMAIN items : items[j].to = d /\ outbound'[d][i] = items[j].e
    <3>1. CASE d = c
      <4>1. \A i \in DOMAIN new : i > Len(old) => new[i] = items[1].e /\ items[1].to = c
        BY <1>0, <1>2, <2>1
      <4>2. Len(old) <= Len(new)
        BY <2>1
      <4>3. \A i \in DOMAIN new : i > Len(old) => \E j \in DOMAIN items : items[j].to = c /\ new[i] = items[j].e
        BY <4>1
      <4> QED BY SMTT(20), <2>1, <2>2, <3>1, <4>2, <4>3
    <3>2. CASE d # c
      <4>1. outbound'[d] = outbound[d] /\ DOMAIN outbound[d] = 1..Len(outbound[d]) /\ Len(outbound[d]) \in Nat
        BY <1>1, <2>2, <3>2, LenProperties DEF QueueTypes
      <4> QED BY <4>1
    <3> QED BY <3>1, <3>2
  <2>4. owed' \in [Producers -> Seq(Item(Events))] /\ owed'[c] = <<>> /\ DOMAIN <<>> = {}
    BY <1>1, <1>3 DEF QueueTypes, Free
  <2>5. \A j \in DOMAIN items : GotThrough(c, items[j])
    <3>1. \E i \in DOMAIN outbound'[c] : i > Len(outbound[c]) /\ outbound'[c][i] = Stop
      BY <2>1, <2>2
    <3>2. GotThrough(c, it)
      BY <1>0, <3>1 DEF GotThrough
    <3> QED BY <3>2
  <2>6. Produced(c, items)
    BY <1>3, <2>2, <2>3, <2>4, <2>5 DEF Produced
  <2> QED BY <1>0, <1>2, <2>6
<1>4. CASE outbound' = outbound /\ owed' = [owed EXCEPT ![c] = <<[Direct(c, Stop) EXCEPT !.waits = TRUE]>>]
  <2> PICK rest \in Seq(Item(Events)) : /\ rest = <<w>> /\ 1 \in DOMAIN rest /\ rest[1] = w
                                        /\ \A i \in DOMAIN rest : rest[i] = w
    BY OneOf
  <2>1. owed' \in [Producers -> Seq(Item(Events))] /\ owed'[c] = rest /\ \A q \in Producers \ {c} : owed'[q] = owed[q]
    BY <1>1, <1>4, <1>5 DEF QueueTypes
  <2>2. \A i \in DOMAIN owed'[c] : \E j \in DOMAIN items : Same(owed'[c][i], items[j])
    BY <1>0, <1>2, <2>1
  <2>3. \A j \in DOMAIN items : GotThrough(c, items[j])
    BY <1>0, <1>2, <2>1 DEF GotThrough
  <2>4. ASSUME NEW d \in Conns
        PROVE  /\ Len(outbound[d]) <= Len(outbound'[d]) /\ \A i \in DOMAIN outbound[d] : outbound'[d][i] = outbound[d][i]
               /\ \A i \in DOMAIN outbound'[d] :
                    i > Len(outbound[d]) => \E j \in DOMAIN items : items[j].to = d /\ outbound'[d][i] = items[j].e
    <3>1. outbound'[d] = outbound[d] /\ DOMAIN outbound[d] = 1..Len(outbound[d]) /\ Len(outbound[d]) \in Nat
      BY <1>1, <1>4, LenProperties DEF QueueTypes
    <3> QED BY <3>1
  <2>5. Produced(c, items)
    BY <1>1, <1>4, <2>1, <2>2, <2>3, <2>4 DEF Produced, QueueTypes
  <2>6. \A i \in DOMAIN items : items[i].to = c /\ items[i].e = Stop /\ ~items[i].room
    BY <1>0
  <2> QED BY <2>5, <2>6
<1> QED BY <1>3, <1>4 DEF Close, BeginClose

LEMMA StepSends ==
  ASSUME ReplyInv, VerdictInv, WireInv, [Next]_vars
  PROVE  \/ UNCHANGED <<outbound, owed, slice>>
         \/ \E p \in Producers : Sends(p)
         \/ \E c \in Conns : Taken(c)
         \/ \E m \in Replies : Drops(m)
<1> USE DEF wsVars, browserVars, turn, taskVars
<1>0. DOMAIN reader = Conns /\ closed \in [Conns -> BOOLEAN] /\ owed \in [Producers -> Seq(Item(Events))]
      /\ Conns \subseteq Producers /\ Conns \cap Replies = {}
  BY WsAssumption, ReplyAssumption DEF ReplyInv, ReplyType, WireInv, WireType, QueueTypes
<1>1. ASSUME NEW c \in Conns, Answer(c) PROVE Sends(c)
  <2> PICK items \in Seq(Item(Events)) : Produced(c, items) /\ \A i \in DOMAIN items : items[i] = Direct(c, read[c])
    BY <1>1, AnswerSends
  <2>1. read[c].t = "history" /\ c # origin /\ origin' = origin
    BY <1>1 DEF Answer, WireInv, WireType, Histories, LinkInv
  <2>2. \A i \in DOMAIN items : items[i].to = c /\ items[i].e = read[c] /\ ~items[i].room
    BY DEF Direct
  <2>3. \A i \in DOMAIN items : MayOwe(c, items[i])'
    BY <2>1, <2>2 DEF MayOwe
  <2>4. c \notin Replies \cup {origin} /\ slice' = slice
    BY <1>0, <1>1, <2>1 DEF Answer
  <2> QED BY <2>3, <2>4 DEF Sends
<1>2. ASSUME NEW c \in Conns, SendMessage(c) PROVE Sends(c)
  <2> PICK items \in Seq(Item(Events)) :
         Produced(c, items) /\ \A i \in DOMAIN items : \E m \in asked' : items[i] = Direct(c, CreatedEvent(m))
    BY <1>2, SendMessageSends
  <2>1. \A m : Direct(c, CreatedEvent(m)).to = c /\ Direct(c, CreatedEvent(m)).e.t = "created" /\ ~Direct(c, CreatedEvent(m)).room
    BY DEF Direct, CreatedEvent
  <2>2. \A i \in DOMAIN items : items[i].to = c /\ items[i].e.t = "created" /\ ~items[i].room
    BY <2>1
  <2>3. reader'[c] = "creating" /\ slice' = slice /\ Free(c)
    BY <1>0, <1>2 DEF SendMessage, Idle
  <2>4. \A i \in DOMAIN items : MayOwe(c, items[i])'
    BY <2>2, <2>3 DEF MayOwe
  <2> QED BY <1>0, <2>3, <2>4 DEF Sends
<1>3. ASSUME NEW c \in Conns, Close(c) PROVE Sends(c)
  <2> PICK items \in Seq(Item(Events)) : Produced(c, items) /\ \A i \in DOMAIN items : items[i].to = c /\ items[i].e = Stop /\ ~items[i].room
    BY <1>3, CloseSends
  <2>1. closed'[c] /\ slice' = slice /\ Free(c)
    BY <1>0, <1>3 DEF Close, Idle, BeginClose
  <2>2. \A i \in DOMAIN items : MayOwe(c, items[i])'
    BY <2>1 DEF MayOwe, Stop
  <2> QED BY <1>0, <2>1, <2>2 DEF Sends
<1>4. ASSUME NEW p \in Producers, PutWaiting(p) PROVE Sends(p)
  <2> PICK items \in Seq(Item(Events)) : items = owed[p] /\ Produced(p, items)
    BY <1>4, PutWaitingSends
  <2>1. UNCHANGED <<slice, reader, closed, origin, pc>> /\ ~Free(p)
    BY <1>4 DEF PutWaiting, Resume, Free
  <2>2. \A i \in DOMAIN items : MayOwe(p, items[i])
    BY DEF WireInv, OwedInv
  <2>3. \A i \in DOMAIN items : MayOwe(p, items[i])'
    BY <2>1, <2>2 DEF MayOwe
  <2>4. p \in Replies => pc[p] # "none"
    BY <2>1 DEF WireInv, OwedInv
  <2> QED BY <2>1, <2>3, <2>4 DEF Sends
<1>5. ASSUME NEW m \in Replies, NEW items \in Seq(Item(Events)), Produced(m, items), Quiet, pc[m] # "none",
             Free(m), pc[m] \in {"trace", "leave", "over"} => \A i \in DOMAIN items : items[i].e.t = "fanout",
             \A i \in DOMAIN items : /\ items[i].e.t \in FromReply /\ (items[i].to = origin => ~items[i].room)
                                     /\ items[i].e.t # "fanout" => items[i].e.m = m
      PROVE  Sends(m)
  <2>1. slice' = slice /\ origin' = origin /\ m \notin Conns
    BY <1>0, <1>5 DEF Quiet
  <2>2. ASSUME NEW i \in DOMAIN items PROVE MayOwe(m, items[i])'
    <3>1. PICK x : x = items[i]
      OBVIOUS
    <3>2. x.e.t \in FromReply /\ (x.to = origin => ~x.room) /\ (x.e.t # "fanout" => x.e.m = m)
      BY <1>5, <3>1
    <3>3. MayOwe(m, x)'
      BY <2>1, <3>2 DEF MayOwe
    <3> QED BY <3>1, <3>3
  <2> QED BY <1>5, <2>1, <2>2 DEF Sends
<1>6. ASSUME NEW m \in Replies, NotLoaded(m) PROVE Sends(m)
  <2> PICK items \in Seq(Item(Events)) :
        Produced(m, items) /\ \A i \in DOMAIN items : items[i] = Direct(origin, [t |-> "error", m |-> m])
    BY <1>6, NotLoadedSends
  <2>1. \A i \in DOMAIN items : items[i].e.t \in FromReply /\ ~items[i].room /\ items[i].e.m = m
    BY DEF Direct, FromReply
  <2> QED BY <1>5, <1>6, <2>1 DEF NotLoaded, Step
<1>7. ASSUME NEW m \in Replies, TextChunk(m) PROVE Sends(m)
  <2> PICK items \in Seq(Item(Events)) :
        /\ Produced(m, items)
        /\ \A i \in DOMAIN items : /\ items[i].e = [t |-> "chunk", m |-> m, n |-> parts[m] + 1]
                                   /\ items[i].to = origin => ~items[i].room
    BY <1>7, TextChunkSends
  <2>1. \A i \in DOMAIN items : items[i].e.t \in FromReply /\ (items[i].to = origin => ~items[i].room) /\ items[i].e.m = m
    BY DEF FromReply
  <2> QED BY <1>5, <1>7, <2>1 DEF TextChunk, Step
<1>8. ASSUME NEW m \in Replies, Report(m) PROVE Sends(m)
  <2> PICK items \in Seq(Item(Events)) :
        /\ Produced(m, items)
        /\ \A i \in DOMAIN items : /\ items[i].e \in {Verdict(m)[1], [t |-> "error", m |-> m]}
                                   /\ items[i].to = origin => ~items[i].room
    BY <1>8, ReportSends
  <2>1. Verdict(m)[1].t \in FromReply /\ Verdict(m)[1].m = m
    <3>0. Verdict(m)[1].m = m
      BY DEF Verdict
    <3>1. Word(m) \in FromReply
      BY <1>8 DEF Report, Step, VerdictInv, VerdictOk, ReplyInv, ReplyType, Ends, Word, FromReply
    <3> QED BY <3>0, <3>1, FirstWord
  <2>2. \A i \in DOMAIN items : items[i].e.t \in FromReply /\ (items[i].to = origin => ~items[i].room) /\ items[i].e.m = m
    BY <2>1 DEF FromReply
  <2> QED BY <1>5, <1>8, <2>2 DEF Report, Step
<1>9. ASSUME NEW m \in Replies, LeaveTask(m) PROVE Sends(m)
  <2> PICK items \in Seq(Item(Events)) :
        Produced(m, items) /\ (LastOfAll(m) => items = <<Direct(origin, FanEvent)>>) /\ (~LastOfAll(m) => items = <<>>)
    BY <1>9, LeaveTaskSends
  <2> PICK it : it = Direct(origin, FanEvent)
    OBVIOUS
  <2>1. it.e.t = "fanout" /\ it.e.t \in FromReply /\ ~it.room
    BY DEF Direct, FanEvent, FromReply
  <2>2. \A i \in DOMAIN items : items[i] = it
    BY OneOf
  <2> QED BY <1>5, <1>9, <2>1, <2>2 DEF LeaveTask, Step
<1>10. ASSUME NEW c \in Conns, Deliver(c) PROVE Taken(c)
  BY <1>10 DEF Deliver, Take, Taken
<1>11. ASSUME NEW c \in Conns, FireCancel(c) PROVE UNCHANGED <<outbound, owed, slice>> \/ \E m \in Replies : Drops(m)
  <2>1. target[c] \in Replies
    BY <1>11 DEF FireCancel, ReplyInv, ReplyType
  <2> QED BY <1>11, <2>1 DEF FireCancel, CancelReply, Drops
<1>12. ASSUME NEW c \in Conns, Connect(c) \/ Disconnect(c) \/ Join(c) \/ ReadHistory(c) \/ Return(c) \/ StartReplies(c) \/ Leave(c)
                               \/ \E m \in Replies : AskCancel(c, m)
       PROVE  UNCHANGED <<outbound, owed, slice>>
  BY <1>12 DEF Connect, Disconnect, Join, ReadHistory, Return, StartReplies, Leave, AskCancel
<1>13. ASSUME NEW m \in Replies, Begin(m) \/ Prepared(m) \/ StreamEnds(m) \/ Coordinate(m) \/ Reread(m) \/ Persist(m) \/ Trace(m)
       PROVE  UNCHANGED <<outbound, owed, slice>>
  BY <1>13 DEF Begin, Prepared, StreamEnds, Coordinate, Reread, Persist, Trace, Silent, Quiet
<1>14. CASE System
  <2>1. CASE \E c \in Conns : Deliver(c) \/ Handler(c)
    BY <1>0, <1>1, <1>3, <1>10, <1>11, <1>12, <2>1 DEF Handler
  <2>2. CASE \E m \in Replies : Reply(m)
    BY <1>6, <1>7, <1>8, <1>9, <1>13, <2>2, ReplyAssumption DEF Reply
  <2>3. CASE \E p \in Producers : PutWaiting(p)
    BY <1>4, <2>3
  <2> QED BY <1>14, <2>1, <2>2, <2>3 DEF System
<1>15. CASE Environment
  BY <1>0, <1>2, <1>12, <1>15 DEF Environment
<1>16. CASE UNCHANGED vars
  BY <1>16 DEF vars
<1> QED BY <1>14, <1>15, <1>16 DEF Next

LEMMA TailOf ==
  ASSUME NEW E, NEW s \in Seq(E), s # <<>>
  PROVE  /\ Tail(s) \in Seq(E) /\ Head(s) = s[1] /\ s[1] \in E /\ 1 \in DOMAIN s
         /\ Len(Tail(s)) = Len(s) - 1 /\ Len(s) \in Nat
         /\ DOMAIN s = 1..Len(s) /\ DOMAIN Tail(s) = 1..(Len(s) - 1)
         /\ \A i \in DOMAIN Tail(s) : i + 1 \in DOMAIN s /\ Tail(s)[i] = s[i + 1]
<1>1. Len(s) \in Nat /\ Len(s) > 0 /\ DOMAIN s = 1..Len(s)
  BY EmptySeq, LenProperties
<1>2. Tail(s) \in Seq(E) /\ Head(s) \in E /\ Len(Tail(s)) = Len(s) - 1 /\ \A i \in 1..Len(Tail(s)) : Tail(s)[i] = s[i + 1]
  BY HeadTailProperties
<1> PICK t \in Seq(E) : t = Tail(s)
  BY <1>2
<1>3. DOMAIN t = 1..Len(t)
  BY LenProperties
<1>4. Head(s) = s[1]
  BY <1>1
<1> QED BY <1>1, <1>2, <1>3, <1>4

LEMMA MayOweStays ==
  ASSUME ReplyInv, WireInv, [Next]_vars, NEW p \in Producers, ~Free(p), NEW it, MayOwe(p, it) PROVE MayOwe(p, it)'
<1>1. Around /\ (p \in Conns \/ p \in Replies) /\ Conns \cap Replies = {}
  BY StepAround, ReplyAssumption
<1>2. CASE p \in Conns
  BY <1>1, <1>2 DEF MayOwe, Around
<1>3. CASE p \in Replies
  <2>1. pc[p] # "none"
    BY <1>3 DEF WireInv, OwedInv
  <2>2. origin' = origin
    BY <1>1, <1>3, <2>1 DEF Around
  <2> QED BY <1>1, <1>3, <2>2 DEF MayOwe
<1> QED BY <1>1, <1>2, <1>3

LEMMA WireStarts == Init => WireInv
<1> SUFFICES ASSUME Init PROVE WireInv
  OBVIOUS
<1>1. QueueTypes
  BY EmptySeq DEF Init, QueueTypes
<1>2. EmptySlice \in Slices /\ Blank \in Contents
  BY DEF EmptySlice, Slices, Blank, Text, Contents
<1>3. WireType
  BY <1>1, <1>2 DEF Init, WireType
<1>4. LinkInv
  BY WsAssumption DEF Init, LinkInv, NoConn
<1>5. OwedInv
  BY ReplyAssumption DEF Init, OwedInv, Free
<1>6. StopInv
  BY DEF Init, StopInv
<1> QED BY <1>3, <1>4, <1>5, <1>6 DEF WireInv

LEMMA WireInvKeeps == ReplyInv /\ VerdictInv /\ WireInv /\ [Next]_vars => WireInv'
<1> SUFFICES ASSUME ReplyInv, VerdictInv, WireInv, [Next]_vars PROVE WireInv'
  OBVIOUS
<1>1. Around
  BY StepAround
<1>2. /\ outbound \in [Conns -> Seq(Events)] /\ owed \in [Producers -> Seq(Item(Events))] /\ slice \in Slices
      /\ \A p \in Producers : \A i \in DOMAIN owed[p] : MayOwe(p, owed[p][i])
      /\ \A m \in Replies : pc[m] = "none" => owed[m] = <<>>
      /\ \A c \in Conns : \A i \in DOMAIN outbound[c] : outbound[c][i].t = "stop" => closed[c]
  BY DEF WireInv, WireType, QueueTypes, OwedInv, StopInv, Free
<1>3. \A c \in Conns : closed[c] => closed'[c]
  BY <1>1 DEF Around
<1>4. ASSUME NEW q \in Producers, owed'[q] = owed[q], NEW i \in DOMAIN owed'[q], NEW it, it = owed'[q][i] PROVE MayOwe(q, it)'
  <2>1. MayOwe(q, it) /\ ~Free(q)
    BY <1>2, <1>4 DEF Free
  <2> QED BY <2>1, MayOweStays
<1>5. ASSUME NEW m \in Replies, pc'[m] = "none" PROVE pc[m] = "none" /\ owed[m] = <<>>
  BY <1>2, <1>5, StaysBegun
<1> SUFFICES /\ QueueTypes' /\ slice' \in Slices
             /\ \A q \in Producers : \A i \in DOMAIN owed'[q] : \A it : it = owed'[q][i] => MayOwe(q, it)'
             /\ \A m \in Replies : pc'[m] = "none" => owed'[m] = <<>>
             /\ \A c \in Conns : \A i \in DOMAIN outbound'[c] : outbound'[c][i].t = "stop" => closed'[c]
  <2>1. WireType'
    BY <1>1 DEF WireType, Around
  <2>2. LinkInv'
    BY <1>1 DEF Around
  <2>3. OwedInv'
    BY DEF OwedInv, Free
  <2>4. StopInv'
    BY DEF StopInv
  <2> QED BY <2>1, <2>2, <2>3, <2>4 DEF WireInv
<1>6. CASE UNCHANGED <<outbound, owed, slice>>
  BY <1>2, <1>3, <1>4, <1>5, <1>6 DEF QueueTypes
<1>7. ASSUME NEW p \in Producers, Sends(p)
      PROVE  /\ QueueTypes' /\ slice' \in Slices
             /\ \A q \in Producers : \A i \in DOMAIN owed'[q] : \A it : it = owed'[q][i] => MayOwe(q, it)'
             /\ \A m \in Replies : pc'[m] = "none" => owed'[m] = <<>>
             /\ \A c \in Conns : \A i \in DOMAIN outbound'[c] : outbound'[c][i].t = "stop" => closed'[c]
  <2> PICK items \in Seq(Item(Events)) : Produced(p, items) /\ \A i \in DOMAIN items : MayOwe(p, items[i])'
    BY <1>7 DEF Sends
  <2>0. slice' = slice /\ (p \in Replies => pc[p] # "none")
    BY <1>7 DEF Sends
  <2>1. QueueTypes' /\ slice' \in Slices
    BY <1>2, <2>0 DEF Produced, QueueTypes
  <2>2. ASSUME NEW q \in Producers, NEW i \in DOMAIN owed'[q], NEW it, it = owed'[q][i] PROVE MayOwe(q, it)'
    <3>1. CASE q # p
      <4>1. owed'[q] = owed[q]
        BY <3>1 DEF Produced
      <4> QED BY <1>4, <2>2, <4>1
    <3>2. CASE q = p
      <4>1. PICK j \in DOMAIN items : Same(it, items[j])
        BY <2>2, <3>2 DEF Produced
      <4>2. MayOwe(p, items[j])'
        OBVIOUS
      <4>3. PICK x : x = items[j]
        OBVIOUS
      <4>4. MayOwe(p, x)' /\ it.to = x.to /\ it.e = x.e /\ it.room = x.room
        BY <4>1, <4>2, <4>3 DEF Same
      <4> QED BY <3>2, <4>4 DEF MayOwe
    <3> QED BY <3>1, <3>2
  <2>3. ASSUME NEW m \in Replies, pc'[m] = "none" PROVE owed'[m] = <<>>
    <3>1. pc[m] = "none" /\ owed[m] = <<>> /\ m \in Producers
      BY <1>5, <2>3, ReplyAssumption
    <3> QED BY <2>0, <3>1 DEF Produced
  <2>4. ASSUME NEW c \in Conns, NEW i \in DOMAIN outbound'[c], outbound'[c][i].t = "stop" PROVE closed'[c]
    <3>1. CASE i > Len(outbound[c])
      <4>1. PICK j \in DOMAIN items : items[j].to = c /\ outbound'[c][i] = items[j].e
        BY <2>4, <3>1 DEF Produced
      <4>2. PICK x : x = items[j]
        OBVIOUS
      <4>3. MayOwe(p, x)' /\ x.to = c /\ x.e.t = "stop"
        BY <2>4, <4>1, <4>2
      <4> QED BY <4>3 DEF MayOwe, FromReply
    <3>2. CASE ~(i > Len(outbound[c]))
      <4>1. i \in DOMAIN outbound[c] /\ outbound'[c][i] = outbound[c][i]
        <5>1. outbound'[c] \in Seq(Events) /\ outbound[c] \in Seq(Events)
          BY <1>2 DEF Produced
        <5>2. i \in 1..Len(outbound'[c]) /\ DOMAIN outbound[c] = 1..Len(outbound[c]) /\ Len(outbound[c]) \in Nat /\ Len(outbound'[c]) \in Nat
          BY <5>1, LenProperties
        <5>3. i \in DOMAIN outbound[c]
          BY <3>2, <5>2
        <5> QED BY <5>3 DEF Produced
      <4> QED BY <1>2, <1>3, <2>4, <4>1
    <3> QED BY <3>1, <3>2
  <2> QED BY <2>1, <2>2, <2>3, <2>4
<1>8. ASSUME NEW c \in Conns, Taken(c)
      PROVE  /\ QueueTypes' /\ slice' \in Slices
             /\ \A q \in Producers : \A i \in DOMAIN owed'[q] : \A it : it = owed'[q][i] => MayOwe(q, it)'
             /\ \A m \in Replies : pc'[m] = "none" => owed'[m] = <<>>
             /\ \A d \in Conns : \A i \in DOMAIN outbound'[d] : outbound'[d][i].t = "stop" => closed'[d]
  <2> PICK old \in Seq(Events) : old = outbound[c]
    BY <1>2
  <2>0. old # <<>> /\ outbound' = [outbound EXCEPT ![c] = Tail(old)] /\ owed' = owed
        /\ slice' = IF link[c] = "up" THEN Reduce(slice, Head(old)) ELSE slice
    BY <1>8 DEF Taken
  <2>1. PICK new \in Seq(Events) : /\ new = Tail(old) /\ Head(old) = old[1] /\ old[1] \in Events
                                   /\ \A i \in DOMAIN new : i + 1 \in DOMAIN old /\ new[i] = old[i + 1]
    <3>1. Tail(old) \in Seq(Events) /\ Head(old) = old[1] /\ old[1] \in Events
      BY <2>0, TailOf
    <3>2. \A i \in DOMAIN Tail(old) : i + 1 \in DOMAIN old /\ Tail(old)[i] = old[i + 1]
      BY <2>0, TailOf
    <3> QED BY <3>1, <3>2
  <2>2. slice' \in Slices
    <3>1. PICK e \in Events : e = old[1]
      BY <2>1
    <3> QED BY <1>2, <2>0, <2>1, <3>1, Reduced
  <2>3. outbound' = [outbound EXCEPT ![c] = new] /\ QueueTypes'
    BY <1>2, <2>0, <2>1 DEF QueueTypes
  <2>4. ASSUME NEW d \in Conns, NEW i \in DOMAIN outbound'[d], outbound'[d][i].t = "stop" PROVE closed'[d]
    <3>1. \E k \in DOMAIN outbound[d] : outbound'[d][i] = outbound[d][k]
      <4>1. CASE d = c
        BY <1>2, <2>1, <2>3, <2>4, <4>1
      <4>2. CASE d # c
        BY <1>2, <2>3, <2>4, <4>2
      <4> QED BY <4>1, <4>2
    <3> QED BY <1>2, <1>3, <2>4, <3>1
  <2> QED BY <1>4, <1>5, <2>0, <2>2, <2>3, <2>4
<1>9. ASSUME NEW m \in Replies, Drops(m)
      PROVE  /\ QueueTypes' /\ slice' \in Slices
             /\ \A q \in Producers : \A i \in DOMAIN owed'[q] : \A it : it = owed'[q][i] => MayOwe(q, it)'
             /\ \A n \in Replies : pc'[n] = "none" => owed'[n] = <<>>
             /\ \A d \in Conns : \A i \in DOMAIN outbound'[d] : outbound'[d][i].t = "stop" => closed'[d]
  <2>1. m \in Producers /\ \A q \in Producers : owed'[q] = owed[q] \/ owed'[q] = <<>>
    BY <1>2, <1>9, ReplyAssumption DEF Drops
  <2>2. QueueTypes' /\ slice' \in Slices /\ outbound' = outbound
    <3>1. <<>> \in Seq(Item(Events))
      BY EmptySeq
    <3> QED BY <1>2, <1>9, <3>1 DEF Drops, QueueTypes
  <2>3. ASSUME NEW q \in Producers, NEW i \in DOMAIN owed'[q], NEW it, it = owed'[q][i] PROVE MayOwe(q, it)'
    <3>1. owed'[q] = owed[q]
      BY <2>1, <2>3
    <3> QED BY <1>4, <2>3, <3>1
  <2>4. \A n \in Replies : pc'[n] = "none" => owed'[n] = <<>>
    BY <1>5, <2>1, ReplyAssumption
  <2> QED BY <1>2, <1>3, <2>2, <2>3, <2>4
<1> QED BY <1>6, <1>7, <1>8, <1>9, StepSends

\* What is on its way to a browser is well formed, comes from a running turn, and is
\* told to end only when it is closed; at most one connection is up.
THEOREM WireInvariance == Spec => []WireInv
<1>1. Init => WireInv
  BY WireStarts
<1>2. ReplyInv /\ VerdictInv /\ WireInv /\ [Next]_vars => WireInv'
  BY WireInvKeeps
<1> QED BY <1>1, <1>2, ReplyInvariance, VerdictInvariance, PTL DEF Spec

-----------------------------------------------------------------------------
(* The end of a turn                                                       *)

\* The replies of the turn have been started
Begun == origin \in Conns /\ reader[origin] # "creating"
Live == {m \in asked : pc[m] # "over"}

\* Until then there is none, and from then on active counts those that are not over
ActiveInv ==
  Begun => /\ \A m \in Replies : pc[m] = "none" <=> m \notin asked
           /\ active = Cardinality(Live)

LEMMA NotBegun == ASSUME ReplyInv, WireInv, ~Begun PROVE \A m \in Replies : pc[m] = "none"
BY WsAssumption DEF ReplyInv, StartedOnce, WireInv, WireType, Begun

\* Where a step leaves the replies
SameTurn ==
  /\ \A m \in Replies : (pc'[m] = "none" <=> pc[m] = "none") /\ (pc'[m] = "over" <=> pc[m] = "over")
  /\ active' = active
  /\ Begun => Begun' /\ UNCHANGED <<origin, asked>>
  /\ Begun' => Begun

LEMMA StepTurn ==
  ASSUME ReplyInv, WireInv, [Next]_vars
  PROVE  SameTurn \/ (\E m \in Replies : LeaveTask(m)) \/ (\E c \in Conns : StartReplies(c))
<1> USE DEF wsVars, browserVars, turn, taskVars
<1>0. DOMAIN reader = Conns /\ pc \in [Replies -> Places] /\ NoConn \notin Conns
      /\ (\A c \in Conns : reader[c] = "creating" => c = origin)
  BY WsAssumption DEF ReplyInv, ReplyType, WireInv, LinkInv, NoConn
<1>1. ASSUME UNCHANGED <<pc, active, origin, asked>>, Begun <=> Begun' PROVE SameTurn
  BY <1>1 DEF SameTurn
<1>2. ASSUME NEW c \in Conns, Connect(c) \/ Join(c) \/ ReadHistory(c) \/ Answer(c) \/ Return(c) \/ Close(c)
                              \/ Leave(c) \/ Disconnect(c) \/ Deliver(c) \/ \E m \in Replies : AskCancel(c, m)
      PROVE  SameTurn
  <2>1. UNCHANGED <<pc, active, origin, asked>>
    BY <1>2 DEF Connect, Join, ReadHistory, Answer, Return, Close, Leave, Disconnect, Deliver, AskCancel
  <2>2. reader' = reader \/ \E x : reader' = [reader EXCEPT ![c] = x] /\ x # "creating" /\ reader[c] # "creating"
    <3>1. CASE Connect(c)
      <4>1. reader[c] = "off"
        BY <3>1 DEF Connect, WireInv, LinkInv
      <4> QED BY <3>1, <4>1 DEF Connect
    <3>2. CASE Join(c) \/ ReadHistory(c)
      BY <3>2 DEF Join, ReadHistory
    <3>3. CASE Answer(c) \/ Return(c)
      BY <3>3 DEF Answer, Return
    <3>4. CASE Close(c)
      BY <3>4 DEF Close, Idle
    <3>5. CASE Leave(c)
      BY <3>5 DEF Leave
    <3>6. CASE \E m \in Replies : AskCancel(c, m)
      BY <3>6 DEF AskCancel, Idle
    <3> QED BY <1>2, <3>1, <3>2, <3>3, <3>4, <3>5, <3>6 DEF Disconnect, Deliver
  <2>3. Begun <=> Begun'
    BY <1>0, <2>1, <2>2 DEF Begun
  <2> QED BY <1>1, <2>1, <2>3
<1>3. ASSUME NEW c \in Conns, SendMessage(c) PROVE SameTurn
  <2>1. UNCHANGED <<pc, active>> /\ ~Begun /\ ~Begun'
    BY <1>0, <1>3 DEF SendMessage, Begun
  <2> QED BY <2>1 DEF SameTurn
<1>4. ASSUME NEW c \in Conns, FireCancel(c) PROVE SameTurn
  <2>1. UNCHANGED <<active, origin, asked>> /\ reader' = [reader EXCEPT ![c] = "idle"] /\ reader[c] # "creating"
    BY <1>4 DEF FireCancel
  <2>2. Begun <=> Begun'
    BY <1>0, <2>1 DEF Begun
  <2>3. ASSUME NEW m \in Replies PROVE (pc'[m] = "none" <=> pc[m] = "none") /\ (pc'[m] = "over" <=> pc[m] = "over")
    <3> PICK n \in Replies : n = target[c]
      BY <1>4 DEF FireCancel, ReplyInv, ReplyType
    <3>1. pc' = pc \/ (InFlight(n) /\ \E x \in {"persist", "leave"} : pc' = [pc EXCEPT ![n] = x])
      BY <1>4 DEF FireCancel, CancelReply
    <3> QED BY <1>0, <3>1 DEF InFlight
  <2> QED BY <2>1, <2>2, <2>3 DEF SameTurn
<1>5. ASSUME NEW m \in Replies, Reply(m), ~LeaveTask(m) PROVE SameTurn
  <2>1. UNCHANGED <<active, reader, origin, asked>>
    BY <1>5 DEF Reply, Begin, NotLoaded, Prepared, TextChunk, StreamEnds, Coordinate, Reread, Persist, Report, Trace,
                Silent, Quiet
  <2>2. pc[m] \notin {"none", "over"} /\ \E x \in Places \ {"none", "over"} : pc' = [pc EXCEPT ![m] = x]
    BY <1>5 DEF Reply, Begin, NotLoaded, Prepared, TextChunk, StreamEnds, Coordinate, Reread, Persist, Report, Trace,
                Step, Places
  <2> QED BY <1>0, <2>1, <2>2 DEF SameTurn, Begun
<1>6. ASSUME NEW p \in Producers, PutWaiting(p) PROVE SameTurn
  BY <1>1, <1>6 DEF PutWaiting, Begun
<1>7. CASE UNCHANGED vars
  BY <1>1, <1>7 DEF vars, Begun
<1>8. CASE System
  BY <1>2, <1>4, <1>5, <1>6, <1>8 DEF System, Handler
<1>9. CASE Environment
  BY <1>2, <1>3, <1>9 DEF Environment
<1> QED BY <1>7, <1>8, <1>9 DEF Next

LEMMA AskedFinite == ASSUME WireInv PROVE IsFiniteSet(asked) /\ IsFiniteSet(Live)
<1>1. IsFiniteSet(asked)
  BY ReplyAssumption, FS_Subset DEF WireInv, WireType
<1>2. Live \subseteq asked
  BY DEF Live
<1> QED BY <1>1, <1>2, FS_Subset

\* A task that leaves is one of those that count
LEMMA Leaves ==
  ASSUME ReplyInv, WireInv, ActiveInv, NEW m \in Replies, LeaveTask(m)
  PROVE  /\ Begun /\ Begun' /\ UNCHANGED <<origin, asked>> /\ m \in Live /\ Live' = Live \ {m}
         /\ active = Cardinality(Live) /\ active' = active - 1
         /\ pc'[m] = "over" /\ \A n \in Replies \ {m} : pc'[n] = pc[n]
<1>1. pc[m] = "leave" /\ pc' = [pc EXCEPT ![m] = "over"] /\ active' = active - 1 /\ UNCHANGED <<reader, origin, asked>>
  BY DEF LeaveTask, Step, Quiet, turn
<1>2. Begun /\ Begun'
  BY <1>1, NotBegun DEF Begun
<1>3. m \in Live
  BY <1>1, <1>2 DEF ActiveInv, Live
<1>4. pc \in [Replies -> Places] /\ asked \subseteq Replies
  BY DEF ReplyInv, ReplyType, WireInv, WireType
<1>5. Live' = Live \ {m}
  BY <1>1, <1>4 DEF Live
<1> QED BY <1>1, <1>2, <1>3, <1>4, <1>5 DEF ActiveInv

LEMMA ActiveKeeps == ReplyInv /\ WireInv /\ ActiveInv /\ [Next]_vars => ActiveInv'
<1> SUFFICES ASSUME ReplyInv, WireInv, ActiveInv, [Next]_vars PROVE ActiveInv'
  OBVIOUS
<1>1. CASE SameTurn
  <2>1. asked \subseteq Replies
    BY DEF WireInv, WireType
  <2>2. Begun /\ Begun' => Live' = Live
    BY <1>1, <2>1 DEF SameTurn, Live
  <2> QED BY <1>1, <2>2 DEF SameTurn, ActiveInv
<1>2. ASSUME NEW m \in Replies, LeaveTask(m) PROVE ActiveInv'
  <2>1. /\ Begun /\ UNCHANGED <<origin, asked>> /\ m \in Live /\ Live' = Live \ {m}
        /\ active = Cardinality(Live) /\ active' = active - 1
        /\ pc'[m] = "over" /\ \A n \in Replies \ {m} : pc'[n] = pc[n]
    BY <1>2, Leaves
  <2>2. Cardinality(Live') = Cardinality(Live) - 1
    <3>1. PICK L : L = Live
      OBVIOUS
    <3>2. Cardinality(L \ {m}) = Cardinality(L) - 1
      BY <2>1, <3>1, AskedFinite, FS_RemoveElement
    <3> QED BY <2>1, <3>1, <3>2
  <2>3. Cardinality(Live)' = Cardinality(Live')
    OBVIOUS
  <2>4. \A n \in Replies : pc'[n] = "none" <=> n \notin asked'
    <3>1. m \in asked
      BY <2>1 DEF Live
    <3> QED BY <2>1, <3>1 DEF ActiveInv
  <2> QED BY <2>1, <2>2, <2>3, <2>4 DEF ActiveInv
<1>3. ASSUME NEW c \in Conns, StartReplies(c) PROVE ActiveInv'
  <2>1. /\ pc' = [m \in Replies |-> IF m \in asked THEN "begin" ELSE "none"]
        /\ active' = Cardinality(asked) /\ asked' = asked
    BY <1>3 DEF StartReplies, turn
  <2>2. Live' = asked
    BY <2>1 DEF Live, WireInv, WireType
  <2> QED BY <2>1, <2>2 DEF ActiveInv
<1> QED BY <1>1, <1>2, <1>3, StepTurn

\* The last reply to leave _wrap_agent_task is the one that finds the count at one: the
\* number that run_agent_reply counts down is that of the replies still running.
THEOREM ActiveInvariance == Spec => []ActiveInv
<1>1. Init => ActiveInv
  BY WsAssumption DEF Init, ActiveInv, Begun, NoConn
<1>2. ReplyInv /\ WireInv /\ ActiveInv /\ [Next]_vars => ActiveInv'
  BY ActiveKeeps
<1> QED BY <1>1, <1>2, ReplyInvariance, WireInvariance, PTL DEF Spec

AllOver == Begun /\ \A m \in asked : pc[m] = "over"
HasFan(q) == \E i \in DOMAIN q : q[i].t = "fanout"
OwesFan(items) == \E i \in DOMAIN items : items[i].e.t = "fanout"
NoFanQueued == \A c \in Conns : ~HasFan(outbound[c])

\* Nothing but what a connection answers follows the event that all replies are done
NothingFollows(q) ==
  \A i, j \in DOMAIN q : i < j /\ q[i].t = "fanout" => q[j].t \in {"stop", "history"}

LeftToSay(m) == Len(owed[m]) <= 1 /\ \A i \in DOMAIN owed[m] : owed[m][i].e.t = "fanout"

\* fan_out_done is under way, in one place, only when all replies are over, and a reply
\* that is over has at most this event left to send
FanInv ==
  /\ slice.over \/ ~NoFanQueued \/ (\E m \in Replies : OwesFan(owed[m])) => AllOver
  /\ \A m, n \in Replies : OwesFan(owed[m]) /\ OwesFan(owed[n]) => m = n
  /\ \A m \in Replies : OwesFan(owed[m]) => NoFanQueued
  /\ \A m \in Replies : pc[m] = "over" => LeftToSay(m)
  /\ \A c \in Conns : NothingFollows(outbound[c])

LEMMA FanShows == ActiveInv /\ FanInv => FanOutLast
BY DEF FanInv, FanOutLast, AllOver, NothingFollows

-----------------------------------------------------------------------------
\* What the send of one event leaves
OneSent(p, it) ==
  \/ outbound' = outbound /\ owed' = [owed EXCEPT ![p] = <<>>]
  \/ outbound' = outbound /\ \E w \in Item(Events) : Same(w, it) /\ owed' = [owed EXCEPT ![p] = <<w>>]
  \/ outbound' = [outbound EXCEPT ![it.to] = Append(@, it.e)] /\ owed' = [owed EXCEPT ![p] = <<>>]

LEMMA OneIsSent ==
  ASSUME QueueTypes, NEW p \in Producers, NEW it \in Item(Events), Produce(p, <<it>>) PROVE OneSent(p, it)
<1> PICK r : r = PutAll(<<it>>)
  OBVIOUS
<1>1. outbound' = r.out /\ owed' = [owed EXCEPT ![p] = r.rest]
  BY DEF Produce
<1>2. Puts(Batch(<<it>>), it, r)
  BY PutAllOne DEF QueueTypes
<1> PICK b : b = Batch(<<it>>)
  OBVIOUS
<1>3. b.out = outbound /\ b.rest = <<>>
  BY DEF Batch
<1>4. PICK w \in Item(Events) : w = [it EXCEPT !.waits = TRUE]
  BY DEF Item
<1>5. Same(w, it) /\ Same(it, it) /\ Append(<<>>, it) = <<it>>
  BY <1>4 DEF Same, Item
<1>6. CASE r.out = b.out /\ r.rest \in {Append(b.rest, it), <<[it EXCEPT !.waits = TRUE]>>}
  <2>1. r.rest = <<it>> \/ r.rest = <<w>>
    BY <1>3, <1>4, <1>5, <1>6
  <2> QED BY <1>1, <1>3, <1>5, <1>6, <2>1 DEF OneSent
<1>7. CASE r = b
  BY <1>1, <1>3, <1>7 DEF OneSent
<1>8. CASE r.out = [b.out EXCEPT ![it.to] = Append(@, it.e)] /\ r.rest = b.rest
  BY <1>1, <1>3, <1>8 DEF OneSent
<1> QED BY <1>2, <1>6, <1>7, <1>8 DEF Puts

-----------------------------------------------------------------------------
(* The steps, by what they do to fan_out_done                              *)

OverKept == \A m \in Replies : pc'[m] = "over" => pc[m] = "over"

\* Other events are sent; when all replies are over, only those of a connection
Plain(p) ==
  /\ slice' = slice /\ (p \in Replies => pc[p] # "over")
  /\ \A m \in Replies \ {p} : pc'[m] = "over" => pc[m] = "over"
  /\ \E items \in Seq(Item(Events)) :
       /\ Produced(p, items)
       /\ \A i \in DOMAIN items : items[i].e.t # "fanout" /\ (AllOver => items[i].e.t \in {"stop", "history"})
       /\ p \in Replies /\ pc'[p] = "over" => items = <<>>

\* The event itself is sent, by a reply that is over then
Single(m) ==
  /\ slice' = slice /\ pc'[m] = "over" /\ AllOver' /\ NoFanQueued
  /\ \A n \in Replies \ {m} : (pc'[n] = "over" => pc[n] = "over") /\ ~OwesFan(owed[n])
  /\ \E it \in Item(Events) : it.e.t = "fanout" /\ OneSent(m, it)

LEMMA AllStaysOver ==
  ASSUME ReplyInv, WireInv, ActiveInv, [Next]_vars, AllOver PROVE AllOver'
<1>0. asked \subseteq Replies
  BY DEF WireInv, WireType
<1>1. CASE SameTurn
  BY <1>0, <1>1 DEF SameTurn, AllOver
<1>2. ASSUME NEW m \in Replies, LeaveTask(m) PROVE AllOver'
  BY <1>0, <1>2, Leaves DEF AllOver
<1>3. ASSUME NEW c \in Conns, StartReplies(c) PROVE AllOver'
  BY <1>3 DEF StartReplies, AllOver, Begun, WireInv, LinkInv
<1> QED BY <1>1, <1>2, <1>3, StepTurn

\* Nothing is sent by the task of a reply when all are over
LEMMA NobodyRuns ==
  ASSUME ReplyInv, WireInv, ActiveInv, AllOver, NEW m \in Replies PROVE pc[m] \in {"none", "over"}
BY DEF AllOver, ActiveInv

LEMMA OverByLeaving ==
  ASSUME ReplyInv, WireInv, [Next]_vars, NEW m \in Replies, pc'[m] = "over" PROVE pc[m] = "over" \/ LeaveTask(m)
<1>1. CASE SameTurn
  BY <1>1 DEF SameTurn
<1>2. ASSUME NEW n \in Replies, LeaveTask(n) PROVE pc[m] = "over" \/ LeaveTask(m)
  BY <1>2 DEF LeaveTask, Step, ReplyInv, ReplyType
<1>3. ASSUME NEW c \in Conns, StartReplies(c) PROVE FALSE
  BY <1>3 DEF StartReplies
<1> QED BY <1>1, <1>2, <1>3, StepTurn

LEMMA LastLeaves ==
  ASSUME ReplyInv, WireInv, ActiveInv, FanInv, NEW m \in Replies, LeaveTask(m), LastOfAll(m) PROVE Single(m)
<1>1. /\ Begun /\ Begun' /\ UNCHANGED <<origin, asked>> /\ m \in Live /\ Live' = Live \ {m}
      /\ active = Cardinality(Live) /\ pc'[m] = "over" /\ \A n \in Replies \ {m} : pc'[n] = pc[n]
  BY Leaves
<1>2. Live = {m}
  <2> PICK L : L = Live
    OBVIOUS
  <2>1. IsFiniteSet(L) /\ Cardinality(L) = 1
    BY <1>1, AskedFinite DEF LastOfAll
  <2>2. \E x : L = {x}
    BY <2>1, FS_Singleton
  <2> QED BY <1>1, <2>2
<1>3. AllOver'
  <2>1. Live' = {}
    BY <1>1, <1>2
  <2> QED BY <1>1, <2>1 DEF AllOver, Live
<1>4. ~AllOver
  BY <1>1 DEF AllOver, Live
<1>5. NoFanQueued /\ \A n \in Replies : ~OwesFan(owed[n])
  BY <1>4 DEF FanInv
<1>6. m \in Producers /\ origin \in Conns /\ slice' = slice /\ QueueTypes
  BY <1>1, ReplyAssumption DEF Begun, LeaveTask, Quiet, browserVars, WireInv, WireType
<1>7. PICK it \in Item(Events) : it = Direct(origin, FanEvent)
  BY <1>6, EventMade, DirectMade DEF FanEvent
<1>8. SendAll(origin, <<[t |-> "fanout"]>>) = <<it>>
  <2>1. DOMAIN <<[t |-> "fanout"]>> = 1..1 /\ <<[t |-> "fanout"]>>[1] = FanEvent
    BY DEF FanEvent
  <2>2. \A i \in 1..1 : i = 1
    OBVIOUS
  <2>3. SendAll(origin, <<[t |-> "fanout"]>>) = [i \in 1..1 |-> it]
    BY <1>7, <2>1, <2>2 DEF SendAll
  <2>4. <<it>> = [i \in 1..1 |-> it]
    OBVIOUS
  <2> QED BY <2>3, <2>4
<1>9. Produce(m, <<it>>)
  BY <1>8 DEF LeaveTask
<1>10. OneSent(m, it)
  BY <1>6, <1>9, OneIsSent
<1>11. it.e.t = "fanout"
  BY <1>7 DEF Direct, FanEvent
<1> QED BY <1>1, <1>3, <1>5, <1>6, <1>10, <1>11 DEF Single

\* Whoever waits for room goes on
LEMMA WaitingSends ==
  ASSUME ReplyInv, WireInv, ActiveInv, FanInv, NEW p \in Producers, PutWaiting(p)
  PROVE  Plain(p) \/ (p \in Replies /\ Single(p))
<1>1. UNCHANGED <<slice, pc, origin, asked, reader>> /\ ~Free(p) /\ Produce(p, owed[p])
  BY DEF PutWaiting, Resume, Free, browserVars, turn, taskVars
<1>2. PICK items \in Seq(Item(Events)) : items = owed[p] /\ Produced(p, items)
  BY PutWaitingSends
<1>3. \A i \in DOMAIN items : MayOwe(p, items[i])
  BY <1>2 DEF WireInv, OwedInv
<1>4. items # <<>> /\ (p \in Conns \/ p \in Replies) /\ Conns \cap Replies = {}
  BY <1>1, <1>2, ReplyAssumption DEF Free
<1>5. CASE p \in Conns
  <2>1. ASSUME NEW i \in DOMAIN items PROVE items[i].e.t # "fanout" /\ (AllOver => items[i].e.t \in {"stop", "history"})
    <3>1. MayOwe(p, items[i])
      BY <1>3
    <3>2. AllOver => reader[p] # "creating"
      BY <1>5 DEF AllOver, Begun, WireInv, LinkInv
    <3> QED BY <1>5, <3>1, <3>2 DEF MayOwe
  <2> QED BY <1>1, <1>2, <1>4, <1>5, <2>1 DEF Plain
<1>6. CASE p \in Replies /\ pc[p] # "over"
  <2>1. pc[p] # "none"
    BY <1>1, <1>6 DEF WireInv, OwedInv
  <2>2. ~AllOver
    BY <1>6, <2>1, NobodyRuns
  <2>3. ~OwesFan(items)
    BY <1>2, <1>6, <2>2 DEF FanInv
  <2>4. \A i \in DOMAIN items : items[i].e.t # "fanout"
    BY <2>3 DEF OwesFan
  <2> QED BY <1>1, <1>2, <1>6, <2>2, <2>4 DEF Plain
<1>7. CASE p \in Replies /\ pc[p] = "over"
  <2>1. Len(items) <= 1 /\ \A i \in DOMAIN items : items[i].e.t = "fanout"
    BY <1>2, <1>7 DEF FanInv, LeftToSay
  <2>2. Len(items) = 1 /\ 1 \in DOMAIN items
    <3>1. Len(items) \in Nat /\ DOMAIN items = 1..Len(items) /\ Len(items) # 0
      BY <1>4, EmptySeq, LenProperties
    <3> QED BY <2>1, <3>1
  <2>3. PICK it \in Item(Events) : it = items[1]
    BY <2>2, ElementOfSeq
  <2>4. items = <<it>>
    <3>1. Len(<<it>>) = 1 /\ <<it>>[1] = it /\ <<it>> \in Seq(Item(Events))
      OBVIOUS
    <3>2. \A i \in 1..Len(items) : items[i] = <<it>>[i]
      BY <2>2, <2>3, <3>1
    <3>3. \A s, u \in Seq(Item(Events)) : Len(s) = Len(u) /\ (\A i \in 1..Len(s) : s[i] = u[i]) => s = u
      BY SeqEqual
    <3> QED BY <2>2, <3>1, <3>2, <3>3
  <2>5. it.e.t = "fanout"
    BY <2>1, <2>2, <2>3
  <2>6. QueueTypes
    BY DEF WireInv, WireType
  <2>7. OneSent(p, it)
    BY <1>1, <1>2, <2>4, <2>6, OneIsSent
  <2>8. OwesFan(owed[p])
    BY <1>2, <2>1, <2>2 DEF OwesFan
  <2>9. AllOver /\ NoFanQueued /\ \A n \in Replies \ {p} : ~OwesFan(owed[n])
    BY <1>7, <2>8 DEF FanInv
  <2>10. AllOver'
    BY <1>1, <2>9 DEF AllOver, Begun
  <2> QED BY <1>1, <1>7, <2>5, <2>7, <2>9, <2>10 DEF Single
<1> QED BY <1>4, <1>5, <1>6, <1>7

\* The tasks send nothing else when all replies are over
LEMMA ReplyIsPlain ==
  ASSUME ReplyInv, WireInv, ActiveInv, NEW m \in Replies, pc[m] \notin {"none", "over"}, pc'[m] # "over" \/ LeaveTask(m),
         \A n \in Replies \ {m} : pc'[n] = "over" => pc[n] = "over", slice' = slice,
         NEW items \in Seq(Item(Events)), Produced(m, items), LeaveTask(m) => items = <<>>,
         \A i \in DOMAIN items : items[i].e.t # "fanout"
  PROVE  Plain(m)
<1>1. ~AllOver
  BY NobodyRuns
<1> QED BY <1>1 DEF Plain

LEMMA ConnIsPlain ==
  ASSUME ReplyInv, WireInv, NEW c \in Conns, UNCHANGED <<slice, pc>>,
         NEW items \in Seq(Item(Events)), Produced(c, items),
         \A i \in DOMAIN items : \/ items[i].e.t \in {"stop", "history"}
                                 \/ items[i].e.t = "created" /\ ~AllOver
  PROVE  Plain(c)
<1>1. c \notin Replies
  BY ReplyAssumption
<1> QED BY <1>1 DEF Plain

LEMMA StepFans ==
  ASSUME ReplyInv, VerdictInv, WireInv, ActiveInv, FanInv, [Next]_vars
  PROVE  \/ UNCHANGED <<outbound, owed, slice>> /\ OverKept
         \/ \E p \in Producers : Plain(p)
         \/ \E m \in Replies : Single(m)
         \/ \E c \in Conns : Taken(c) /\ OverKept
         \/ \E m \in Replies : Drops(m) /\ OverKept
<1> USE DEF wsVars, browserVars, turn, taskVars
<1>0. pc \in [Replies -> Places] /\ Conns \subseteq Producers /\ Replies \subseteq Producers
  BY ReplyAssumption DEF ReplyInv, ReplyType
<1>1. ASSUME NEW c \in Conns, Answer(c) PROVE Plain(c)
  <2> PICK items \in Seq(Item(Events)) : Produced(c, items) /\ \A i \in DOMAIN items : items[i] = Direct(c, read[c])
    BY <1>1, AnswerSends
  <2>1. read[c].t = "history" /\ UNCHANGED <<slice, pc>>
    BY <1>1 DEF Answer, WireInv, WireType, Histories
  <2>2. \A i \in DOMAIN items : items[i].e.t = "history"
    BY <2>1 DEF Direct
  <2> QED BY <2>1, <2>2, ConnIsPlain
<1>2. ASSUME NEW c \in Conns, SendMessage(c) PROVE Plain(c)
  <2> PICK items \in Seq(Item(Events)) :
         Produced(c, items) /\ \A i \in DOMAIN items : \E m \in asked' : items[i] = Direct(c, CreatedEvent(m))
    BY <1>2, SendMessageSends
  <2>1. \A m : Direct(c, CreatedEvent(m)).e.t = "created"
    BY DEF Direct, CreatedEvent
  <2>2. \A i \in DOMAIN items : items[i].e.t = "created"
    BY <2>1
  <2>3. ~AllOver /\ UNCHANGED <<slice, pc>>
    BY <1>2, WsAssumption DEF SendMessage, AllOver, Begun, NoConn
  <2> QED BY <2>2, <2>3, ConnIsPlain
<1>3. ASSUME NEW c \in Conns, Close(c) PROVE Plain(c)
  <2> PICK items \in Seq(Item(Events)) : Produced(c, items) /\ \A i \in DOMAIN items : items[i].to = c /\ items[i].e = Stop /\ ~items[i].room
    BY <1>3, CloseSends
  <2>1. UNCHANGED <<slice, pc>>
    BY <1>3 DEF Close
  <2>2. \A i \in DOMAIN items : items[i].e.t = "stop"
    BY DEF Stop
  <2> QED BY <2>1, <2>2, ConnIsPlain
<1>4. ASSUME NEW m \in Replies, NotLoaded(m) \/ TextChunk(m) \/ Report(m)
      PROVE  /\ pc[m] \notin {"none", "over"} /\ pc'[m] # "over" /\ slice' = slice
             /\ \A n \in Replies \ {m} : pc'[n] = "over" => pc[n] = "over"
  BY <1>0, <1>4 DEF NotLoaded, TextChunk, Report, Step, Quiet
<1>5. ASSUME NEW m \in Replies, NotLoaded(m) PROVE Plain(m)
  <2> PICK items \in Seq(Item(Events)) :
        Produced(m, items) /\ \A i \in DOMAIN items : items[i] = Direct(origin, [t |-> "error", m |-> m])
    BY <1>5, NotLoadedSends
  <2>1. \A i \in DOMAIN items : items[i].e.t # "fanout"
    BY DEF Direct
  <2>2. ~LeaveTask(m)
    BY <1>5 DEF NotLoaded, LeaveTask, Step
  <2> QED BY <1>4, <1>5, <2>1, <2>2, ReplyIsPlain
<1>6. ASSUME NEW m \in Replies, TextChunk(m) PROVE Plain(m)
  <2> PICK items \in Seq(Item(Events)) :
        /\ Produced(m, items)
        /\ \A i \in DOMAIN items : /\ items[i].e = [t |-> "chunk", m |-> m, n |-> parts[m] + 1]
                                   /\ items[i].to = origin => ~items[i].room
    BY <1>6, TextChunkSends
  <2>1. \A i \in DOMAIN items : items[i].e.t # "fanout"
    OBVIOUS
  <2>2. ~LeaveTask(m)
    BY <1>6 DEF TextChunk, LeaveTask, Step
  <2> QED BY <1>4, <1>6, <2>1, <2>2, ReplyIsPlain
<1>7. ASSUME NEW m \in Replies, Report(m) PROVE Plain(m)
  <2> PICK items \in Seq(Item(Events)) :
        /\ Produced(m, items)
        /\ \A i \in DOMAIN items : /\ items[i].e \in {Verdict(m)[1], [t |-> "error", m |-> m]}
                                   /\ items[i].to = origin => ~items[i].room
    BY <1>7, ReportSends
  <2>1. Verdict(m)[1].t # "fanout"
    <3>1. Word(m) # "fanout"
      BY <1>7 DEF ReplyInv, ReplyType, Ends, Word
    <3> QED BY <3>1, FirstWord
  <2>2. \A i \in DOMAIN items : items[i].e.t # "fanout"
    BY <2>1
  <2>3. ~LeaveTask(m)
    BY <1>7 DEF Report, LeaveTask, Step
  <2> QED BY <1>4, <1>7, <2>2, <2>3, ReplyIsPlain
<1>8. ASSUME NEW m \in Replies, LeaveTask(m) PROVE Plain(m) \/ Single(m)
  <2>1. CASE LastOfAll(m)
    BY <1>8, <2>1, LastLeaves
  <2>2. CASE ~LastOfAll(m)
    <3> PICK items \in Seq(Item(Events)) : Produced(m, items) /\ items = <<>>
      BY <1>8, <2>2, LeaveTaskSends
    <3>1. DOMAIN items = {}
      OBVIOUS
    <3>2. /\ pc[m] \notin {"none", "over"} /\ slice' = slice
          /\ \A n \in Replies \ {m} : pc'[n] = "over" => pc[n] = "over"
      BY <1>0, <1>8 DEF LeaveTask, Step, Quiet
    <3> QED BY <1>8, <3>1, <3>2, ReplyIsPlain
  <2> QED BY <2>1, <2>2
<1>9. ASSUME \A m \in Replies : ~LeaveTask(m) PROVE OverKept
  BY <1>9, OverByLeaving DEF OverKept
<1>10. ASSUME NEW c \in Conns, Deliver(c) PROVE Taken(c) /\ OverKept
  BY <1>10 DEF Deliver, Take, Taken, OverKept
<1>11. ASSUME NEW c \in Conns, FireCancel(c)
       PROVE  OverKept /\ (UNCHANGED <<outbound, owed, slice>> \/ \E m \in Replies : Drops(m))
  <2>1. target[c] \in Replies
    BY <1>11 DEF FireCancel, ReplyInv, ReplyType
  <2>2. OverKept
    <3>1. \A m \in Replies : ~LeaveTask(m)
      BY <1>11, <1>0 DEF LeaveTask, Step, Quiet, FireCancel, ReplyInv, ReplyType
    <3> QED BY <3>1, <1>9
  <2> QED BY <1>11, <2>1, <2>2 DEF FireCancel, CancelReply, Drops
<1>12. ASSUME NEW c \in Conns, Connect(c) \/ Disconnect(c) \/ Join(c) \/ ReadHistory(c) \/ Return(c) \/ StartReplies(c) \/ Leave(c)
                               \/ \E m \in Replies : AskCancel(c, m)
       PROVE  UNCHANGED <<outbound, owed, slice>> /\ OverKept
  BY <1>12 DEF Connect, Disconnect, Join, ReadHistory, Return, StartReplies, Leave, AskCancel, OverKept
<1>13. ASSUME NEW m \in Replies, Begin(m) \/ Prepared(m) \/ StreamEnds(m) \/ Coordinate(m) \/ Reread(m) \/ Persist(m) \/ Trace(m)
       PROVE  UNCHANGED <<outbound, owed, slice>> /\ OverKept
  <2>1. UNCHANGED <<outbound, owed, slice>>
    BY <1>13 DEF Begin, Prepared, StreamEnds, Coordinate, Reread, Persist, Trace, Silent, Quiet
  <2>2. \E x \in Places \ {"over"} : pc' = [pc EXCEPT ![m] = x]
    BY <1>13 DEF Begin, Prepared, StreamEnds, Coordinate, Reread, Persist, Trace, Step, Places
  <2> QED BY <1>0, <2>1, <2>2 DEF OverKept
<1>14. CASE System
  <2>1. CASE \E c \in Conns : Deliver(c) \/ Handler(c)
    BY <1>0, <1>1, <1>3, <1>10, <1>11, <1>12, <2>1 DEF Handler
  <2>2. CASE \E m \in Replies : Reply(m)
    BY <1>0, <1>5, <1>6, <1>7, <1>8, <1>13, <2>2 DEF Reply
  <2>3. CASE \E p \in Producers : PutWaiting(p)
    BY <2>3, WaitingSends
  <2> QED BY <1>14, <2>1, <2>2, <2>3 DEF System
<1>15. CASE Environment
  BY <1>0, <1>2, <1>12, <1>15 DEF Environment
<1>16. CASE UNCHANGED vars
  BY <1>16 DEF vars, OverKept
<1> QED BY <1>14, <1>15, <1>16 DEF Next

\* What is behind in a queue after a batch of sends is old, or one of the batch
LEMMA OldOrNew ==
  ASSUME QueueTypes, NEW p, NEW items, Produced(p, items), NEW c \in Conns, NEW i \in DOMAIN outbound'[c]
  PROVE  \/ i > Len(outbound[c]) /\ \E j \in DOMAIN items : items[j].to = c /\ outbound'[c][i] = items[j].e
         \/ i \in DOMAIN outbound[c] /\ i <= Len(outbound[c]) /\ outbound'[c][i] = outbound[c][i]
<1>1. CASE i > Len(outbound[c])
  BY <1>1 DEF Produced
<1>2. CASE ~(i > Len(outbound[c]))
  <2>1. outbound'[c] \in Seq(Events) /\ outbound[c] \in Seq(Events)
    BY DEF Produced, QueueTypes
  <2>2. i \in 1..Len(outbound'[c]) /\ DOMAIN outbound[c] = 1..Len(outbound[c]) /\ Len(outbound[c]) \in Nat /\ Len(outbound'[c]) \in Nat
    BY <2>1, LenProperties
  <2>3. i \in DOMAIN outbound[c] /\ i <= Len(outbound[c])
    BY <1>2, <2>2
  <2> QED BY <2>3 DEF Produced
<1> QED BY <1>1, <1>2

LEMMA PlainKeepsFan ==
  ASSUME WireInv, FanInv, NEW p \in Producers, Plain(p), AllOver => AllOver' PROVE FanInv'
<1> PICK items \in Seq(Item(Events)) :
      /\ Produced(p, items)
      /\ \A i \in DOMAIN items : items[i].e.t # "fanout" /\ (AllOver => items[i].e.t \in {"stop", "history"})
      /\ p \in Replies /\ pc'[p] = "over" => items = <<>>
  BY DEF Plain
<1>0. QueueTypes /\ slice' = slice /\ Replies \subseteq Producers
  BY ReplyAssumption DEF Plain, WireInv, WireType
<1>1. \A q \in Producers \ {p} : owed'[q] = owed[q]
  BY DEF Produced
<1>2. \A i \in DOMAIN owed'[p] : owed'[p][i].e.t # "fanout"
  <2> TAKE i \in DOMAIN owed'[p]
  <2>1. PICK j \in DOMAIN items : Same(owed'[p][i], items[j])
    BY DEF Produced
  <2> QED BY <2>1 DEF Same
<1>3. \A m \in Replies : OwesFan(owed'[m]) => m # p /\ OwesFan(owed[m])
  BY <1>0, <1>1, <1>2 DEF OwesFan
<1>4. ASSUME NEW c \in Conns, NEW i \in DOMAIN outbound'[c], outbound'[c][i].t = "fanout"
      PROVE  /\ i \in DOMAIN outbound[c] /\ i <= Len(outbound[c]) /\ outbound'[c][i] = outbound[c][i]
             /\ HasFan(outbound[c]) /\ AllOver
  <2>1. i \in DOMAIN outbound[c] /\ i <= Len(outbound[c]) /\ outbound'[c][i] = outbound[c][i]
    BY <1>0, <1>4, OldOrNew
  <2>2. HasFan(outbound[c])
    BY <1>4, <2>1 DEF HasFan
  <2> QED BY <2>1, <2>2 DEF FanInv, NoFanQueued
<1>5. NoFanQueued => NoFanQueued'
  BY <1>4 DEF NoFanQueued, HasFan
<1>6. ASSUME NEW m \in Replies, pc'[m] = "over" PROVE Len(owed'[m]) <= 1 /\ \A i \in DOMAIN owed'[m] : owed'[m][i].e.t = "fanout"
  <2>1. CASE m = p
    <3>1. items = <<>> /\ DOMAIN items = {}
      BY <1>6, <2>1
    <3>2. DOMAIN owed'[m] = {}
      BY <2>1, <3>1 DEF Produced
    <3>3. owed'[m] \in Seq(Item(Events))
      BY <2>1 DEF Produced
    <3>4. Len(owed'[m]) = 0
      <4>1. PICK s \in Seq(Item(Events)) : s = owed'[m]
        BY <3>3
      <4>2. Len(s) \in Nat /\ DOMAIN s = 1..Len(s) /\ DOMAIN s = {}
        BY <3>2, <4>1, LenProperties
      <4>3. Len(s) = 0
        BY <4>2
      <4> QED BY <4>1, <4>3
    <3> QED BY <3>2, <3>4
  <2>2. CASE m # p
    <3>1. owed'[m] = owed[m] /\ pc[m] = "over"
      BY <1>0, <1>1, <1>6, <2>2 DEF Plain
    <3> QED BY <3>1 DEF FanInv, LeftToSay
  <2> QED BY <2>1, <2>2
<1>7. ASSUME NEW c \in Conns, NEW i \in DOMAIN outbound'[c], NEW j \in DOMAIN outbound'[c], i < j, outbound'[c][i].t = "fanout"
      PROVE  outbound'[c][j].t \in {"stop", "history"}
  <2>1. i \in DOMAIN outbound[c] /\ outbound'[c][i] = outbound[c][i] /\ AllOver
    BY <1>4, <1>7
  <2>2. CASE \E k \in DOMAIN items : items[k].to = c /\ outbound'[c][j] = items[k].e
    BY <2>1, <2>2
  <2>3. CASE j \in DOMAIN outbound[c] /\ outbound'[c][j] = outbound[c][j]
    BY <1>7, <2>1, <2>3 DEF FanInv, NothingFollows
  <2> QED BY <1>0, <2>2, <2>3, OldOrNew
<1>8. slice'.over \/ ~NoFanQueued' \/ (\E m \in Replies : OwesFan(owed'[m])) => AllOver'
  BY <1>0, <1>3, <1>5 DEF FanInv
<1>9. \A m \in Replies : OwesFan(owed'[m]) => NoFanQueued'
  BY <1>3, <1>5 DEF FanInv
<1>10. \A m, n \in Replies : OwesFan(owed'[m]) /\ OwesFan(owed'[n]) => m = n
  BY <1>3 DEF FanInv
<1>11. \A m \in Replies : pc'[m] = "over" => LeftToSay(m)'
  BY <1>6 DEF LeftToSay
<1>12. \A c \in Conns : NothingFollows(outbound'[c])
  BY <1>7 DEF NothingFollows
<1> QED BY <1>8, <1>9, <1>10, <1>11, <1>12 DEF FanInv

LEMMA SingleKeepsFan == ASSUME WireInv, FanInv, NEW m \in Replies, Single(m) PROVE FanInv'
<1>0. /\ outbound \in [Conns -> Seq(Events)] /\ owed \in [Producers -> Seq(Item(Events))]
      /\ slice' = slice /\ m \in Producers /\ Replies \subseteq Producers /\ AllOver' /\ NoFanQueued
      /\ \A n \in Replies \ {m} : (pc'[n] = "over" => pc[n] = "over") /\ ~OwesFan(owed[n])
  BY ReplyAssumption DEF Single, WireInv, WireType, QueueTypes
<1>1. PICK it \in Item(Events) : it.e.t = "fanout" /\ OneSent(m, it)
  BY DEF Single
<1>2. \A n \in Replies \ {m} : owed'[n] = owed[n]
  BY <1>0, <1>1 DEF OneSent
<1>3. Len(owed'[m]) <= 1 /\ \A i \in DOMAIN owed'[m] : owed'[m][i].e.t = "fanout"
  <2>1. CASE owed'[m] = <<>>
    BY <2>1
  <2>2. ASSUME NEW w \in Item(Events), Same(w, it), owed'[m] = <<w>>
        PROVE  Len(owed'[m]) <= 1 /\ \A i \in DOMAIN owed'[m] : owed'[m][i].e.t = "fanout"
    <3>1. w.e.t = "fanout"
      BY <1>1, <2>2 DEF Same
    <3> QED BY <2>2, <3>1
  <2> QED BY <1>0, <1>1, <2>1, <2>2 DEF OneSent
<1>4. \A n \in Replies : pc'[n] = "over" => LeftToSay(n)'
  BY <1>0, <1>2, <1>3 DEF FanInv, LeftToSay
<1>5. \A n \in Replies : OwesFan(owed'[n]) => n = m
  BY <1>0, <1>2
<1>6. \A c \in Conns : ~HasFan(outbound[c])
  BY <1>0 DEF NoFanQueued
<1>7. CASE outbound' = outbound
  <2>1. NoFanQueued' /\ \A c \in Conns : NothingFollows(outbound'[c])
    BY <1>0, <1>7 DEF NoFanQueued, FanInv
  <2> QED BY <1>0, <1>4, <1>5, <2>1 DEF FanInv
<1>8. CASE outbound' = [outbound EXCEPT ![it.to] = Append(@, it.e)] /\ owed' = [owed EXCEPT ![m] = <<>>]
  <2> PICK e \in Events, c \in Conns : e = it.e /\ c = it.to
    BY DEF Item
  <2> PICK old \in Seq(Events) : old = outbound[c]
    BY <1>0
  <2> PICK new \in Seq(Events) : new = Append(old, e)
    BY AppendProperties
  <2>1. /\ DOMAIN old = 1..Len(old) /\ DOMAIN new = (1..Len(old)) \cup {Len(old) + 1} /\ Len(old) \in Nat
        /\ \A i \in DOMAIN old : new[i] = old[i]
    BY Appended
  <2>2. outbound'[c] = new /\ \A d \in Conns \ {c} : outbound'[d] = outbound[d]
    BY <1>0, <1>8
  <2>3. ~OwesFan(owed'[m])
    BY <1>0, <1>8 DEF OwesFan
  <2>4. NothingFollows(new)
    <3>1. ASSUME NEW i \in DOMAIN new, NEW j \in DOMAIN new, i < j PROVE new[i].t # "fanout"
      <4>1. i \in DOMAIN old /\ new[i] = old[i]
        BY <2>1, <3>1
      <4> QED BY <1>6, <4>1 DEF HasFan
    <3> QED BY <3>1 DEF NothingFollows
  <2>5. \A d \in Conns : NothingFollows(outbound'[d])
    BY <2>2, <2>4 DEF FanInv
  <2> QED BY <1>0, <1>4, <1>5, <2>3, <2>5 DEF FanInv
<1> QED BY <1>1, <1>7, <1>8 DEF OneSent

LEMMA TakenKeepsFan ==
  ASSUME WireInv, FanInv, NEW c \in Conns, Taken(c), OverKept, AllOver => AllOver' PROVE FanInv'
<1>0. outbound \in [Conns -> Seq(Events)] /\ slice \in Slices /\ owed' = owed
  BY DEF WireInv, WireType, QueueTypes, Taken
<1> PICK old \in Seq(Events) : old = outbound[c]
  BY <1>0
<1>1. old # <<>> /\ outbound' = [outbound EXCEPT ![c] = Tail(old)]
      /\ slice' = IF link[c] = "up" THEN Reduce(slice, Head(old)) ELSE slice
  BY DEF Taken
<1>2. /\ Tail(old) \in Seq(Events) /\ Head(old) = old[1] /\ old[1] \in Events /\ 1 \in DOMAIN old
      /\ Len(old) \in Nat /\ DOMAIN old = 1..Len(old)
  BY <1>1, TailOf
<1>3. DOMAIN Tail(old) = 1..(Len(old) - 1) /\ \A i \in DOMAIN Tail(old) : i + 1 \in DOMAIN old /\ Tail(old)[i] = old[i + 1]
  BY <1>1, TailOf
<1> PICK new \in Seq(Events) : new = Tail(old)
  BY <1>2
<1> PICK e \in Events : e = old[1]
  BY <1>2
<1>4. HasFan(new) => HasFan(old)
  BY <1>3 DEF HasFan
<1>5. NothingFollows(new)
  <2>1. NothingFollows(old)
    BY DEF FanInv
  <2>2. ASSUME NEW i \in DOMAIN new, NEW j \in DOMAIN new, i < j, new[i].t = "fanout" PROVE new[j].t \in {"stop", "history"}
    <3>1. i + 1 \in DOMAIN old /\ j + 1 \in DOMAIN old /\ new[i] = old[i + 1] /\ new[j] = old[j + 1]
      BY <1>3
    <3>2. i + 1 < j + 1
      BY <1>2, <1>3, <2>2
    <3> QED BY <2>1, <2>2, <3>1, <3>2 DEF NothingFollows
  <2> QED BY <2>2 DEF NothingFollows
<1>6. outbound'[c] = new /\ \A d \in Conns \ {c} : outbound'[d] = outbound[d]
  BY <1>0, <1>1
<1>7. NoFanQueued => NoFanQueued'
  BY <1>4, <1>6 DEF NoFanQueued
<1>8. \A d \in Conns : NothingFollows(outbound'[d])
  BY <1>5, <1>6 DEF FanInv
<1>9. slice'.over => slice.over \/ ~NoFanQueued
  <2>1. Reduce(slice, e).over = (slice.over \/ e.t = "fanout")
    BY <1>0, Reduced
  <2>2. e.t = "fanout" => ~NoFanQueued
    BY <1>2 DEF NoFanQueued, HasFan
  <2> QED BY <1>1, <1>2, <2>1, <2>2
<1>10. slice'.over \/ ~NoFanQueued' \/ (\E m \in Replies : OwesFan(owed'[m])) => AllOver'
  BY <1>0, <1>7, <1>9 DEF FanInv
<1>11. \A m \in Replies : pc'[m] = "over" => LeftToSay(m)'
  BY <1>0 DEF FanInv, LeftToSay, OverKept
<1> QED BY <1>0, <1>7, <1>8, <1>10, <1>11 DEF FanInv

LEMMA FanKeeps == ReplyInv /\ VerdictInv /\ WireInv /\ ActiveInv /\ FanInv /\ [Next]_vars => FanInv'
<1> SUFFICES ASSUME ReplyInv, VerdictInv, WireInv, ActiveInv, FanInv, [Next]_vars PROVE FanInv'
  OBVIOUS
<1>0. (AllOver => AllOver') /\ Replies \subseteq Producers /\ DOMAIN owed = Producers
  BY AllStaysOver, ReplyAssumption DEF ReplyInv, ReplyType
<1>1. CASE UNCHANGED <<outbound, owed, slice>> /\ OverKept
  BY <1>0, <1>1 DEF FanInv, NoFanQueued, LeftToSay, OverKept
<1>2. ASSUME NEW m \in Replies, Drops(m), OverKept PROVE FanInv'
  <2>1. \A n \in Replies : owed'[n] = IF n = m THEN <<>> ELSE owed[n]
    BY <1>0, <1>2 DEF Drops
  <2>2. outbound' = outbound /\ slice' = slice
    BY <1>2 DEF Drops
  <2>3. ~OwesFan(<<>>)
    BY DEF OwesFan
  <2>4. \A n \in Replies : OwesFan(owed'[n]) => OwesFan(owed[n])
    BY <2>1, <2>3
  <2>5. \A n \in Replies : pc'[n] = "over" => LeftToSay(n)'
    BY <1>2, <2>1 DEF OverKept, FanInv, LeftToSay
  <2> QED BY <1>0, <2>2, <2>4, <2>5 DEF FanInv, NoFanQueued
<1> QED BY <1>0, <1>1, <1>2, PlainKeepsFan, SingleKeepsFan, TakenKeepsFan, StepFans

\* _on_agent_done announces the end of the turn once, when every reply has left its task,
\* and nothing that a reply sends comes after it.
THEOREM FanInvariance == Spec => []FanInv
<1>1. Init => FanInv
  <2> SUFFICES ASSUME Init PROVE FanInv
    OBVIOUS
  <2>1. /\ \A c \in Conns : outbound[c] = <<>> /\ ~HasFan(outbound[c]) /\ NothingFollows(outbound[c])
        /\ \A m \in Replies : owed[m] = <<>> /\ ~OwesFan(owed[m]) /\ pc[m] # "over"
        /\ ~slice.over
    BY ReplyAssumption DEF Init, HasFan, OwesFan, NothingFollows, EmptySlice
  <2> QED BY <2>1 DEF FanInv, NoFanQueued
<1>2. ReplyInv /\ VerdictInv /\ WireInv /\ ActiveInv /\ FanInv /\ [Next]_vars => FanInv'
  BY FanKeeps
<1> QED BY <1>1, <1>2, ReplyInvariance, VerdictInvariance, WireInvariance, ActiveInvariance, PTL DEF Spec

\* When the browser is told that the turn is done, it is, and nothing but the end of the
\* connection or an answer to a join is queued behind.
THEOREM FanOutEnds == Spec => []FanOutLast
BY ActiveInvariance, FanInvariance, FanShows, PTL

-----------------------------------------------------------------------------
(* What the browser shows                                                  *)

About(e, m) == e.t \in {"created", "chunk", "done", "cancelled", "error"} /\ e.m = m

\* An event leaves the bubbles that it is not about; a final one, or an error, ends the
\* streaming of its own, and a bubble that does not stream takes no error.
LEMMA ReducedAbout ==
  ASSUME NEW s \in Slices, NEW e \in Events, NEW m \in Replies, NEW r, r = Reduce(s, e)
  PROVE  /\ e.t # "history" /\ ~About(e, m) => r.content[m] = s.content[m] /\ (m \in r.streaming <=> m \in s.streaming)
         /\ e.t \in {"done", "cancelled"} /\ e.m = m => m \notin r.streaming /\ (m \in s.known => r.content[m] = e.content)
         /\ e.t = "error" /\ e.m = m => m \notin r.streaming /\ (m \notin s.streaming => r = s)
<1>1. /\ s.content \in [Replies -> Contents] /\ s.known \subseteq Replies /\ s.streaming \subseteq Replies
  BY DEF Slices
<1>2. \A k, c, st, o : Made(k, c, st, o).content = c /\ Made(k, c, st, o).streaming = st
  BY DEF Made
<1>3. CASE e.t = "history"
  BY <1>3
<1>4. CASE e.t = "created"
  <2>1. e.m \in Replies /\ r = ApplyCreated(s, e)
    BY <1>4, EventKinds DEF Reduce
  <2>2. CASE e.m \in s.known
    <3>1. r = s
      BY <2>1, <2>2 DEF ApplyCreated
    <3> QED BY <1>4, <3>1
  <2>3. CASE e.m \notin s.known
    <3> PICK k, c, st : k = s.known \cup {e.m} /\ c = [s.content EXCEPT ![e.m] = Blank] /\ st = s.streaming \cup {e.m}
      OBVIOUS
    <3>1. ApplyCreated(s, e) = Setting(s, k, c, st)
      BY <2>3, Zenon DEF ApplyCreated, Setting
    <3>2. r = Made(k, c, st, s.over)
      BY <2>1, <3>1, SettingMade
    <3>3. r.content = c /\ r.streaming = st
      BY <1>2, <3>2
    <3>4. ~About(e, m) => c[m] = s.content[m] /\ (m \in st <=> m \in s.streaming)
      BY <1>1, <1>4 DEF About
    <3> QED BY <1>4, <3>3, <3>4
  <2> QED BY <2>2, <2>3
<1>5. CASE e.t = "chunk"
  <2>1. e.m \in Replies /\ r = ApplyChunk(s, e)
    BY <1>5, EventKinds DEF Reduce
  <2>2. CASE e.m \notin s.known
    <3>1. r = s
      BY <2>1, <2>2 DEF ApplyChunk
    <3> QED BY <1>5, <3>1
  <2>3. CASE e.m \in s.known
    <3> PICK c : c = [s.content EXCEPT ![e.m] = Text(@.parts \cup {e.n}, @.note)]
      OBVIOUS
    <3>1. r = Made(s.known, c, s.streaming, s.over)
      BY <2>1, <2>3, SliceMade DEF ApplyChunk
    <3>2. r.content = c /\ r.streaming = s.streaming
      BY <1>2, <3>1
    <3>3. ~About(e, m) => c[m] = s.content[m]
      BY <1>1, <1>5 DEF About
    <3> QED BY <1>5, <3>2, <3>3
  <2> QED BY <2>2, <2>3
<1>6. CASE e.t \in {"done", "cancelled"}
  <2>1. e.m \in Replies /\ r = ApplyFinal(s, e)
    BY <1>6, EventKinds DEF Reduce
  <2> PICK c : c = IF e.m \in s.known THEN [s.content EXCEPT ![e.m] = e.content] ELSE s.content
    OBVIOUS
  <2>2. r = Made(s.known, c, s.streaming \ {e.m}, s.over)
    BY <2>1, SliceMade DEF ApplyFinal
  <2>3. r.content = c /\ r.streaming = s.streaming \ {e.m}
    BY <1>2, <2>2
  <2>4. (~About(e, m) => c[m] = s.content[m] /\ e.m # m) /\ (e.m = m /\ m \in s.known => c[m] = e.content)
    BY <1>1, <1>6 DEF About
  <2> QED BY <1>6, <2>3, <2>4
<1>7. CASE e.t = "error"
  <2>1. e.m \in Replies /\ r = ApplyError(s, e)
    BY <1>7, EventKinds DEF Reduce
  <2>2. CASE e.m \notin s.streaming
    <3>1. r = s
      BY <2>1, <2>2 DEF ApplyError
    <3> QED BY <1>7, <2>2, <3>1
  <2>3. CASE e.m \in s.streaming
    <3> PICK c : c = IF e.m \in s.known THEN [s.content EXCEPT ![e.m] = Text(s.content[e.m].parts, "error")] ELSE s.content
      OBVIOUS
    <3>1. r = Made(s.known, c, s.streaming \ {e.m}, s.over)
      BY <2>1, <2>3, SliceMade DEF ApplyError
    <3>2. r.content = c /\ r.streaming = s.streaming \ {e.m}
      BY <1>2, <3>1
    <3>3. ~About(e, m) => c[m] = s.content[m] /\ e.m # m
      BY <1>1, <1>7 DEF About
    <3> QED BY <1>7, <2>3, <3>2, <3>3
  <2> QED BY <2>2, <2>3
<1>8. CASE e.t = "fanout"
  <2>1. PICK o : r = Made(s.known, s.content, s.streaming, o)
    <3>1. r = Made(s.known, s.content, s.streaming, TRUE)
      BY <1>8, SliceMade, Zenon DEF Reduce
    <3> QED BY <3>1, Zenon
  <2>2. r.content = s.content /\ r.streaming = s.streaming
    BY <1>2, <2>1
  <2> QED BY <1>8, <2>2
<1>9. CASE e.t = "stop"
  <2>1. r = s
    BY <1>9 DEF Reduce
  <2> QED BY <1>9, <2>1
<1> QED BY <1>3, <1>4, <1>5, <1>6, <1>7, <1>8, <1>9, EventKinds

\* The browser is still on the connection it sent the message over
Watched == origin \in Conns /\ link[origin] = "up"

\* The queue of that connection has the history first, then the bubbles, then what the
\* replies send.
Rank(e) == IF e.t = "history" THEN 0 ELSE IF e.t = "created" THEN 1 ELSE 2
InOrder(q) == \A i, j \in DOMAIN q : i < j => Rank(q[i]) <= Rank(q[j])

Announces(e, m) == e.t = "created" /\ e.m = m

\* The bubble of a reply is there to stay, or on its way
Announced(m) ==
  \/ m \in slice.known /\ \A i \in DOMAIN outbound[origin] : outbound[origin][i].t # "history"
  \/ \E i \in DOMAIN outbound[origin] : Announces(outbound[origin][i], m)
  \/ \E i \in DOMAIN owed[origin] : owed[origin][i].to = origin /\ Announces(owed[origin][i].e, m)

OrderInv ==
  /\ origin = NoConn => \A c \in Conns : \A i \in DOMAIN outbound[c] : outbound[c][i].t \in {"history", "stop"}
  /\ Watched => /\ InOrder(outbound[origin])
                /\ ~Begun => \A i \in DOMAIN outbound[origin] : Rank(outbound[origin][i]) <= 1
                /\ \A m \in asked : Announced(m)

-----------------------------------------------------------------------------
\* The message is sent once, and its connection does not come back
LEMMA StepOrigin ==
  ASSUME ReplyInv, WireInv, [Next]_vars
  PROVE  \/ origin' = origin /\ asked' = asked /\ (Watched' => Watched)
         \/ \E c \in Conns : SendMessage(c)
<1> USE DEF wsVars, browserVars, turn, taskVars
<1>0. /\ origin \in Conns => reader[origin] # "off"
      /\ \A c \in Conns : link[c] = "none" => reader[c] = "off"
      /\ link \in [Conns -> {"none", "up", "down"}]
  BY DEF WireInv, WireType, LinkInv
<1>1. ASSUME UNCHANGED <<origin, asked, link>> PROVE origin' = origin /\ asked' = asked /\ (Watched' => Watched)
  BY <1>1 DEF Watched
<1>2. ASSUME NEW c \in Conns, Connect(c) PROVE origin' = origin /\ asked' = asked /\ (Watched' => Watched)
  BY <1>0, <1>2 DEF Connect, Accept, Watched
<1>3. ASSUME NEW c \in Conns, Disconnect(c) PROVE origin' = origin /\ asked' = asked /\ (Watched' => Watched)
  BY <1>0, <1>3 DEF Disconnect, Lose, Watched
<1>4. ASSUME NEW c \in Conns, NEW m \in Replies, AskCancel(c, m) PROVE UNCHANGED <<origin, asked, link>>
  BY <1>4 DEF AskCancel
<1>5. CASE Environment
  BY <1>1, <1>2, <1>3, <1>4, <1>5 DEF Environment
<1>6. CASE System
  <2>1. ASSUME NEW c \in Conns, Deliver(c) \/ Handler(c) PROVE UNCHANGED <<origin, asked, link>>
    BY <2>1 DEF Handler, Deliver, Join, ReadHistory, Answer, Return, StartReplies, FireCancel, Close, Leave
  <2>2. ASSUME NEW m \in Replies, Reply(m) PROVE UNCHANGED <<origin, asked, link>>
    BY <2>2 DEF Reply, Begin, NotLoaded, Prepared, TextChunk, StreamEnds, Coordinate, Reread, Persist, Report, Trace,
                LeaveTask, Silent, Quiet
  <2>3. ASSUME NEW p \in Producers, PutWaiting(p) PROVE UNCHANGED <<origin, asked, link>>
    BY <2>3 DEF PutWaiting
  <2> QED BY <1>1, <1>6, <2>1, <2>2, <2>3 DEF System
<1>7. CASE UNCHANGED vars
  BY <1>1, <1>7 DEF vars
<1> QED BY <1>5, <1>6, <1>7 DEF Next

\* What is sent to the origin while the browser is on it: bubbles before the replies are
\* started, and after that only what the replies send
LEMMA SentToOrigin ==
  ASSUME ReplyInv, WireInv, WireInv', origin' = origin, Watched', NEW p \in Producers, p \in Replies => pc[p] # "none",
         NEW it, MayOwe(p, it)', it.to = origin
  PROVE  /\ p \in Conns => p = origin /\ it.e.t = "created" /\ ~Begun'
         /\ p \in Replies => Begun /\ it.e.t \in FromReply /\ (it.e.t # "fanout" => it.e.m = p)
<1>1. CASE p \in Conns
  <2>1. p = origin /\ ((it.e.t = "created" /\ reader'[p] = "creating") \/ (it.e.t = "stop" /\ closed'[p]))
    BY <1>1 DEF MayOwe
  <2>2. ~closed'[p]
    <3>1. LinkInv' /\ link'[p] = "up"
      BY <2>1 DEF Watched, WireInv
    <3> QED BY <1>1, <3>1 DEF LinkInv
  <2> QED BY <1>1, <2>1, <2>2, ReplyAssumption DEF Begun
<1>2. CASE p \in Replies
  <2>1. p \notin Conns
    BY <1>2, ReplyAssumption
  <2> QED BY <1>2, <2>1, NotBegun DEF MayOwe
<1> QED BY <1>1, <1>2, ReplyAssumption

\* With the browser on it the origin owes nothing once the replies are started
LEMMA OriginOwesNothing == ASSUME WireInv, Watched, Begun PROVE owed[origin] = <<>>
<1>1. origin \in Producers /\ origin \in Conns
  BY WsAssumption DEF Watched
<1>2. PICK s \in Seq(Item(Events)) : s = owed[origin]
  BY <1>1, OwedIsItem
<1>3. ASSUME NEW i \in DOMAIN s PROVE FALSE
  <2>1. MayOwe(origin, s[i])
    BY <1>1, <1>2 DEF WireInv, OwedInv
  <2>2. ~closed[origin]
    BY <1>1 DEF WireInv, LinkInv, Watched
  <2> QED BY <1>1, <2>1, <2>2 DEF MayOwe, Begun
<1>4. Len(s) \in Nat /\ DOMAIN s = 1..Len(s)
  BY LenProperties
<1>5. Len(s) = 0
  <2>1. 1 \notin DOMAIN s
    BY <1>3
  <2> QED BY <1>4, <2>1
<1>6. s = <<>>
  BY <1>5, EmptySeq
<1> QED BY <1>2, <1>6

\* What waits to be announced is in the queue or waits again
LEMMA GetsThrough ==
  ASSUME WireInv, Watched, NEW p, NEW it, GotThrough(p, it), it.to = origin, ~it.room, it.e.t # "chunk"
  PROVE  \/ \E i \in DOMAIN outbound'[origin] : i > Len(outbound[origin]) /\ outbound'[origin][i] = it.e
         \/ \E i \in DOMAIN owed'[p] : owed'[p][i].to = origin /\ owed'[p][i].e = it.e
<1>1. ~Skipped(it)
  BY DEF Skipped, Watched, WireInv, LinkInv
<1> QED BY <1>1 DEF GotThrough, Droppable

\* The announcement of the turn
LEMMA MessageKeepsOrder ==
  ASSUME ReplyInv, VerdictInv, WireInv, WireInv', OrderInv, NEW c \in Conns, SendMessage(c) PROVE OrderInv'
<1> PICK items \in Seq(Item(Events)) :
      /\ Produced(c, items) /\ asked' \subseteq Replies
      /\ \A i \in DOMAIN items : \E m \in asked' : items[i] = Direct(c, CreatedEvent(m))
      /\ \A m \in asked' : \E i \in DOMAIN items : items[i] = Direct(c, CreatedEvent(m))
  BY SendMessageSends
<1>0. /\ origin = NoConn /\ origin' = c /\ NoConn \notin Conns /\ link' = link /\ link[c] = "up" /\ QueueTypes
      /\ DOMAIN reader = Conns /\ reader' = [reader EXCEPT ![c] = "creating"]
  BY WsAssumption DEF SendMessage, NoConn, WireInv, WireType, ReplyInv, ReplyType
<1>1. \A i \in DOMAIN outbound[c] : outbound[c][i].t = "history"
  BY <1>0 DEF OrderInv, WireInv, StopInv, LinkInv
<1>2. \A m : /\ Direct(c, CreatedEvent(m)).to = c /\ Direct(c, CreatedEvent(m)).e = CreatedEvent(m)
             /\ ~Direct(c, CreatedEvent(m)).room /\ ~Direct(c, CreatedEvent(m)).waits
  BY DEF Direct
<1>3. \A m : Announces(CreatedEvent(m), m) /\ CreatedEvent(m).t = "created"
  BY DEF Announces, CreatedEvent
<1>4. ASSUME NEW i \in DOMAIN outbound'[c]
      PROVE  \/ i > Len(outbound[c]) /\ outbound'[c][i].t = "created"
             \/ i <= Len(outbound[c]) /\ outbound'[c][i].t = "history"
  <2>1. CASE \E j \in DOMAIN items : outbound'[c][i] = items[j].e /\ i > Len(outbound[c])
    BY <1>2, <1>3, <2>1
  <2>2. CASE i \in DOMAIN outbound[c] /\ i <= Len(outbound[c]) /\ outbound'[c][i] = outbound[c][i]
    BY <1>1, <2>2
  <2> QED BY <1>0, <2>1, <2>2, OldOrNew
<1>5. Len(outbound[c]) \in Nat /\ outbound'[c] \in Seq(Events)
  BY <1>0, LenProperties DEF QueueTypes, Produced
<1>6. \A i \in DOMAIN outbound'[c] : i \in Nat
  <2> PICK q \in Seq(Events) : q = outbound'[c]
    BY <1>5
  <2>1. DOMAIN q = 1..Len(q) /\ Len(q) \in Nat
    BY LenProperties
  <2> QED BY <2>1
<1>7. InOrder(outbound'[c])
  BY <1>4, <1>5, <1>6 DEF InOrder, Rank
<1>8. \A i \in DOMAIN outbound'[c] : Rank(outbound'[c][i]) <= 1
  BY <1>4 DEF Rank
<1>9. ASSUME NEW m \in asked' PROVE Announced(m)'
  <2>1. PICK j \in DOMAIN items : items[j] = Direct(c, CreatedEvent(m))
    OBVIOUS
  <2> PICK it : it = items[j]
    OBVIOUS
  <2>2. it.to = c /\ it.e = CreatedEvent(m) /\ ~it.room /\ ~it.waits
    BY <1>2, <2>1
  <2>3. GotThrough(c, it)
    BY DEF Produced
  <2>4. ~Skipped(it)
    <3>1. ~closed[c]
      BY <1>0 DEF WireInv, LinkInv
    <3> QED BY <2>2, <3>1 DEF Skipped
  <2>5. \/ \E i \in DOMAIN outbound'[c] : outbound'[c][i] = CreatedEvent(m)
        \/ \E i \in DOMAIN owed'[c] : owed'[c][i].to = c /\ owed'[c][i].e = CreatedEvent(m)
    BY <1>3, <2>2, <2>3, <2>4 DEF GotThrough, Droppable
  <2> QED BY <1>0, <1>3, <2>5 DEF Announced
<1> QED BY <1>0, <1>7, <1>8, <1>9 DEF OrderInv

LEMMA SendsKeepOrder ==
  ASSUME ReplyInv, WireInv, WireInv', OrderInv, NEW p \in Producers, Sends(p),
         origin' = origin, asked' = asked, Watched' => Watched, Begun => Begun'
  PROVE  OrderInv'
<1> PICK items \in Seq(Item(Events)) :
      /\ Produced(p, items) /\ \A i \in DOMAIN items : MayOwe(p, items[i])'
      /\ ~Free(p) /\ p \in Replies \cup {origin} => items = owed[p]
  BY DEF Sends
<1>0. QueueTypes /\ slice' = slice /\ (p \in Replies => pc[p] # "none") /\ (p \in Conns \/ p \in Replies)
      /\ Conns \cap Replies = {} /\ Conns \subseteq Producers /\ NoConn \notin Conns
  BY ReplyAssumption, WsAssumption DEF Sends, WireInv, WireType, NoConn
<1>1. ASSUME origin = NoConn, NEW c \in Conns, NEW i \in DOMAIN outbound'[c] PROVE outbound'[c][i].t \in {"history", "stop"}
  <2>1. p \in Conns
    BY <1>0, <1>1 DEF ReplyInv, StartedOnce
  <2>2. ASSUME NEW j \in DOMAIN items PROVE items[j].e.t \in {"history", "stop"}
    <3>1. MayOwe(p, items[j])'
      OBVIOUS
    <3>2. reader'[p] # "creating"
      <4>1. LinkInv' /\ p # origin'
        BY <1>0, <1>1, <2>1 DEF WireInv
      <4> QED BY <2>1, <4>1 DEF LinkInv
    <3> QED BY <2>1, <3>1, <3>2 DEF MayOwe
  <2> QED BY <1>0, <1>1, <2>2, OldOrNew DEF OrderInv
<1>2. ASSUME Watched'
      PROVE  /\ InOrder(outbound'[origin])
             /\ ~Begun' => \A i \in DOMAIN outbound'[origin] : Rank(outbound'[origin][i]) <= 1
             /\ \A m \in asked : Announced(m)'
  <2>0. Watched /\ origin \in Conns
    BY <1>2 DEF Watched
  <2>1. ASSUME NEW j \in DOMAIN items, items[j].to = origin
        PROVE  /\ p \in Conns => p = origin /\ items[j].e.t = "created" /\ ~Begun'
               /\ p \in Replies => Begun /\ items[j].e.t \in FromReply
    <3>1. MayOwe(p, items[j])'
      OBVIOUS
    <3> QED BY <1>0, <1>2, <2>1, <3>1, SentToOrigin
  <2>2. ASSUME NEW i \in DOMAIN outbound'[origin]
        PROVE  \/ /\ i > Len(outbound[origin])
                  /\ \/ p = origin /\ outbound'[origin][i].t = "created" /\ ~Begun'
                     \/ Begun /\ outbound'[origin][i].t \in FromReply
               \/ i \in DOMAIN outbound[origin] /\ i <= Len(outbound[origin]) /\ outbound'[origin][i] = outbound[origin][i]
    BY <1>0, <2>0, <2>1, OldOrNew
  <2>3. \A i \in DOMAIN outbound[origin] : Rank(outbound[origin][i]) <= IF Begun' THEN 2 ELSE 1
    BY <2>0 DEF OrderInv, Rank
  <2>4. /\ Len(outbound[origin]) \in Nat /\ \A i \in DOMAIN outbound[origin] : Rank(outbound[origin][i]) \in 0..2
        /\ \A i \in DOMAIN outbound'[origin] : i \in Nat
    <3> PICK q \in Seq(Events), r \in Seq(Events) : q = outbound[origin] /\ r = outbound'[origin]
      BY <1>0, <2>0 DEF QueueTypes, Produced
    <3>1. DOMAIN q = 1..Len(q) /\ Len(q) \in Nat /\ DOMAIN r = 1..Len(r) /\ Len(r) \in Nat
      BY LenProperties
    <3> QED BY <3>1 DEF Rank
  <2>5. ASSUME NEW i \in DOMAIN outbound'[origin], i > Len(outbound[origin])
        PROVE  Rank(outbound'[origin][i]) = IF Begun' THEN 2 ELSE 1
    <3>1. \/ outbound'[origin][i].t = "created" /\ ~Begun'
          \/ Begun /\ outbound'[origin][i].t \in FromReply
      BY <2>2, <2>4, <2>5
    <3> QED BY <3>1 DEF Rank, FromReply
  <2>6. ASSUME NEW i \in DOMAIN outbound'[origin], NEW j \in DOMAIN outbound'[origin], i < j
        PROVE  Rank(outbound'[origin][i]) <= Rank(outbound'[origin][j])
    <3>1. CASE i > Len(outbound[origin])
      BY <2>4, <2>5, <2>6, <3>1
    <3>2. CASE j <= Len(outbound[origin])
      <4>1. /\ i \in DOMAIN outbound[origin] /\ outbound'[origin][i] = outbound[origin][i]
            /\ j \in DOMAIN outbound[origin] /\ outbound'[origin][j] = outbound[origin][j]
        BY <2>2, <2>4, <2>6, <3>2
      <4> QED BY <2>0, <2>6, <4>1 DEF OrderInv, InOrder
    <3>3. CASE i <= Len(outbound[origin]) /\ j > Len(outbound[origin])
      <4>1. i \in DOMAIN outbound[origin] /\ outbound'[origin][i] = outbound[origin][i]
        BY <2>2, <2>4, <3>3
      <4> QED BY <2>3, <2>5, <3>3, <4>1
    <3> QED BY <2>4, <3>1, <3>2, <3>3
  <2>7. ASSUME ~Begun', NEW i \in DOMAIN outbound'[origin] PROVE Rank(outbound'[origin][i]) <= 1
    BY <2>2, <2>3, <2>5, <2>7
  <2>8. ASSUME NEW m \in asked PROVE Announced(m)'
    <3>0. Announced(m) /\ outbound'[origin] \in Seq(Events)
      BY <1>0, <2>0 DEF OrderInv, Produced
    <3>1. CASE m \in slice.known /\ \A i \in DOMAIN outbound[origin] : outbound[origin][i].t # "history"
      <4>1. \A i \in DOMAIN outbound'[origin] : outbound'[origin][i].t # "history"
        BY <2>2, <3>1 DEF FromReply
      <4> QED BY <1>0, <3>1, <4>1 DEF Announced
    <3>2. ASSUME NEW i \in DOMAIN outbound[origin], Announces(outbound[origin][i], m) PROVE Announced(m)'
      <4>1. outbound'[origin][i] = outbound[origin][i]
        BY <2>0, <3>2 DEF Produced
      <4>2. i \in DOMAIN outbound'[origin]
        <5> PICK q \in Seq(Events), r \in Seq(Events) : q = outbound[origin] /\ r = outbound'[origin]
          BY <1>0, <2>0 DEF QueueTypes, Produced
        <5>1. DOMAIN q = 1..Len(q) /\ Len(q) \in Nat /\ DOMAIN r = 1..Len(r) /\ Len(r) \in Nat /\ Len(q) <= Len(r)
          BY <2>0, LenProperties DEF Produced
        <5> QED BY <3>2, <5>1
      <4> QED BY <3>2, <4>1, <4>2 DEF Announced
    <3>3. ASSUME NEW i \in DOMAIN owed[origin], owed[origin][i].to = origin, Announces(owed[origin][i].e, m) PROVE Announced(m)'
      <4>1. CASE p # origin
        <5>1. owed'[origin] = owed[origin]
          BY <1>0, <2>0, <4>1 DEF Produced
        <5> QED BY <3>3, <5>1 DEF Announced
      <4>2. CASE p = origin
        <5>1. items = owed[origin]
          <6>1. ~Free(p)
            BY <3>3, <4>2 DEF Free
          <6> QED BY <4>2, <6>1
        <5> PICK it : it = items[i]
          OBVIOUS
        <5>2. it.to = origin /\ Announces(it.e, m) /\ ~it.room /\ it.e.t # "chunk"
          <6>1. MayOwe(p, it)
            BY <3>3, <4>2, <5>1 DEF WireInv, OwedInv
          <6> QED BY <3>3, <5>1, <6>1 DEF MayOwe, Announces
        <5>3. GotThrough(p, it)
          BY <3>3, <5>1 DEF Produced
        <5>4. \/ \E k \in DOMAIN outbound'[origin] : outbound'[origin][k] = it.e
              \/ \E k \in DOMAIN owed'[p] : owed'[p][k].to = origin /\ owed'[p][k].e = it.e
          BY <2>0, <5>2, <5>3, GetsThrough
        <5> QED BY <4>2, <5>2, <5>4 DEF Announced
      <4> QED BY <4>1, <4>2
    <3> QED BY <3>0, <3>1, <3>2, <3>3 DEF Announced
  <2> QED BY <2>6, <2>7, <2>8 DEF InOrder
<1> QED BY <1>1, <1>2 DEF OrderInv

LEMMA TakenKeepsOrder ==
  ASSUME WireInv, OrderInv, NEW c \in Conns, Taken(c),
         origin' = origin, asked' = asked, Watched' => Watched, Begun <=> Begun'
  PROVE  OrderInv'
<1>0. /\ outbound \in [Conns -> Seq(Events)] /\ slice \in Slices /\ owed' = owed /\ outbound[c] # <<>>
      /\ NoConn \notin Conns
  BY WsAssumption DEF WireInv, WireType, QueueTypes, Taken, NoConn
<1> PICK old \in Seq(Events) : old = outbound[c]
  BY <1>0
<1>1. old # <<>> /\ outbound' = [outbound EXCEPT ![c] = Tail(old)]
      /\ slice' = IF link[c] = "up" THEN Reduce(slice, Head(old)) ELSE slice
  BY DEF Taken
<1>2. /\ Tail(old) \in Seq(Events) /\ Head(old) = old[1] /\ old[1] \in Events /\ 1 \in DOMAIN old
      /\ Len(old) \in Nat /\ DOMAIN old = 1..Len(old)
  BY <1>1, TailOf
<1>3. DOMAIN Tail(old) = 1..(Len(old) - 1) /\ \A i \in DOMAIN Tail(old) : i + 1 \in DOMAIN old /\ Tail(old)[i] = old[i + 1]
  BY <1>1, TailOf
<1> PICK new \in Seq(Events) : new = Tail(old)
  BY <1>2
<1> PICK e \in Events : e = old[1]
  BY <1>2
<1>4. outbound'[c] = new /\ \A d \in Conns \ {c} : outbound'[d] = outbound[d]
  BY <1>0, <1>1
<1>5. origin = NoConn => \A d \in Conns : \A i \in DOMAIN outbound'[d] : outbound'[d][i].t \in {"history", "stop"}
  <2> SUFFICES ASSUME origin = NoConn, NEW d \in Conns, NEW i \in DOMAIN outbound'[d]
               PROVE  outbound'[d][i].t \in {"history", "stop"}
    OBVIOUS
  <2>1. \E k \in DOMAIN outbound[d] : outbound'[d][i] = outbound[d][k]
    <3>1. CASE d = c
      <4>1. i + 1 \in DOMAIN old /\ new[i] = old[i + 1]
        BY <1>3, <1>4, <3>1
      <4> QED BY <1>4, <3>1, <4>1
    <3>2. CASE d # c
      BY <1>4, <3>2
    <3> QED BY <3>1, <3>2
  <2> QED BY <2>1 DEF OrderInv
<1>6. ASSUME Watched'
      PROVE  /\ InOrder(outbound'[origin])
             /\ ~Begun' => \A i \in DOMAIN outbound'[origin] : Rank(outbound'[origin][i]) <= 1
             /\ \A m \in asked : Announced(m)'
  <2>0. /\ origin \in Conns /\ link[origin] = "up" /\ InOrder(outbound[origin])
        /\ ~Begun => \A i \in DOMAIN outbound[origin] : Rank(outbound[origin][i]) <= 1
        /\ \A m \in asked : Announced(m)
    BY <1>6 DEF Watched, OrderInv
  <2>1. CASE c # origin
    <3>1. outbound'[origin] = outbound[origin]
      BY <1>4, <2>0, <2>1
    <3>2. slice' = slice
      BY <1>1, <2>0, <2>1 DEF WireInv, LinkInv
    <3> QED BY <1>0, <2>0, <3>1, <3>2 DEF Announced
  <2>2. CASE c = origin
    <3>0. outbound[origin] = old /\ outbound'[origin] = new /\ slice' = Reduce(slice, e)
      BY <1>1, <1>2, <1>4, <2>0, <2>2
    <3>1. \A i \in DOMAIN new : i + 1 \in DOMAIN old /\ new[i] = old[i + 1] /\ i \in Nat
      BY <1>2, <1>3
    <3>2. InOrder(new)
      <4>1. \A i, j \in DOMAIN new : i < j => i + 1 < j + 1
        BY <3>1
      <4> QED BY <2>0, <3>0, <3>1, <4>1 DEF InOrder
    <3>3. ~Begun' => \A i \in DOMAIN new : Rank(new[i]) <= 1
      BY <2>0, <3>0, <3>1
    <3>4. \A i \in DOMAIN new : Rank(e) <= Rank(new[i])
      <4>1. \A i \in DOMAIN new : 1 < i + 1
        BY <1>2, <1>3
      <4> QED BY <1>2, <2>0, <3>0, <3>1, <4>1 DEF InOrder
    <3>5. slice'.known = CASE e.t = "history" -> DOMAIN e.rows
                           [] e.t = "created" -> slice.known \cup {e.m}
                           [] OTHER -> slice.known
      BY <1>0, <3>0, Reduced
    <3>6. ASSUME NEW m \in asked PROVE Announced(m)'
      <4>0. Announced(m)
        BY <2>0
      <4>1. CASE m \in slice.known /\ \A i \in DOMAIN old : old[i].t # "history"
        <5>1. e.t # "history" /\ \A i \in DOMAIN new : new[i].t # "history"
          BY <1>2, <3>1, <4>1
        <5>2. m \in slice'.known
          BY <3>5, <4>1, <5>1
        <5> QED BY <3>0, <5>1, <5>2 DEF Announced
      <4>2. ASSUME NEW i \in DOMAIN old, Announces(old[i], m) PROVE Announced(m)'
        <5>1. CASE i = 1
          <6>1. e.t = "created" /\ e.m = m
            BY <4>2, <5>1 DEF Announces
          <6>2. m \in slice'.known
            BY <3>5, <6>1
          <6>3. \A k \in DOMAIN new : new[k].t # "history"
            BY <3>4, <6>1 DEF Rank
          <6> QED BY <3>0, <6>2, <6>3 DEF Announced
        <5>2. CASE i # 1
          <6>1. i - 1 \in DOMAIN new /\ i - 1 + 1 = i
            BY <1>2, <1>3, <4>2, <5>2
          <6>2. new[i - 1] = old[i]
            BY <3>1, <6>1
          <6> QED BY <3>0, <4>2, <6>1, <6>2 DEF Announced
        <5> QED BY <5>1, <5>2
      <4>3. CASE \E i \in DOMAIN owed[origin] : owed[origin][i].to = origin /\ Announces(owed[origin][i].e, m)
        BY <1>0, <4>3 DEF Announced
      <4> QED BY <3>0, <4>0, <4>1, <4>2, <4>3 DEF Announced
    <3> QED BY <3>0, <3>2, <3>3, <3>6
  <2> QED BY <2>1, <2>2
<1> QED BY <1>5, <1>6 DEF OrderInv

\* A message once begun stays so, and it begins when nothing is sent
LEMMA StepBegins ==
  ASSUME ReplyInv, WireInv, [Next]_vars, origin' = origin
  PROVE  (Begun => Begun') /\ (Begun' => Begun \/ UNCHANGED <<outbound, owed, slice>>)
<1>1. CASE SameTurn
  BY <1>1 DEF SameTurn
<1>2. ASSUME NEW m \in Replies, LeaveTask(m) PROVE Begun <=> Begun'
  BY <1>2 DEF LeaveTask, Quiet, Begun, turn
<1>3. ASSUME NEW c \in Conns, StartReplies(c) PROVE ~Begun /\ UNCHANGED <<outbound, owed, slice>>
  BY <1>3 DEF StartReplies, Begun, WireInv, LinkInv, wsVars, browserVars
<1> QED BY <1>1, <1>2, <1>3, StepTurn

LEMMA OrderKeeps == ReplyInv /\ VerdictInv /\ WireInv /\ WireInv' /\ OrderInv /\ [Next]_vars => OrderInv'
<1> SUFFICES ASSUME ReplyInv, VerdictInv, WireInv, WireInv', OrderInv, [Next]_vars PROVE OrderInv'
  OBVIOUS
<1>1. ASSUME NEW c \in Conns, SendMessage(c) PROVE OrderInv'
  BY <1>1, MessageKeepsOrder
<1>2. CASE origin' = origin /\ asked' = asked /\ (Watched' => Watched)
  <2>1. (Begun => Begun') /\ (Begun' => Begun \/ UNCHANGED <<outbound, owed, slice>>)
    BY <1>2, StepBegins
  <2>2. CASE UNCHANGED <<outbound, owed, slice>>
    BY <1>2, <2>1, <2>2 DEF OrderInv, Announced
  <2>3. ASSUME NEW p \in Producers, Sends(p) PROVE OrderInv'
    BY <1>2, <2>1, <2>3, SendsKeepOrder
  <2>4. ASSUME NEW c \in Conns, Taken(c) PROVE OrderInv'
    <3>1. CASE Begun <=> Begun'
      BY <1>2, <2>4, <3>1, TakenKeepsOrder
    <3> QED BY <2>1, <2>2, <3>1
  <2>5. ASSUME NEW m \in Replies, Drops(m) PROVE OrderInv'
    <3>1. UNCHANGED <<outbound, slice>> /\ (origin \in Conns => owed'[origin] = owed[origin])
      <4>1. m \notin Conns /\ DOMAIN owed = Producers /\ Conns \subseteq Producers
        BY ReplyAssumption DEF WireInv, WireType, QueueTypes
      <4> QED BY <2>5, <4>1 DEF Drops
    <3>2. CASE Begun <=> Begun'
      BY <1>2, <3>1, <3>2 DEF OrderInv, Announced, Watched
    <3> QED BY <2>1, <2>2, <3>2
  <2> QED BY <2>2, <2>3, <2>4, <2>5, StepSends
<1> QED BY <1>1, <1>2, StepOrigin

\* As long as the browser is on the connection it sent the message over, every reply's
\* bubble is shown or announced, before anything that the reply sends.
THEOREM OrderInvariance == Spec => []OrderInv
<1>1. Init => OrderInv
  <2> SUFFICES ASSUME Init PROVE OrderInv
    OBVIOUS
  <2>1. origin \notin Conns /\ \A c \in Conns : outbound[c] = <<>>
    BY WsAssumption DEF Init, NoConn
  <2> QED BY <2>1 DEF OrderInv, Watched
<1>2. ReplyInv /\ VerdictInv /\ WireInv /\ WireInv' /\ OrderInv /\ [Next]_vars => OrderInv'
  BY OrderKeeps
<1> QED BY <1>1, <1>2, ReplyInvariance, VerdictInvariance, WireInvariance, PTL DEF Spec

-----------------------------------------------------------------------------
(* A reply whose last word has been sent                                   *)

Reporting(m) ==
  pc[m] \in {"trace", "leave", "over"} /\ verdicts[m] # <<>> /\ verdicts[m][Len(verdicts[m])] = Word(m)

\* The event that ends the bubble of m, when m ended as x and its row holds w
IsFinal(e, m, x, w) ==
  About(e, m) /\ IF x = "crashed" THEN e.t = "error" ELSE e.t \in {"done", "cancelled"} /\ e.content = w

\* An event that leaves a bubble which has ended as it is
Harmless(e, m, x, w) == e.t # "history" /\ (About(e, m) => e.t = "error" \/ IsFinal(e, m, x, w))

Shows(s, m, x, w) == m \notin s.streaming /\ (x # "crashed" => s.content[m] = w)

HarmlessAll(items, m, x, w) == \A i \in DOMAIN items : items[i].to = origin => Harmless(items[i].e, m, x, w)
OwesFinal(items, m, x, w) == \E i \in DOMAIN items : items[i].to = origin /\ IsFinal(items[i].e, m, x, w)

\* The queue ends the bubble, or the bubble has ended and the queue leaves it
Queued(s, q, m, x, w) ==
  \/ \E k \in DOMAIN q : IsFinal(q[k], m, x, w) /\ \A j \in DOMAIN q : j > k => Harmless(q[j], m, x, w)
  \/ Shows(s, m, x, w) /\ \A j \in DOMAIN q : Harmless(q[j], m, x, w)

\* Between what is owed to the browser, what is queued and what it shows there is the final
\* event, and nothing after it that undoes it
Settles(s, q, rest, m, x, w) ==
  HarmlessAll(rest, m, x, w) /\ (OwesFinal(rest, m, x, w) \/ Queued(s, q, m, x, w))

SettledInv ==
  Watched => \A m \in Replies :
    Reporting(m) => Settles(slice, outbound[origin], owed[m], m, ending[m], row[m])

LEMMA SettledShows == ReplyInv /\ VerdictInv /\ WireInv /\ SettledInv => ShownIsStored
<1> SUFFICES ASSUME ReplyInv, VerdictInv, WireInv, SettledInv, NEW m \in Replies, Reported(m), link[origin] = "up", AllSent(origin)
             PROVE  Shows(slice, m, ending[m], row[m])
  BY DEF ShownIsStored, Shows
<1>1. Reporting(m)
  BY FirstWord DEF Reported, Reporting
<1>2. origin \in Conns /\ m \in Producers
  BY HasOrigin DEF Reported
<1>3. Settles(slice, outbound[origin], owed[m], m, ending[m], row[m])
  BY <1>1, <1>2 DEF SettledInv, Watched
<1>4. owed[m] = <<>> /\ outbound[origin] = <<>> /\ DOMAIN <<>> = {}
  BY <1>2 DEF AllSent, Free
<1> QED BY <1>3, <1>4 DEF Settles, OwesFinal, Queued

\* A cancel takes the last word back, or comes when everything is said
LEMMA CancelReporting ==
  ASSUME ReplyInv, VerdictInv, NEW m \in Replies, CancelReply(m), Reporting(m)'
  PROVE  Reporting(m) /\ ending'[m] = ending[m] /\ (Free(m) \/ pc[m] = "over")
<1>1. /\ pc \in [Replies -> Places] /\ ending \in [Replies -> Ends] /\ verdicts \in [Replies -> Words]
      /\ VerdictOk(m) /\ (pc[m] = "leave" /\ ending[m] # "none" => Free(m))
  BY DEF ReplyInv, ReplyType, EndingInv, Words, VerdictInv
<1> PICK s \in Words, t \in Words : s = verdicts[m] /\ t = verdicts'[m]
  BY <1>1, MetOnce DEF Words
<1>2. \/ t = s /\ (Free(m) \/ pc[m] = "over" \/ s = <<>>)
      \/ ~Free(m) /\ pc[m] # "over" /\ s # <<>> /\ t = Front(s)
  BY <1>1 DEF CancelReply
<1>3. t # <<>> /\ t[Len(t)] = Word(m)' /\ pc'[m] \in {"trace", "leave", "over"}
  BY DEF Reporting
<1>4. Len(t) \in DOMAIN t
  <2>1. Len(t) \in Nat /\ Len(t) > 0 /\ DOMAIN t = 1..Len(t)
    BY <1>3, EmptySeq, LenProperties DEF Words
  <2> QED BY <2>1
<1>5. \A k \in DOMAIN t : k \in DOMAIN s /\ t[k] = s[k]
  BY <1>2, FrontOf
<1>6. CASE ~InFlight(m)
  <2>1. pc' = pc /\ ending' = ending /\ pc[m] \in {"none", "begin", "over"}
    BY <1>1, <1>6 DEF CancelReply, InFlight
  <2>2. pc[m] = "over" /\ t = s
    BY <1>2, <1>3, <2>1
  <2> QED BY <2>1, <2>2 DEF Reporting, Word
<1>7. CASE InFlight(m) /\ InTry(m)
  BY <1>1, <1>3, <1>7 DEF CancelReply
<1>8. CASE InFlight(m) /\ ~InTry(m)
  <2>1. pc[m] \notin {"none", "begin", "over"} /\ ending'[m] = ending[m] /\ Word(m)' = Word(m)
    BY <1>1, <1>8 DEF CancelReply, InFlight, Word
  <2>2. ASSUME \A k \in DOMAIN t : t[k] = "done", ending[m] \in {"crashed", "cancelled"} PROVE FALSE
    BY <1>3, <1>4, <2>1, <2>2 DEF Word
  <2>3. CASE pc[m] \in {"prepare", "stream", "coordinate", "reread"}
    <3>1. s = <<>>
      BY <1>1, <2>3 DEF VerdictOk
    <3> QED BY <1>2, <1>3, <3>1
  <2>4. CASE pc[m] \in {"persist", "report"}
    <3>1. ending[m] \in {"crashed", "cancelled"}
      BY <1>1, <1>8, <2>4 DEF VerdictOk, Ends, InTry
    <3>2. \A k \in DOMAIN t : t[k] = "done"
      BY <1>1, <1>5, <2>4 DEF VerdictOk
    <3> QED BY <2>2, <3>1, <3>2
  <2>5. CASE pc[m] = "trace"
    <3>1. CASE t = s /\ Free(m)
      BY <1>3, <2>1, <2>5, <3>1 DEF Reporting
    <3>2. CASE ~Free(m)
      <4>1. ending[m] \in {"crashed", "cancelled"}
        BY <1>1, <1>8, <2>5, <3>2 DEF VerdictOk, Ends, InTry
      <4>2. CASE t = Front(s) /\ s # <<>>
        <5>1. Len(s) \in Nat /\ DOMAIN t = 1..(Len(s) - 1)
          BY <4>2, FrontOf
        <5>2. \A k \in DOMAIN t : k # Len(s) /\ t[k] = s[k] /\ k \in DOMAIN s
          BY <1>5, <5>1
        <5>3. \A k \in DOMAIN t : t[k] = "done"
          BY <1>1, <2>5, <5>2 DEF VerdictOk
        <5> QED BY <2>2, <4>1, <5>3
      <4>3. CASE t = s
        <5>1. s = <<>>
          BY <1>2, <3>2, <4>3, <2>5, FrontOf
        <5> QED BY <5>1, <4>3, <1>3
      <4> QED BY <1>2, <4>2, <4>3
    <3> QED BY <1>2, <3>1, <3>2
  <2>6. CASE pc[m] = "leave"
    <3>1. ending[m] # "none"
      <4>1. s[Len(t)] # "none" /\ t[Len(t)] = s[Len(t)]
        BY <1>1, <1>4, <1>5 DEF VerdictOk
      <4> QED BY <1>3, <2>1, <4>1 DEF Word
    <3>2. Free(m) /\ t = s
      BY <1>1, <1>2, <2>6, <3>1
    <3> QED BY <1>3, <2>1, <2>6, <3>2 DEF Reporting
  <2> QED BY <1>1, <2>1, <2>3, <2>4, <2>5, <2>6 DEF Places
<1> QED BY <1>6, <1>7, <1>8

\* A reply that stays as it is
AsItIs(m) == pc'[m] = pc[m] /\ verdicts'[m] = verdicts[m] /\ ending'[m] = ending[m] /\ row'[m] = row[m]

\* A reply whose last word has been sent said it now or before, and its row and its end are
\* what they were
LEMMA StepReporting ==
  ASSUME ReplyInv, VerdictInv, WireInv, [Next]_vars, NEW m \in Replies, Reporting(m)'
  PROVE  Report(m) \/ (Reporting(m) /\ row'[m] = row[m] /\ ending'[m] = ending[m])
<1> USE DEF wsVars, browserVars, turn, taskVars
<1>0. /\ pc \in [Replies -> Places] /\ ending \in [Replies -> Ends] /\ verdicts \in [Replies -> Words]
      /\ row \in [Replies -> Contents] /\ VerdictOk(m)
  BY DEF ReplyInv, ReplyType, Words, WireInv, WireType, VerdictInv
<1>1. ASSUME AsItIs(m) PROVE Reporting(m) /\ row'[m] = row[m] /\ ending'[m] = ending[m]
  BY <1>1 DEF AsItIs, Reporting, Word
<1>2. CASE UNCHANGED taskVars
  BY <1>1, <1>2 DEF AsItIs
<1>3. ASSUME NEW c \in Conns, StartReplies(c) PROVE FALSE
  BY <1>3 DEF StartReplies, Reporting
<1>4. ASSUME NEW c \in Conns, FireCancel(c) PROVE Reporting(m) /\ row'[m] = row[m] /\ ending'[m] = ending[m]
  <2> PICK n \in Replies : n = target[c]
    BY <1>4 DEF FireCancel, ReplyInv, ReplyType
  <2>1. row' = row /\ (CancelReply(n) \/ UNCHANGED <<pc, ending, verdicts>>)
    BY <1>4 DEF FireCancel
  <2>2. CASE CancelReply(n) /\ n # m
    BY <1>1, <2>1, <2>2, MetOnce DEF AsItIs
  <2>3. CASE CancelReply(n) /\ n = m
    BY <2>1, <2>3, CancelReporting
  <2>4. CASE UNCHANGED <<pc, ending, verdicts>>
    BY <1>1, <2>1, <2>4 DEF AsItIs
  <2> QED BY <2>1, <2>2, <2>3, <2>4
<1>5. ASSUME NEW n \in Replies, n # m, Reply(n) PROVE AsItIs(m)
  <2>1. pc'[m] = pc[m]
    BY <1>0, <1>5 DEF Reply, Begin, NotLoaded, Prepared, TextChunk, StreamEnds, Coordinate, Reread, Persist, Report,
                      Trace, LeaveTask, Step
  <2>2. verdicts'[m] = verdicts[m]
    BY <1>0, <1>5 DEF Reply, Begin, NotLoaded, Prepared, TextChunk, StreamEnds, Coordinate, Reread, Persist, Report,
                      Trace, LeaveTask
  <2>3. ending'[m] = ending[m]
    BY <1>0, <1>5 DEF Reply, Begin, NotLoaded, Prepared, TextChunk, StreamEnds, Coordinate, Reread, Persist, Report,
                      Trace, LeaveTask
  <2>4. row'[m] = row[m]
    BY <1>0, <1>5 DEF Reply, Begin, NotLoaded, Prepared, TextChunk, StreamEnds, Coordinate, Reread, Persist, Report,
                      Trace, LeaveTask
  <2> QED BY <2>1, <2>2, <2>3, <2>4 DEF AsItIs
<1>6. ASSUME Reply(m) PROVE Report(m) \/ (Reporting(m) /\ row'[m] = row[m] /\ ending'[m] = ending[m])
  <2>1. CASE Begin(m) \/ TextChunk(m) \/ StreamEnds(m) \/ Persist(m) \/ Reread(m) \/ Coordinate(m)
    <3>1. pc'[m] \in {"coordinate", "prepare", "stream", "persist", "report", "reread"}
      BY <1>0, <2>1 DEF Begin, TextChunk, StreamEnds, Persist, Reread, Coordinate, Step
    <3> QED BY <3>1 DEF Reporting
  <2>2. CASE NotLoaded(m)
    <3>1. ending'[m] = "none" /\ pc[m] = "prepare" /\ verdicts' = [verdicts EXCEPT ![m] = Append(@, "error")]
      BY <2>2 DEF NotLoaded, Step, ReplyInv, EndingInv
    <3> PICK s \in Words : s = verdicts[m]
      BY <1>0
    <3>2. verdicts'[m] = Append(s, "error")
      BY <1>0, <3>1
    <3>3. verdicts'[m][Len(verdicts'[m])] = "error"
      BY <3>2, AppendedWord
    <3> QED BY <3>1, <3>3 DEF Reporting, Word
  <2>3. CASE Prepared(m)
    <3>1. pc[m] = "prepare" /\ verdicts' = verdicts
      BY <2>3 DEF Prepared, Step
    <3>2. verdicts[m] = <<>>
      BY <1>0, <3>1 DEF VerdictOk
    <3> QED BY <3>1, <3>2 DEF Reporting
  <2>4. CASE Trace(m) \/ LeaveTask(m)
    <3>1. pc[m] \in {"trace", "leave"} /\ UNCHANGED <<verdicts, ending, row>>
      BY <2>4 DEF Trace, LeaveTask, Step
    <3> QED BY <3>1 DEF Reporting, Word
  <2> QED BY <1>6, <2>1, <2>2, <2>3, <2>4 DEF Reply
<1>7. ASSUME NEW c \in Conns, Deliver(c) \/ Join(c) \/ ReadHistory(c) \/ Answer(c) \/ Return(c) \/ Close(c) \/ Leave(c)
                              \/ Connect(c) \/ Disconnect(c) \/ SendMessage(c) \/ \E n \in Replies : AskCancel(c, n)
      PROVE  UNCHANGED taskVars
  BY <1>7 DEF Deliver, Join, ReadHistory, Answer, Return, Close, Leave, Connect, Disconnect, SendMessage, AskCancel
<1>8. ASSUME NEW p \in Producers, PutWaiting(p) PROVE UNCHANGED taskVars
  BY <1>8 DEF PutWaiting
<1>9. CASE System
  <2>1. CASE \E c \in Conns : Deliver(c) \/ Handler(c)
    BY <1>2, <1>3, <1>4, <1>7, <2>1 DEF Handler
  <2>2. CASE \E n \in Replies : Reply(n)
    BY <1>1, <1>5, <1>6, <2>2
  <2>3. CASE \E p \in Producers : PutWaiting(p)
    BY <1>2, <1>8, <2>3
  <2> QED BY <1>9, <2>1, <2>2, <2>3 DEF System
<1>10. CASE Environment
  BY <1>2, <1>7, <1>10 DEF Environment
<1>11. CASE UNCHANGED vars
  BY <1>2, <1>11 DEF vars
<1> QED BY <1>9, <1>10, <1>11 DEF Next

-----------------------------------------------------------------------------
(* Sends that leave the bubble leave what ends it where it is *)

LEMMA QueuedStays ==
  ASSUME WireInv, Watched, NEW p \in Producers, NEW items, Produced(p, items), NEW m, NEW x, NEW w, NEW s,
         HarmlessAll(items, m, x, w), Queued(s, outbound[origin], m, x, w)
  PROVE  Queued(s, outbound'[origin], m, x, w)
<1>0. QueueTypes /\ origin \in Conns
  BY DEF WireInv, WireType, Watched
<1> PICK q \in Seq(Events), r \in Seq(Events) : q = outbound[origin] /\ r = outbound'[origin]
  BY <1>0 DEF QueueTypes, Produced
<1>1. Len(q) \in Nat /\ Len(r) \in Nat /\ DOMAIN q = 1..Len(q) /\ DOMAIN r = 1..Len(r) /\ Len(q) <= Len(r)
  BY <1>0, LenProperties DEF Produced
<1>2. \A i \in DOMAIN q : i \in DOMAIN r /\ r[i] = q[i]
  BY <1>0, <1>1 DEF Produced
<1>3. \A i \in DOMAIN r : i \notin DOMAIN q => Harmless(r[i], m, x, w)
  BY <1>0, OldOrNew DEF HarmlessAll
<1>4. ASSUME NEW k \in DOMAIN q, IsFinal(q[k], m, x, w), \A j \in DOMAIN q : j > k => Harmless(q[j], m, x, w)
      PROVE  Queued(s, r, m, x, w)
  <2>1. \A j \in DOMAIN r : j > k => Harmless(r[j], m, x, w)
    BY <1>2, <1>3, <1>4
  <2> QED BY <1>2, <1>4, <2>1 DEF Queued
<1>5. ASSUME Shows(s, m, x, w), \A j \in DOMAIN q : Harmless(q[j], m, x, w) PROVE Queued(s, r, m, x, w)
  <2>1. \A j \in DOMAIN r : Harmless(r[j], m, x, w)
    BY <1>2, <1>3, <1>5
  <2> QED BY <1>5, <2>1 DEF Queued
<1> QED BY <1>4, <1>5 DEF Queued

LEMMA FinalIsHarmless == \A e, m, x, w : IsFinal(e, m, x, w) => Harmless(e, m, x, w) /\ e.t \in {"error", "done", "cancelled"}
BY DEF IsFinal, Harmless, About

\* The final event gets into the queue, with nothing behind it that undoes it, or waits
LEMMA FinalGetsThrough ==
  ASSUME WireInv, Watched, NEW p \in Producers, NEW items, Produced(p, items), NEW m, NEW x, NEW w, NEW s,
         HarmlessAll(items, m, x, w),
         NEW i \in DOMAIN items, items[i].to = origin, ~items[i].room, IsFinal(items[i].e, m, x, w)
  PROVE  OwesFinal(owed'[p], m, x, w) \/ Queued(s, outbound'[origin], m, x, w)
<1>0. QueueTypes /\ origin \in Conns
  BY DEF WireInv, WireType, Watched
<1> PICK it : it = items[i]
  OBVIOUS
<1>1. GotThrough(p, it) /\ it.to = origin /\ ~it.room /\ IsFinal(it.e, m, x, w) /\ it.e.t # "chunk"
  BY FinalIsHarmless DEF Produced
<1>2. CASE \E k \in DOMAIN outbound'[origin] : k > Len(outbound[origin]) /\ outbound'[origin][k] = it.e
  <2> PICK k \in DOMAIN outbound'[origin] : k > Len(outbound[origin]) /\ outbound'[origin][k] = it.e
    BY <1>2
  <2> PICK q \in Seq(Events), r \in Seq(Events) : q = outbound[origin] /\ r = outbound'[origin]
    BY <1>0 DEF QueueTypes, Produced
  <2>1. Len(q) \in Nat /\ Len(r) \in Nat /\ DOMAIN q = 1..Len(q) /\ DOMAIN r = 1..Len(r)
    BY LenProperties
  <2>2. ASSUME NEW j \in DOMAIN r, j > k PROVE Harmless(r[j], m, x, w)
    <3>1. j > Len(q)
      BY <2>1, <2>2
    <3>2. \E l \in DOMAIN items : items[l].to = origin /\ r[j] = items[l].e
      BY <1>0, <2>1, <3>1 DEF Produced
    <3> QED BY <3>2 DEF HarmlessAll
  <2> QED BY <1>1, <2>2 DEF Queued
<1>3. CASE \E k \in DOMAIN owed'[p] : owed'[p][k].to = origin /\ owed'[p][k].e = it.e
  BY <1>1, <1>3 DEF OwesFinal
<1> QED BY <1>1, <1>2, <1>3, GetsThrough

LEMMA RestIsHarmless ==
  ASSUME NEW p \in Producers, NEW items, Produced(p, items), NEW m, NEW x, NEW w, HarmlessAll(items, m, x, w),
         origin' = origin
  PROVE  HarmlessAll(owed'[p], m, x, w)
<1> SUFFICES ASSUME NEW i \in DOMAIN owed'[p], owed'[p][i].to = origin PROVE Harmless(owed'[p][i].e, m, x, w)
  BY DEF HarmlessAll
<1>1. PICK j \in DOMAIN items : Same(owed'[p][i], items[j])
  BY DEF Produced
<1> QED BY <1>1 DEF HarmlessAll, Same

-----------------------------------------------------------------------------
LEMMA SendsSettle ==
  ASSUME ReplyInv, WireInv, WireInv', ActiveInv, NEW p \in Producers, Sends(p), origin' = origin, Begun => Begun', Watched, Watched',
         NEW m \in Replies, Reporting(m), NEW x, NEW w, Settles(slice, outbound[origin], owed[m], m, x, w)
  PROVE  Settles(slice', outbound'[origin], owed'[m], m, x, w)
<1> PICK items \in Seq(Item(Events)) :
      /\ Produced(p, items) /\ \A i \in DOMAIN items : MayOwe(p, items[i])'
      /\ ~Free(p) /\ p \in Replies \cup {origin} => items = owed[p]
      /\ Free(p) /\ p \in Replies /\ pc[p] \in {"trace", "leave", "over"} => \A i \in DOMAIN items : items[i].e.t = "fanout"
  BY DEF Sends
<1>0. /\ slice' = slice /\ (p \in Replies => pc[p] # "none") /\ m \in Producers /\ (p \in Conns \/ p \in Replies)
      /\ m \notin Conns /\ pc[m] \in {"trace", "leave", "over"}
  BY ReplyAssumption DEF Sends, Reporting
<1>1. Begun /\ Begun'
  BY <1>0, NotBegun
<1>2. ASSUME NEW i \in DOMAIN items, items[i].to = origin
      PROVE  p \in Replies /\ items[i].e.t \in FromReply /\ (items[i].e.t # "fanout" => items[i].e.m = p)
  <2>1. MayOwe(p, items[i])'
    OBVIOUS
  <2> QED BY <1>0, <1>1, <1>2, <2>1, SentToOrigin
<1>3. CASE p # m
  <2>1. HarmlessAll(items, m, x, w)
    <3> SUFFICES ASSUME NEW i \in DOMAIN items, items[i].to = origin PROVE Harmless(items[i].e, m, x, w)
      BY DEF HarmlessAll
    <3> QED BY <1>2, <1>3 DEF Harmless, About, FromReply
  <2>2. owed'[m] = owed[m]
    BY <1>0, <1>3 DEF Produced
  <2> QED BY <1>0, <2>1, <2>2, QueuedStays DEF Settles
<1>4. CASE p = m /\ Free(m)
  <2>1. \A i \in DOMAIN items : items[i].e.t = "fanout"
    BY <1>0, <1>4
  <2>2. HarmlessAll(items, m, x, w)
    BY <2>1 DEF HarmlessAll, Harmless, About
  <2>3. ~OwesFinal(owed[m], m, x, w)
    BY <1>4 DEF Free, OwesFinal
  <2> QED BY <1>0, <1>4, <2>2, <2>3, QueuedStays, RestIsHarmless DEF Settles
<1>5. CASE p = m /\ ~Free(m)
  <2>1. items = owed[m]
    BY <1>5
  <2>2. HarmlessAll(items, m, x, w)
    BY <2>1 DEF Settles
  <2>3. HarmlessAll(owed'[m], m, x, w)
    BY <1>5, <2>2, RestIsHarmless
  <2>4. CASE OwesFinal(items, m, x, w)
    <3>1. PICK i \in DOMAIN items : items[i].to = origin /\ IsFinal(items[i].e, m, x, w)
      BY <2>4 DEF OwesFinal
    <3>2. ~items[i].room
      <4>1. MayOwe(p, items[i])'
        OBVIOUS
      <4> QED BY <3>1, <4>1 DEF MayOwe
    <3> QED BY <1>0, <1>5, <2>2, <2>3, <3>1, <3>2, FinalGetsThrough DEF Settles
  <2>5. CASE Queued(slice, outbound[origin], m, x, w)
    BY <1>0, <2>2, <2>3, <2>5, QueuedStays DEF Settles
  <2> QED BY <2>1, <2>4, <2>5 DEF Settles
<1> QED BY <1>3, <1>4, <1>5

LEMMA ReportSettles ==
  ASSUME ReplyInv, VerdictInv, WireInv, Watched, NEW m \in Replies, Report(m)
  PROVE  Settles(slice', outbound'[origin], owed'[m], m, ending'[m], row'[m])
<1>0. /\ UNCHANGED <<slice, ending, row, origin>> /\ pc[m] = "report" /\ m \in Producers
      /\ ending[m] \in {"done", "failed", "crashed", "cancelled"}
  BY ReplyAssumption DEF Report, Step, Quiet, browserVars, turn, VerdictInv, VerdictOk, ReplyInv, ReplyType, Ends
<1> PICK items \in Seq(Item(Events)) :
      /\ Produced(m, items)
      /\ \A i \in DOMAIN items : /\ items[i].e \in {Verdict(m)[1], [t |-> "error", m |-> m]}
                                 /\ items[i].to = origin => ~items[i].room
      /\ \E i \in DOMAIN items : items[i] = Direct(origin, Verdict(m)[1])
  BY ReportSends
<1> PICK v : v = Verdict(m)[1]
  OBVIOUS
<1>1. IsFinal(v, m, ending[m], row[m])
  <2>1. v.m = m /\ v.t = Word(m)
    BY FirstWord DEF Verdict
  <2>2. ending[m] # "crashed" => v.content = row[m]
    BY <1>0 DEF Verdict
  <2> QED BY <1>0, <2>1, <2>2 DEF IsFinal, About, Word
<1>2. Harmless([t |-> "error", m |-> m], m, ending[m], row[m])
  BY DEF Harmless
<1>3. HarmlessAll(items, m, ending[m], row[m])
  <2>1. \A i \in DOMAIN items : items[i].e = v \/ items[i].e = [t |-> "error", m |-> m]
    OBVIOUS
  <2> QED BY <1>1, <1>2, <2>1, FinalIsHarmless DEF HarmlessAll
<1>4. PICK i \in DOMAIN items : items[i] = Direct(origin, v)
  OBVIOUS
<1>5. items[i].to = origin /\ ~items[i].room /\ items[i].e = v
  BY <1>4 DEF Direct
<1>6. HarmlessAll(owed'[m], m, ending[m], row[m])
  BY <1>0, <1>3, RestIsHarmless
<1>7. OwesFinal(owed'[m], m, ending[m], row[m]) \/ Queued(slice, outbound'[origin], m, ending[m], row[m])
  BY <1>0, <1>1, <1>3, <1>5, FinalGetsThrough
<1> QED BY <1>0, <1>6, <1>7 DEF Settles

-----------------------------------------------------------------------------
(* An event that the browser reduces *)

LEMMA ShowsAfter ==
  ASSUME NEW s \in Slices, NEW e \in Events, NEW m \in Replies, m \in s.known, NEW x, NEW w, NEW r, r = Reduce(s, e),
         IsFinal(e, m, x, w) \/ (Shows(s, m, x, w) /\ Harmless(e, m, x, w))
  PROVE  Shows(r, m, x, w)
<1>1. /\ e.t # "history" /\ ~About(e, m) => r.content[m] = s.content[m] /\ (m \in r.streaming <=> m \in s.streaming)
      /\ e.t \in {"done", "cancelled"} /\ e.m = m => m \notin r.streaming /\ (m \in s.known => r.content[m] = e.content)
      /\ e.t = "error" /\ e.m = m => m \notin r.streaming /\ (m \notin s.streaming => r = s)
  BY ReducedAbout
<1>2. CASE IsFinal(e, m, x, w)
  BY <1>1, <1>2 DEF IsFinal, About, Shows
<1>3. CASE Shows(s, m, x, w) /\ Harmless(e, m, x, w) /\ ~IsFinal(e, m, x, w)
  BY <1>1, <1>3 DEF Harmless, About, Shows
<1> QED BY <1>2, <1>3

\* The bubble is shown before the final event is taken
LEMMA ShownFirst ==
  ASSUME ReplyInv, WireInv, ActiveInv, OrderInv, Watched, NEW m \in Replies, pc[m] # "none", outbound[origin] # <<>>,
         Rank(Head(outbound[origin])) = 2
  PROVE  m \in slice.known
<1>1. Begun /\ m \in asked /\ owed[origin] = <<>> /\ origin \in Conns
  BY NotBegun, OriginOwesNothing DEF ActiveInv, Watched
<1> PICK q \in Seq(Events) : q = outbound[origin]
  BY <1>1 DEF WireInv, WireType, QueueTypes
<1>2. Head(q) = q[1] /\ 1 \in DOMAIN q /\ DOMAIN q = 1..Len(q) /\ Len(q) \in Nat
  BY TailOf
<1>3. Announced(m) /\ InOrder(q)
  BY <1>1 DEF OrderInv
<1>4. ASSUME NEW i \in DOMAIN q, Announces(q[i], m) PROVE FALSE
  <2>1. Rank(q[i]) = 1 /\ Rank(q[1]) = 2
    BY <1>2, <1>4 DEF Announces, Rank
  <2>2. i = 1 \/ 1 < i
    BY <1>2
  <2> QED BY <1>2, <1>3, <2>1, <2>2 DEF InOrder
<1>5. DOMAIN <<>> = {}
  OBVIOUS
<1> QED BY <1>1, <1>3, <1>4, <1>5 DEF Announced

LEMMA TakenSettles ==
  ASSUME ReplyInv, WireInv, ActiveInv, OrderInv, Watched, NEW c \in Conns, Taken(c), origin' = origin,
         NEW m \in Replies, Reporting(m), NEW x, NEW w, Settles(slice, outbound[origin], owed[m], m, x, w)
  PROVE  Settles(slice', outbound'[origin], owed'[m], m, x, w)
<1>0. /\ outbound \in [Conns -> Seq(Events)] /\ slice \in Slices /\ owed' = owed /\ outbound[c] # <<>>
      /\ origin \in Conns /\ link[origin] = "up" /\ pc[m] # "none"
  BY DEF WireInv, WireType, QueueTypes, Taken, Watched, Reporting
<1>1. CASE c # origin
  <2>1. outbound'[origin] = outbound[origin]
    BY <1>0, <1>1 DEF Taken
  <2>2. slice' = slice
    BY <1>0, <1>1 DEF Taken, WireInv, LinkInv
  <2> QED BY <1>0, <2>1, <2>2
<1>2. CASE c = origin
  <2> PICK old \in Seq(Events) : old = outbound[origin]
    BY <1>0
  <2>1. old # <<>> /\ outbound'[origin] = Tail(old) /\ slice' = Reduce(slice, Head(old))
    BY <1>0, <1>2 DEF Taken
  <2>2. /\ Tail(old) \in Seq(Events) /\ Head(old) = old[1] /\ old[1] \in Events /\ 1 \in DOMAIN old
        /\ Len(old) \in Nat /\ DOMAIN old = 1..Len(old)
    BY <2>1, TailOf
  <2>3. DOMAIN Tail(old) = 1..(Len(old) - 1) /\ \A i \in DOMAIN Tail(old) : i + 1 \in DOMAIN old /\ Tail(old)[i] = old[i + 1]
    BY <2>1, TailOf
  <2> PICK new \in Seq(Events), e \in Events : new = Tail(old) /\ e = old[1]
    BY <2>2
  <2> PICK s \in Slices : s = slice
    BY <1>0
  <2> PICK r : r = slice' /\ r = Reduce(s, e)
    BY <2>1, <2>2
  <2>4. \A i \in DOMAIN new : i + 1 \in DOMAIN old /\ new[i] = old[i + 1] /\ i + 1 > 1
    BY <2>2, <2>3
  <2>5. Rank(e) = 2 => m \in s.known
    BY <1>0, <2>1, <2>2, ShownFirst
  <2>6. IsFinal(e, m, x, w) => Rank(e) = 2
    BY FinalIsHarmless DEF Rank
  <2>7. ASSUME NEW k \in DOMAIN old, IsFinal(old[k], m, x, w), \A j \in DOMAIN old : j > k => Harmless(old[j], m, x, w)
        PROVE  Queued(r, new, m, x, w)
    <3>1. CASE k = 1
      <4>1. Shows(r, m, x, w)
        BY <2>5, <2>6, <2>7, <3>1, ShowsAfter
      <4>2. \A j \in DOMAIN new : Harmless(new[j], m, x, w)
        BY <2>4, <2>7, <3>1
      <4> QED BY <4>1, <4>2 DEF Queued
    <3>2. CASE k # 1
      <4>1. k - 1 \in DOMAIN new /\ new[k - 1] = old[k] /\ \A j \in DOMAIN new : j > k - 1 => j + 1 > k
        BY <2>2, <2>3, <3>2
      <4>2. \A j \in DOMAIN new : j > k - 1 => Harmless(new[j], m, x, w)
        BY <2>4, <2>7, <4>1
      <4> QED BY <2>7, <4>1, <4>2 DEF Queued
    <3> QED BY <3>1, <3>2
  <2>8. ASSUME Shows(s, m, x, w), \A j \in DOMAIN old : Harmless(old[j], m, x, w) PROVE Queued(r, new, m, x, w)
    <3>1. \A j \in DOMAIN new : Harmless(new[j], m, x, w)
      BY <2>4, <2>8
    <3>2. Harmless(e, m, x, w)
      BY <2>2, <2>8
    <3>3. Shows(r, m, x, w)
      <4>1. CASE Rank(e) = 2
        BY <2>5, <2>8, <3>2, <4>1, ShowsAfter
      <4>2. CASE Rank(e) # 2
        <5>1. e.t # "history" /\ ~About(e, m)
          BY <3>2, <4>2, FinalIsHarmless DEF Harmless, Rank
        <5>2. r.content[m] = s.content[m] /\ (m \in r.streaming <=> m \in s.streaming)
          BY <5>1, ReducedAbout
        <5> QED BY <2>8, <5>2 DEF Shows
      <4> QED BY <4>1, <4>2
    <3> QED BY <3>1, <3>3 DEF Queued
  <2>9. Queued(s, old, m, x, w) => Queued(r, new, m, x, w)
    BY <2>7, <2>8 DEF Queued
  <2> QED BY <1>0, <2>1, <2>9 DEF Settles
<1> QED BY <1>1, <1>2

\* What a cancel drops of a reply that has reported is not its last word
LEMMA DropsSettle ==
  ASSUME ReplyInv, VerdictInv, FanInv, NEW n \in Replies, Drops(n), origin' = origin,
         NEW m \in Replies, Reporting(m), Reporting(m)', NEW x, NEW w, Settles(slice, outbound[origin], owed[m], m, x, w)
  PROVE  Settles(slice', outbound'[origin], owed'[m], m, x, w)
<1>0. UNCHANGED <<slice, outbound>> /\ DOMAIN owed = Producers /\ m \in Producers /\ owed' = [owed EXCEPT ![n] = <<>>]
  BY ReplyAssumption DEF Drops, ReplyInv, ReplyType
<1>1. CASE n # m
  BY <1>0, <1>1
<1>2. CASE n = m
  <2>1. owed'[m] = <<>>
    BY <1>0, <1>2
  <2>2. Free(m) \/ pc[m] = "over"
    BY <1>2, CancelReporting DEF Drops
  <2>3. ~OwesFinal(owed[m], m, x, w)
    <3>1. CASE Free(m)
      BY <3>1 DEF Free, OwesFinal
    <3>2. CASE pc[m] = "over"
      <4>1. \A i \in DOMAIN owed[m] : owed[m][i].e.t = "fanout"
        BY <3>2 DEF FanInv, LeftToSay
      <4> QED BY <4>1, FinalIsHarmless DEF OwesFinal
    <3> QED BY <2>2, <3>1, <3>2
  <2>4. HarmlessAll(<<>>, m, x, w)
    BY DEF HarmlessAll
  <2> QED BY <1>0, <2>1, <2>3, <2>4 DEF Settles
<1> QED BY <1>1, <1>2

-----------------------------------------------------------------------------
LEMMA SettledKeeps ==
  ReplyInv /\ VerdictInv /\ WireInv /\ WireInv' /\ ActiveInv /\ FanInv /\ OrderInv /\ SettledInv /\ [Next]_vars => SettledInv'
<1> SUFFICES ASSUME ReplyInv, VerdictInv, WireInv, WireInv', ActiveInv, FanInv, OrderInv, SettledInv, [Next]_vars,
                    Watched', NEW m \in Replies, Reporting(m)'
             PROVE  Settles(slice, outbound[origin], owed[m], m, ending[m], row[m])'
  BY DEF SettledInv
<1>1. ASSUME NEW c \in Conns, SendMessage(c) PROVE FALSE
  <2>1. pc[m] = "none" /\ pc' = pc
    BY <1>1 DEF SendMessage, taskVars, ReplyInv, StartedOnce
  <2> QED BY <2>1 DEF Reporting
<1>2. origin' = origin /\ Watched
  BY <1>1, StepOrigin
<1> SUFFICES Settles(slice', outbound'[origin], owed'[m], m, ending'[m], row'[m])
  BY <1>2 DEF Settles, HarmlessAll, OwesFinal
<1>3. CASE Report(m)
  BY <1>2, <1>3, ReportSettles
<1>4. CASE Reporting(m) /\ row'[m] = row[m] /\ ending'[m] = ending[m]
  <2> PICK x, w : x = ending[m] /\ w = row[m]
    OBVIOUS
  <2>1. Settles(slice, outbound[origin], owed[m], m, x, w)
    BY <1>2, <1>4 DEF SettledInv
  <2>2. Begun => Begun'
    BY <1>2, StepBegins
  <2>3. ASSUME NEW p \in Producers, Sends(p) PROVE Settles(slice', outbound'[origin], owed'[m], m, x, w)
    BY <1>2, <1>4, <2>1, <2>2, <2>3, SendsSettle
  <2>4. ASSUME NEW c \in Conns, Taken(c) PROVE Settles(slice', outbound'[origin], owed'[m], m, x, w)
    BY <1>2, <1>4, <2>1, <2>4, TakenSettles
  <2>5. ASSUME NEW n \in Replies, Drops(n) PROVE Settles(slice', outbound'[origin], owed'[m], m, x, w)
    BY <1>2, <1>4, <2>1, <2>5, DropsSettle
  <2>6. ASSUME UNCHANGED <<outbound, owed, slice>> PROVE Settles(slice', outbound'[origin], owed'[m], m, x, w)
    BY <2>1, <2>6
  <2>7. Settles(slice', outbound'[origin], owed'[m], m, x, w)
    BY <2>3, <2>4, <2>5, <2>6, StepSends
  <2> QED BY <1>4, <2>7
<1> QED BY <1>3, <1>4, StepReporting

\* A reply's last word, once sent, is what the browser ends up with: it is owed, queued or
\* shown, and nothing is sent after it that would undo it.
THEOREM SettledInvariance == Spec => []SettledInv
<1>1. Init => SettledInv
  BY WsAssumption DEF Init, SettledInv, Watched, NoConn
<1>2. ReplyInv /\ VerdictInv /\ WireInv /\ WireInv' /\ ActiveInv /\ FanInv /\ OrderInv /\ SettledInv /\ [Next]_vars => SettledInv'
  BY SettledKeeps
<1> QED BY <1>1, <1>2, ReplyInvariance, VerdictInvariance, WireInvariance, ActiveInvariance, FanInvariance,
           OrderInvariance, PTL DEF Spec

\* What the browser shows of a reply that was reported is what its row holds, as long as it
\* is still on the connection it sent the message over, whatever was cancelled meanwhile.
THEOREM ShownIsWhatIsStored == Spec => []ShownIsStored
BY ReplyInvariance, VerdictInvariance, WireInvariance, SettledInvariance, SettledShows, PTL

-----------------------------------------------------------------------------
(* Nobody waits in vain.  Who cannot go on waits for room in a queue, and  *)
(* a full queue that nobody empties is of a connection whose writer has    *)
(* ended.  What takes an invariant is that nothing is ever queued for a    *)
(* connection that has not been opened, though events are sent to all.     *)

\* A send that would be put is for a connection that has been opened
Due(it) == (it.room /\ ~it.waits) \/ link[it.to] # "none"

Doings == {"off", "joining", "reading", "answering", "idle", "creating", "dispatching", "cancelling", "closing", "gone"}

\* What the hub knows has a handler, and what is queued or owed is due
ConnInv ==
  /\ reader \in [Conns -> Doings] /\ writer \in [Conns -> {"off", "on"}] /\ hub \subseteq Conns
  /\ \A c \in hub : reader[c] \notin {"off", "gone"}
DueInv ==
  /\ \A c \in Conns : outbound[c] # <<>> => link[c] # "none"
  /\ \A p \in Producers : \A i \in DOMAIN owed[p] : Due(owed[p][i])

RestInv == ConnInv /\ DueInv

LEMMA FullIsJammed ==
  ASSUME WireInv, RestInv, NEW p \in Producers, ~Free(p), ~Ready
  PROVE  \E c \in Conns : Jammed(c)
<1>1. owed[p] \in Seq(Item(Events)) /\ owed[p] # <<>>
  BY OwedIsItem DEF Free
<1> PICK it \in Item(Events) : it = Head(owed[p])
  BY <1>1, TailOf
<1> PICK c \in Conns : c = it.to
  BY DEF Item
<1>2. outbound[c] \in Seq(Events) /\ Len(outbound[c]) \in Nat /\ QueueSize \in Nat /\ QueueSize > 0
  BY WsAssumption, LenProperties DEF WireInv, WireType, QueueTypes
<1>3. Len(outbound[c]) >= QueueSize
  BY <1>2 DEF Ready
<1>4. outbound[c] # <<>>
  <2>1. Len(<<>>) = 0
    OBVIOUS
  <2> QED BY <1>2, <1>3, <2>1
<1>5. writer[c] = "off" /\ link[c] # "none"
  BY <1>4 DEF Ready, RestInv, ConnInv, DueInv
<1> QED BY <1>3, <1>5 DEF Jammed

LEMMA RestShows == ReplyInv /\ WireInv /\ RestInv => RestsWhenDone
<1> SUFFICES ASSUME ReplyInv, WireInv, RestInv, Unfinished, ~Ready PROVE \E c \in Conns : Jammed(c)
  BY DEF RestsWhenDone
<1>1. CASE \E m \in Replies : pc[m] \notin {"none", "over"}
  <2> PICK m \in Replies : pc[m] \notin {"none", "over"}
    BY <1>1
  <2>1. ~Free(m) /\ m \in Producers
    BY ReplyAssumption DEF Ready
  <2> QED BY <2>1, FullIsJammed
<1>2. CASE \E c \in hub : link[c] = "down"
  <2> PICK c \in Conns : c \in hub /\ link[c] = "down"
    BY <1>2 DEF RestInv, ConnInv
  <2>1. reader[c] \in {"idle", "creating", "closing"}
    BY DEF RestInv, ConnInv, Doings, Ready
  <2>2. ~Free(c) /\ c \in Producers
    BY <2>1, WsAssumption DEF Ready, Idle
  <2> QED BY <2>2, FullIsJammed
<1> QED BY <1>1, <1>2 DEF Unfinished

-----------------------------------------------------------------------------
\* A batch of sends that are due, by induction on the batch
Reaches(acc) ==
  /\ \A c \in Conns : acc.out[c] # <<>> => link[c] # "none"
  /\ \A i \in DOMAIN acc.rest : Due(acc.rest[i])

LEMMA DueWaits ==
  ASSUME NEW E, NEW s \in Seq(Item(E)), NEW w \in Item(E), NEW t, t = Append(s, w), Due(w), \A i \in DOMAIN s : Due(s[i])
  PROVE  \A i \in DOMAIN t : Due(t[i])
<1>1. /\ Len(s) + 1 \in DOMAIN t /\ t[Len(s) + 1] = w /\ DOMAIN t = (1..Len(s)) \cup {Len(s) + 1}
      /\ DOMAIN s = 1..Len(s) /\ \A i \in DOMAIN s : t[i] = s[i]
  <2> HIDE DEF Item, Due
  <2> QED BY Appended, SMTT(30)
<1> QED BY <1>1

LEMMA ReachesOne ==
  ASSUME NEW E, NEW acc \in Sending(E), NEW it \in Item(E), Reaches(acc), Due(it), \A c \in hub : link[c] # "none",
         \A c \in Conns : Len(acc.out[c]) >= QueueSize => acc.out[c] # <<>>
  PROVE  Reaches(PutStep(acc, it))
<1>1. acc.out \in [Conns -> Seq(E)] /\ acc.rest \in Seq(Item(E)) /\ it.to \in Conns /\ it.e \in E
  BY DEF Sending, Item
<1>2. ~Skipped(it) => link[it.to] # "none"
  BY DEF Skipped, Due
<1> PICK w \in Item(E) : w = [it EXCEPT !.waits = TRUE]
  BY DEF Item
<1>3. w.to = it.to
  BY DEF Item
<1>4. CASE acc.rest # <<>>
  <2>1. PutStep(acc, it) = [acc EXCEPT !.rest = Append(@, it)]
    BY <1>4 DEF PutStep
  <2>2. PutStep(acc, it).out = acc.out /\ PutStep(acc, it).rest = Append(acc.rest, it)
    BY <2>1 DEF Sending
  <2>3. \A i \in DOMAIN Append(acc.rest, it) : Due(Append(acc.rest, it)[i])
    BY <1>1, DueWaits DEF Reaches
  <2> QED BY <2>2, <2>3 DEF Reaches
<1>5. CASE acc.rest = <<>> /\ Skipped(it)
  BY <1>5 DEF PutStep
<1>6. CASE acc.rest = <<>> /\ ~Skipped(it) /\ Len(acc.out[it.to]) < QueueSize
  <2>1. PutStep(acc, it) = [acc EXCEPT !.out[it.to] = Append(@, it.e)]
    BY <1>6 DEF PutStep
  <2>2. [acc EXCEPT !.out[it.to] = Append(@, it.e)] = [acc EXCEPT !.out = [acc.out EXCEPT ![it.to] = Append(@, it.e)]]
    BY Zenon
  <2>3. PutStep(acc, it).rest = acc.rest /\ \A c \in Conns \ {it.to} : PutStep(acc, it).out[c] = acc.out[c]
    BY <1>1, <2>1, <2>2 DEF Sending
  <2> QED BY <1>2, <1>6, <2>3 DEF Reaches
<1>7. CASE acc.rest = <<>> /\ ~Skipped(it) /\ ~(Len(acc.out[it.to]) < QueueSize)
  <2>1. CASE it.e.t \in Droppable /\ ~it.waits
    BY <1>7, <2>1 DEF PutStep
  <2>2. CASE ~(it.e.t \in Droppable /\ ~it.waits)
    <3>1. PutStep(acc, it) = [acc EXCEPT !.rest = <<w>>]
      BY <1>7, <2>2 DEF PutStep
    <3>2. PutStep(acc, it).out = acc.out /\ PutStep(acc, it).rest = <<w>>
      BY <3>1 DEF Sending
    <3>3. Due(w)
      BY <1>2, <1>3, <1>7 DEF Due
    <3>4. \A i \in DOMAIN <<w>> : <<w>>[i] = w
      <4> HIDE DEF Item, Reaches, Due
      <4> QED BY OneOf
    <3> QED BY <3>2, <3>3, <3>4 DEF Reaches
  <2> QED BY <2>1, <2>2
<1> QED BY <1>4, <1>5, <1>6, <1>7

LEMMA ReachesAll ==
  ASSUME QueueTypes, NEW items \in Seq(Item(Events)), \A i \in DOMAIN items : Due(items[i]),
         \A c \in hub : link[c] # "none", \A c \in Conns : outbound[c] # <<>> => link[c] # "none"
  PROVE  Reaches(PutAll(items))
<1> DEFINE N == Len(items)
<1>1. N \in Nat /\ DOMAIN items = 1..N /\ Batch(items) \in Sending(Events)
  BY BatchRuns DEF QueueTypes
<1> PICK f : IsRun(items, f) /\ PutAll(items) = f[N]
  BY BatchRuns DEF QueueTypes
<1> DEFINE P == {k \in Nat : k <= N => f[k] \in Sending(Events) /\ Reaches(f[k])}
<1>2. 0 \in P
  <2>1. f[0] = Batch(items)
    BY <1>1 DEF IsRun
  <2>2. Batch(items).out = outbound /\ Batch(items).rest = <<>> /\ DOMAIN <<>> = {}
    BY DEF Batch
  <2>3. Reaches(Batch(items))
    BY <2>2 DEF Reaches
  <2> QED BY <1>1, <2>1, <2>3
<1>3. ASSUME NEW k \in P PROVE k + 1 \in P
  <2> SUFFICES ASSUME k + 1 <= N PROVE f[k + 1] \in Sending(Events) /\ Reaches(f[k + 1])
    OBVIOUS
  <2>1. k \in Nat /\ k + 1 \in DOMAIN items /\ f[k] \in Sending(Events) /\ Reaches(f[k])
    BY <1>1
  <2>2. f[k + 1] = PutStep(f[k], items[k + 1])
    <3>1. k + 1 \in 0..N /\ k + 1 # 0 /\ (k + 1) - 1 = k
      BY <1>1
    <3> QED BY <3>1 DEF IsRun
  <2> PICK acc \in Sending(Events) : acc = f[k]
    BY <2>1
  <2> PICK it \in Item(Events) : it = items[k + 1]
    BY <2>1, ElementOfSeq
  <2> HIDE DEF P
  <2>3. PutStep(acc, it) \in Sending(Events)
    BY PutOne
  <2>4. ASSUME NEW c \in Conns, Len(acc.out[c]) >= QueueSize PROVE acc.out[c] # <<>>
    <3>1. Len(<<>>) = 0 /\ QueueSize \in Nat /\ QueueSize > 0
      BY WsAssumption
    <3> QED BY <2>4, <3>1
  <2>5. Reaches(acc) /\ Due(it)
    BY <2>1
  <2>6. Reaches(PutStep(acc, it))
    BY <2>4, <2>5, ReachesOne
  <2> QED BY <2>2, <2>3, <2>6
<1>4. P = Nat
  <2> HIDE DEF P
  <2>1. P \subseteq Nat
    BY DEF P
  <2> QED BY <1>2, <1>3, <2>1, Inductive
<1>5. N \in P /\ N <= N
  BY <1>1, <1>4
<1> QED BY <1>5

-----------------------------------------------------------------------------
(* The steps *)

LEMMA SendsDue ==
  ASSUME WireInv, RestInv, NEW p \in Producers, NEW items \in Seq(Item(Events)), Produce(p, items),
         \A i \in DOMAIN items : Due(items[i]), link' = link
  PROVE  DueInv'
<1>1. QueueTypes /\ \A c \in hub : link[c] # "none"
  BY DEF WireInv, WireType, LinkInv, RestInv, ConnInv
<1> PICK r \in Sending(Events) : r = PutAll(items)
  BY <1>1, PutAllAdds DEF QueueTypes
<1>2. Reaches(r)
  BY <1>1, ReachesAll DEF RestInv, DueInv
<1>3. outbound' = r.out /\ owed'[p] = r.rest /\ \A q \in Producers \ {p} : owed'[q] = owed[q]
  BY <1>1 DEF Produce, QueueTypes
<1>4. \A c \in Conns : outbound'[c] # <<>> => link'[c] # "none"
  BY <1>2, <1>3 DEF Reaches
<1>5. ASSUME NEW q \in Producers, NEW i \in DOMAIN owed'[q] PROVE Due(owed[q][i])'
  <2>1. CASE q = p
    <3>1. i \in DOMAIN r.rest /\ owed'[q][i] = r.rest[i] /\ Due(r.rest[i])
      BY <1>2, <1>3, <1>5, <2>1 DEF Reaches
    <3> QED BY <3>1 DEF Due
  <2>2. CASE q # p
    <3>1. owed'[q] = owed[q] /\ Due(owed[q][i])
      BY <1>3, <1>5, <2>2 DEF RestInv, DueInv
    <3> QED BY <3>1 DEF Due
  <2> QED BY <2>1, <2>2
<1> QED BY <1>4, <1>5 DEF DueInv

\* A reply sends to who asked, and to who is there
LEMMA ToldDue ==
  ASSUME ReplyInv, WireInv, NEW m \in Replies, pc[m] # "none", NEW it, Told(origin, it)
  PROVE  Due(it)
<1>1. origin \in Conns /\ link[origin] # "none"
  BY HasOrigin DEF WireInv, LinkInv
<1> QED BY <1>1 DEF Told, Due

LEMMA ReplySendsDue ==
  ASSUME ReplyInv, VerdictInv, WireInv, RestInv, NEW m \in Replies,
         NotLoaded(m) \/ TextChunk(m) \/ Report(m) \/ LeaveTask(m)
  PROVE  DueInv'
<1>1. pc[m] # "none" /\ link' = link /\ m \in Producers
  BY ReplyAssumption DEF NotLoaded, TextChunk, Report, LeaveTask, Step, Quiet
<1>2. ASSUME NEW items \in Seq(Item(Events)), Produce(m, items), \A i \in DOMAIN items : Told(origin, items[i])
      PROVE  DueInv'
  <2>1. \A i \in DOMAIN items : Due(items[i])
    BY <1>1, <1>2, ToldDue
  <2> QED BY <1>1, <1>2, <2>1, SendsDue
<1>3. \A e : Told(origin, Direct(origin, e))
  BY DEF Told, Direct
<1>4. CASE NotLoaded(m)
  <2> PICK items \in Seq(Item(Events)) : Produce(m, items) /\ \A i \in DOMAIN items : items[i] = Direct(origin, [t |-> "error", m |-> m])
    BY <1>4, NotLoadedSends
  <2>1. \A i \in DOMAIN items : Told(origin, items[i])
    BY <1>3
  <2> QED BY <1>2, <2>1
<1>5. CASE TextChunk(m)
  BY <1>2, <1>5, TextChunkSends
<1>6. CASE Report(m)
  BY <1>2, <1>6, ReportSends
<1>7. CASE LeaveTask(m)
  <2> PICK items \in Seq(Item(Events)) :
        Produce(m, items) /\ (LastOfAll(m) => items = <<Direct(origin, FanEvent)>>) /\ (~LastOfAll(m) => items = <<>>)
    BY <1>7, LeaveTaskSends
  <2> PICK x : x = Direct(origin, FanEvent) /\ Told(origin, x)
    BY <1>3
  <2>1. \A i \in DOMAIN items : items[i] = x
    BY OneOf
  <2>2. \A i \in DOMAIN items : Told(origin, items[i])
    BY <2>1
  <2> QED BY <1>2, <2>2
<1> QED BY <1>4, <1>5, <1>6, <1>7

LEMMA HandlerSendsDue ==
  ASSUME WireInv, RestInv, NEW c \in Conns, Answer(c) \/ SendMessage(c)
  PROVE  DueInv'
<1>1. link[c] # "none" /\ link' = link /\ c \in Producers
  BY WsAssumption DEF Answer, SendMessage, WireInv, LinkInv
<1>2. \A e : Due(Direct(c, e))
  BY <1>1 DEF Due, Direct
<1>3. CASE Answer(c)
  <2> PICK items \in Seq(Item(Events)) : Produce(c, items) /\ \A i \in DOMAIN items : items[i] = Direct(c, read[c])
    BY <1>3, AnswerSends
  <2>1. \A i \in DOMAIN items : Due(items[i])
    BY <1>2
  <2> QED BY <1>1, <2>1, SendsDue
<1>4. CASE SendMessage(c)
  <2> PICK items \in Seq(Item(Events)) :
        Produce(c, items) /\ \A i \in DOMAIN items : \E m \in asked' : items[i] = Direct(c, CreatedEvent(m))
    BY <1>4, SendMessageSends
  <2>1. \A i \in DOMAIN items : Due(items[i])
    BY <1>2
  <2> QED BY <1>1, <2>1, SendsDue
<1> QED BY <1>3, <1>4

LEMMA CloseDue == ASSUME WireInv, RestInv, NEW c \in Conns, Close(c) PROVE DueInv'
<1>1. link[c] = "down" /\ link' = link /\ QueueTypes /\ Conns \subseteq Producers
  BY WsAssumption DEF Close, WireInv, WireType
<1> PICK w : w = [Direct(c, Stop) EXCEPT !.waits = TRUE]
  OBVIOUS
<1>2. w.to = c
  BY DEF Direct
<1>3. \A d \in Conns : outbound'[d] # <<>> => link'[d] # "none"
  BY <1>1 DEF Close, BeginClose, RestInv, DueInv, QueueTypes
<1>4. \A q \in Producers : owed'[q] = owed[q] \/ owed'[q] = <<w>>
  <2>1. owed' = owed \/ owed' = [owed EXCEPT ![c] = <<w>>]
    BY Zenon DEF Close, BeginClose
  <2> QED BY <1>1, <2>1 DEF QueueTypes
<1>5. \A i \in DOMAIN <<w>> : <<w>>[i] = w
  BY OneOf
<1>6. ASSUME NEW q \in Producers, NEW i \in DOMAIN owed'[q] PROVE Due(owed[q][i])'
  <2>1. CASE owed'[q] = owed[q]
    <3>1. Due(owed[q][i])
      BY <1>6, <2>1 DEF RestInv, DueInv
    <3> QED BY <1>1, <2>1, <3>1 DEF Due
  <2>2. CASE owed'[q] = <<w>>
    <3>1. owed'[q][i].to = c /\ link'[c] # "none"
      BY <1>1, <1>2, <1>5, <1>6, <2>2
    <3> QED BY <3>1 DEF Due
  <2> QED BY <1>4, <2>1, <2>2
<1> QED BY <1>3, <1>6 DEF DueInv

\* Steps that send nothing
LEMMA NothingDue ==
  ASSUME RestInv, \A c \in Conns : outbound'[c] # <<>> => outbound[c] # <<>>,
         \A p \in Producers : owed'[p] \in {owed[p], <<>>}, \A c \in Conns : link[c] # "none" => link'[c] # "none",
         QueueTypes
  PROVE  DueInv'
<1>1. \A c \in Conns : outbound'[c] # <<>> => link'[c] # "none"
  BY DEF RestInv, DueInv
<1>2. ASSUME NEW q \in Producers, NEW i \in DOMAIN owed'[q] PROVE Due(owed[q][i])'
  <2>1. owed'[q] = owed[q]
    <3>1. DOMAIN <<>> = {}
      OBVIOUS
    <3> QED BY <1>2, <3>1
  <2> PICK it : it = owed[q][i]
    OBVIOUS
  <2>2. Due(it) /\ it.to \in Conns
    <3>1. owed[q] \in Seq(Item(Events)) /\ i \in DOMAIN owed[q]
      BY <1>2, <2>1 DEF QueueTypes
    <3>2. it \in Item(Events)
      BY <3>1, ElementOfSeq
    <3> QED BY <3>1, <3>2 DEF RestInv, DueInv, Item
  <2> QED BY <2>1, <2>2 DEF Due
<1> QED BY <1>1, <1>2 DEF DueInv

LEMMA DueKeeps == ReplyInv /\ VerdictInv /\ WireInv /\ RestInv /\ [Next]_vars => DueInv'
<1> SUFFICES ASSUME ReplyInv, VerdictInv, WireInv, RestInv, [Next]_vars PROVE DueInv'
  OBVIOUS
<1> USE DEF wsVars, browserVars, turn, taskVars
<1>1. QueueTypes /\ link \in [Conns -> {"none", "up", "down"}]
  BY DEF WireInv, WireType
<1>2. CASE UNCHANGED <<outbound, owed, link>>
  BY <1>1, <1>2, NothingDue
<1>3. ASSUME NEW c \in Conns, Connect(c) \/ Disconnect(c) PROVE DueInv'
  <2>1. UNCHANGED <<outbound, owed>> /\ \A d \in Conns : link[d] # "none" => link'[d] # "none"
    BY <1>1, <1>3 DEF Connect, Accept, Disconnect, Lose
  <2> QED BY <1>1, <2>1, NothingDue
<1>4. ASSUME NEW c \in Conns, Deliver(c) PROVE DueInv'
  <2>1. UNCHANGED <<owed, link>> /\ \A d \in Conns : outbound'[d] # <<>> => outbound[d] # <<>>
    BY <1>1, <1>4 DEF Deliver, Take, QueueTypes
  <2> QED BY <1>1, <2>1, NothingDue
<1>5. ASSUME NEW c \in Conns, FireCancel(c) PROVE DueInv'
  <2>1. UNCHANGED <<outbound, link>>
    BY <1>5 DEF FireCancel
  <2>2. owed' = owed \/ owed' = [owed EXCEPT ![target[c]] = <<>>]
    BY <1>5 DEF FireCancel, CancelReply
  <2>3. \A p \in Producers : owed'[p] \in {owed[p], <<>>}
    BY <1>1, <2>2 DEF QueueTypes
  <2> QED BY <1>1, <2>1, <2>3, NothingDue
<1>6. ASSUME NEW c \in Conns, Handler(c) PROVE DueInv'
  <2>1. CASE Join(c) \/ ReadHistory(c) \/ Return(c) \/ StartReplies(c) \/ Leave(c)
    BY <1>2, <2>1 DEF Join, ReadHistory, Return, StartReplies, Leave
  <2> QED BY <1>5, <1>6, <2>1, HandlerSendsDue, CloseDue DEF Handler
<1>7. ASSUME NEW m \in Replies, Reply(m) PROVE DueInv'
  <2>1. CASE Begin(m) \/ Prepared(m) \/ StreamEnds(m) \/ Coordinate(m) \/ Reread(m) \/ Persist(m) \/ Trace(m)
    BY <1>2, <2>1 DEF Begin, Prepared, StreamEnds, Coordinate, Reread, Persist, Trace, Silent, Quiet
  <2> QED BY <1>7, <2>1, ReplySendsDue DEF Reply
<1>8. ASSUME NEW p \in Producers, PutWaiting(p) PROVE DueInv'
  <2>1. Produce(p, owed[p]) /\ link' = link /\ owed[p] \in Seq(Item(Events))
    BY <1>8, OwedIsItem DEF PutWaiting, Resume
  <2> PICK items \in Seq(Item(Events)) : items = owed[p]
    BY <2>1
  <2>2. \A i \in DOMAIN items : Due(items[i])
    BY DEF RestInv, DueInv
  <2> QED BY <2>1, <2>2, SendsDue
<1>9. CASE System
  BY <1>4, <1>6, <1>7, <1>8, <1>9 DEF System
<1>10. CASE Environment
  <2>1. ASSUME NEW c \in Conns, NEW m \in Replies, AskCancel(c, m) PROVE DueInv'
    BY <1>2, <2>1 DEF AskCancel
  <2> QED BY <1>3, <1>10, <2>1, HandlerSendsDue DEF Environment
<1>11. CASE UNCHANGED vars
  BY <1>2, <1>11 DEF vars
<1> QED BY <1>9, <1>10, <1>11 DEF Next

LEMMA ConnKeeps == RestInv /\ [Next]_vars => ConnInv'
<1> SUFFICES ASSUME ConnInv, [Next]_vars PROVE ConnInv'
  BY DEF RestInv
<1> USE DEF wsVars, browserVars, turn, taskVars
<1>1. reader \in [Conns -> Doings] /\ writer \in [Conns -> {"off", "on"}] /\ hub \subseteq Conns
      /\ \A c \in hub : reader[c] \notin {"off", "gone"}
  BY DEF ConnInv
<1>2. CASE UNCHANGED <<reader, writer, hub>>
  BY <1>1, <1>2 DEF ConnInv
<1>3. ASSUME NEW c \in Conns, NEW doing \in Doings \ {"off", "gone"}, reader' = [reader EXCEPT ![c] = doing],
             UNCHANGED <<writer, hub>>
      PROVE  ConnInv'
  BY <1>1, <1>3 DEF ConnInv
<1>4. ASSUME NEW c \in Conns, Connect(c) PROVE ConnInv'
  BY <1>1, <1>4 DEF Connect, Accept, ConnInv, Doings
<1>5. ASSUME NEW c \in Conns, Deliver(c) PROVE ConnInv'
  BY <1>1, <1>5 DEF Deliver, Take, ConnInv
<1>6. ASSUME NEW c \in Conns, Leave(c) PROVE ConnInv'
  BY <1>1, <1>6 DEF Leave, EndClose, ConnInv, Doings
<1>7. ASSUME NEW c \in Conns, Handler(c) PROVE ConnInv'
  <2>1. {"reading", "answering", "idle", "dispatching", "closing"} \subseteq Doings \ {"off", "gone"}
    BY DEF Doings
  <2>2. CASE Join(c) \/ ReadHistory(c) \/ Answer(c) \/ Return(c) \/ StartReplies(c) \/ FireCancel(c) \/ Close(c)
    <3>1. UNCHANGED <<writer, hub>> /\ \E doing \in Doings \ {"off", "gone"} : reader' = [reader EXCEPT ![c] = doing]
      BY <2>1, <2>2 DEF Join, ReadHistory, Answer, Return, StartReplies, FireCancel, Close
    <3> QED BY <1>3, <3>1
  <2> QED BY <1>6, <1>7, <2>2 DEF Handler
<1>8. ASSUME NEW m \in Replies, Reply(m) PROVE ConnInv'
  <2>1. Quiet
    BY <1>8 DEF Reply, Begin, NotLoaded, Prepared, TextChunk, StreamEnds, Coordinate, Reread, Persist, Report, Trace,
                LeaveTask, Silent
  <2> QED BY <1>2, <2>1 DEF Quiet
<1>9. ASSUME NEW p \in Producers, PutWaiting(p) PROVE ConnInv'
  BY <1>2, <1>9 DEF PutWaiting
<1>10. CASE System
  BY <1>5, <1>7, <1>8, <1>9, <1>10 DEF System
<1>11. CASE Environment
  <2>1. {"creating", "cancelling"} \subseteq Doings \ {"off", "gone"}
    BY DEF Doings
  <2>2. ASSUME NEW c \in Conns, NEW m \in Replies, AskCancel(c, m) PROVE ConnInv'
    BY <1>3, <2>1, <2>2 DEF AskCancel
  <2>3. ASSUME NEW c \in Conns, SendMessage(c) PROVE ConnInv'
    BY <1>3, <2>1, <2>3 DEF SendMessage
  <2>4. ASSUME NEW c \in Conns, Disconnect(c) PROVE ConnInv'
    BY <1>2, <2>4 DEF Disconnect
  <2> QED BY <1>4, <1>11, <2>2, <2>3, <2>4 DEF Environment
<1>12. CASE UNCHANGED vars
  BY <1>2, <1>12 DEF vars
<1> QED BY <1>10, <1>11, <1>12 DEF Next

\* Nothing is queued for a connection that has not been opened, what is owed to one would
\* be skipped, and a connection that the hub knows has a handler in one of its places.
THEOREM RestInvariance == Spec => []RestInv
<1>1. Init => RestInv
  <2> SUFFICES ASSUME Init PROVE RestInv
    OBVIOUS
  <2>1. ConnInv
    BY DEF Init, ConnInv, Doings
  <2>2. DueInv
    <3>1. DOMAIN <<>> = {}
      OBVIOUS
    <3> QED BY <3>1 DEF Init, DueInv
  <2> QED BY <2>1, <2>2 DEF RestInv
<1>2. ReplyInv /\ VerdictInv /\ WireInv /\ RestInv /\ [Next]_vars => RestInv'
  BY DueKeeps, ConnKeeps DEF RestInv
<1> QED BY <1>1, <1>2, ReplyInvariance, VerdictInvariance, WireInvariance, PTL DEF Spec

\* As long as a reply has not ended, or the hub knows a lost connection, a guard of the
\* system holds or somebody waits for room in a full queue whose writer is gone: for any
\* connections, replies and sizes of queues.
THEOREM RestsOnlyWhenDone == Spec => []RestsWhenDone
BY ReplyInvariance, WireInvariance, RestInvariance, RestShows, PTL
=============================================================================
