---------------------------- MODULE Collaboration ----------------------------
(***************************************************************************)
(* The collaboration hub of the scheduler library                          *)
(* (src/src/scheduler/collaboration.py): file locks with an expiry,        *)
(* and dependencies between tasks.  The tables are Python dicts: functions *)
(* over the keys that are there.  The progress board and the broadcasts,   *)
(* which nothing waits for, and reviews and integration checks, which      *)
(* nothing calls, are left out.                                            *)
(***************************************************************************)
EXTENDS Naturals, FiniteSets

CONSTANTS
  Agents,       (* agents that use the hub                                 *)
  Tasks,        (* task ids                                                *)
  Files,        (* paths                                                   *)
  Durations,    (* durations of locks                                      *)
  MaxClock      (* bound: the clock                                        *)

ASSUME HubAssumption == Durations \subseteq Nat \ {0} /\ MaxClock \in Nat

VARIABLES
  clock,
  locks,        (* FileLockManager.locks: file -> lock                     *)
  dependencies, (* DependencyTracker.dependencies                          *)
  completed_tasks,
  believes,     (* history: <<agent, file>> -> until when it was told to have it *)
  late          (* history: dependencies on what was completed already     *)

hubVars == <<clock, locks, dependencies, completed_tasks, believes, late>>

NoEntries == [x \in {} |-> {}]
SetEntry(table, k, v) == [x \in DOMAIN table \cup {k} |-> IF x = k THEN v ELSE table[x]]
DropEntries(table, ks) == [x \in DOMAIN table \ ks |-> table[x]]

HubInit ==
  /\ clock = 0 /\ locks = NoEntries /\ dependencies = {} /\ completed_tasks = {}
  /\ believes = NoEntries /\ late = {}

Tick ==
  /\ clock < MaxClock
  /\ clock' = clock + 1
  /\ believes' = DropEntries(believes, {b \in DOMAIN believes : believes[b] = clock})
  /\ UNCHANGED <<locks, dependencies, completed_tasks, late>>

-----------------------------------------------------------------------------
(* File locks *)

\* Mutant: a lock is given away in the last instant of its life
ExpiredEarly(lock) == clock >= lock.until

Expired(lock) == clock > lock.until

\* try_lock succeeds when nobody else has an unexpired lock
MayLock(table, f, a) == f \notin DOMAIN table \/ Expired(table[f]) \/ table[f].by = a

NewLock(a, t, d) == [by |-> a, task |-> t, until |-> clock + d]

Lock(a, f, t, d) ==
  /\ IF MayLock(locks, f, a)
     THEN /\ locks' = SetEntry(locks, f, NewLock(a, t, d))
          /\ believes' = SetEntry(believes, <<a, f>>, clock + d)
     ELSE UNCHANGED <<locks, believes>>
  /\ UNCHANGED <<clock, dependencies, completed_tasks, late>>

Unlock(a, f) ==
  /\ locks' = (IF f \in DOMAIN locks /\ locks[f].by = a THEN DropEntries(locks, {f}) ELSE locks)
  /\ believes' = DropEntries(believes, {<<a, f>>})
  /\ UNCHANGED <<clock, dependencies, completed_tasks, late>>

\* check_conflicts, which asks before it comes to try_lock
Conflicting(f, a) == f \in DOMAIN locks /\ locks[f].by # a /\ clock <= locks[f].until

-----------------------------------------------------------------------------
(* Tasks *)

\* Who of the agents that want file f, of pairs of an agent and a file, can have it
Takers(f, wanted) == {a \in Agents : <<a, f>> \in wanted /\ MayLock(locks, f, a)}

\* setup_task takes the locks agent by agent.  A lock that was just taken keeps the others
\* out, so that of those who can have a file the one whose turn is first gets it.
LockAll(t, d, wanted) ==
  LET won == {f \in Files : Takers(f, wanted) # {}} IN
  \E first \in [won -> Agents], turn \in [Agents -> 1..Cardinality(Agents)] :
    /\ \A a, b \in Agents : turn[a] = turn[b] => a = b
    /\ \A f \in won : first[f] \in Takers(f, wanted) /\ \A a \in Takers(f, wanted) : turn[first[f]] <= turn[a]
    /\ locks' = [f \in DOMAIN locks \cup won |-> IF f \in won THEN NewLock(first[f], t, d) ELSE locks[f]]
    /\ LET had == {<<first[f], f>> : f \in won} IN
         believes' = [b \in DOMAIN believes \cup had |-> IF b \in had THEN clock + d ELSE believes[b]]

SetupTask(t, deps, wanted, d) ==
  /\ dependencies' = dependencies \cup {[from |-> e[1], to |-> e[2], status |-> "waiting"] : e \in deps}
  /\ late' = late \cup {e \in deps : e[2] \in completed_tasks}
  /\ LockAll(t, d, wanted)
  /\ UNCHANGED <<clock, completed_tasks>>

\* Mutant: what waits for the task itself is looked for, not what it was waited for
ReleasedBySource(t) == {d \in dependencies : d.from = t /\ d.status = "waiting"}

Released(t) == {d \in dependencies : d.to = t /\ d.status = "waiting"}

CompleteTask(a, t) ==
  /\ LET mine == {f \in DOMAIN locks : locks[f].by = a /\ locks[f].task = t} IN
       /\ locks' = DropEntries(locks, mine)
       /\ believes' = DropEntries(believes, {<<a, f>> : f \in mine})
  /\ completed_tasks' = completed_tasks \cup {t}
  /\ dependencies' = (dependencies \ Released(t)) \cup {[d EXCEPT !.status = "ready"] : d \in Released(t)}
  /\ UNCHANGED <<clock, late>>

HubNext ==
  \/ Tick
  \/ \E a \in Agents, f \in Files :
       \/ \E t \in Tasks, d \in Durations : Lock(a, f, t, d)
       \/ Unlock(a, f)
  \/ \E t \in Tasks, d \in Durations, wanted \in SUBSET (Agents \X Files), e \in Tasks \X Tasks :
       e[1] # e[2] /\ SetupTask(t, {e}, wanted, d)
  \/ \E a \in Agents, t \in Tasks : CompleteTask(a, t)

HubSpec == HubInit /\ [][HubNext]_hubVars

-----------------------------------------------------------------------------
\* An agent that was told it has a file, and neither gave it back nor completed the
\* task it has it for, has it as long as it was promised: nobody else is given the
\* lock, and everybody who asks is warned of the conflict.
LocksExclusive ==
  \A b \in DOMAIN believes :
    clock <= believes[b] =>
      /\ b[2] \in DOMAIN locks /\ locks[b[2]].by = b[1]
      /\ \A a \in Agents \ {b[1]} : ~MayLock(locks, b[2], a) /\ Conflicting(b[2], a)

\* A task waits for no completed task, unless it was set up after that was completed
\* (add_dependency does not look at completed_tasks), and is released by nothing else.
WaitersReleased ==
  \A d \in dependencies :
    IF d.status = "ready" THEN d.to \in completed_tasks
    ELSE d.to \in completed_tasks => <<d.from, d.to>> \in late

\* What the agents of a hub rely on when they work side by side
HubSound == LocksExclusive /\ WaitersReleased
=============================================================================
