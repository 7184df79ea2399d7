---------------------------- MODULE DatasetLocks ----------------------------
(***************************************************************************)
(* The registry of per-dataset locks that adds and deletes share.  The     *)
(* registry only knows a mutex as long as somebody has an Arc of it: a     *)
(* task that asks for a key nobody uses makes a new mutex, and entries     *)
(* whose mutex is gone are pruned.  A task takes the keys of a hold in     *)
(* ascending order, and inside the hold it may ask for them again.         *)
(*                                                                         *)
(* Callers are any tasks that keep the two rules of the registry: what     *)
(* may be asked for again is taken with `hold', and a nested request asks  *)
(* for keys that are held already or lie above those the task has.         *)
(***************************************************************************)
EXTENDS Naturals, Sequences, FiniteSets

CONSTANTS
  Tasks,           \* the tasks of one process
  Keys,            \* dataset ids, by their order
  Mutexes,         \* names for the mutexes of one key
  PruneThreshold,  \* PRUNE_THRESHOLD
  MaxDepth,        \* bound on nested requests
  None

ASSUME LockAssumption ==
  /\ Keys \subseteq Nat
  /\ IsFiniteSet(Keys)
  /\ None \notin Tasks
  /\ None \notin Mutexes
  /\ Mutexes # {}
  /\ PruneThreshold \in Nat
  /\ MaxDepth \in Nat

VARIABLES
  pc,      \* pc[t]: "body", "resolve", "wait" or "drop"
  frames,  \* frames[t]: the requests the task is inside of, innermost last
  asked,   \* asked[t]: the request that is being granted
  want,    \* want[t]: its keys still to be taken
  got,     \* got[t]: the keys whose mutex the task has locked
  shed,    \* shed[t]: the keys whose guards are being dropped
  ref,     \* ref[t][k]: the mutex of k the task has an Arc of
  entry,   \* entry[k]: the mutex the registry's weak entry for k names
  owner    \* owner[k][m]: the task that has locked mutex m of k

vars == <<pc, frames, asked, want, got, shed, ref, entry, owner>>

Kinds == {"lock", "hold"}
Request == [kind: Kinds, keys: SUBSET Keys]
NoRequest == [kind |-> "lock", keys |-> {}]

Goto(t, s) == pc' = [pc EXCEPT ![t] = s]

\* The task-local HELD set: keys of the holds the task is inside of.
Held(t) ==
  UNION {frames[t][i].keys : i \in {j \in DOMAIN frames[t] : frames[t][j].kind = "hold"}}

\* An entry names a mutex somebody still has an Arc of.
Live(k) == entry[k] # None /\ \E t \in Tasks : ref[t][k] = entry[k]

Present == {k \in Keys : entry[k] # None}

\* Callers keep clear of what they have locked, and ask upwards.
Ascending(t, keys) == \A k \in keys, j \in got[t] : j < k

-----------------------------------------------------------------------------
\* Mutant: keys the task holds are taken again.
AskAgain(t, kind, keys) ==
  /\ pc[t] = "body"
  /\ Len(frames[t]) < MaxDepth
  /\ keys # {} /\ Ascending(t, keys \ Held(t))
  /\ asked' = [asked EXCEPT ![t] = [kind |-> kind, keys |-> keys]]
  /\ want' = [want EXCEPT ![t] = keys]
  /\ Goto(t, "resolve")
  /\ UNCHANGED <<frames, got, shed, ref, entry, owner>>

\* Mutant: a request for held keys gets guards of its own on them.
AskNested(t, kind, keys) ==
  /\ pc[t] = "body"
  /\ Len(frames[t]) < MaxDepth
  /\ \/ /\ keys \ Held(t) = {}
        /\ frames' = [frames EXCEPT ![t] = Append(@, [kind |-> kind, keys |-> keys])]
        /\ UNCHANGED <<pc, asked, want>>
     \/ /\ keys \ Held(t) # {}
        /\ Ascending(t, keys \ Held(t))
        /\ asked' = [asked EXCEPT ![t] = [kind |-> kind, keys |-> keys \ Held(t)]]
        /\ want' = [want EXCEPT ![t] = keys \ Held(t)]
        /\ Goto(t, "resolve")
        /\ UNCHANGED frames
  /\ UNCHANGED <<got, shed, ref, entry, owner>>

\* lock (one key) and hold (any set): keys held already are not taken again,
\* and a request for nothing else is granted at once.
Ask(t, kind, keys) ==
  /\ pc[t] = "body"
  /\ Len(frames[t]) < MaxDepth
  /\ \/ /\ keys \ Held(t) = {}
        /\ frames' = [frames EXCEPT ![t] = Append(@, [kind |-> kind, keys |-> {}])]
        /\ UNCHANGED <<pc, asked, want>>
     \/ /\ keys \ Held(t) # {}
        /\ Ascending(t, keys \ Held(t))
        /\ asked' = [asked EXCEPT ![t] = [kind |-> kind, keys |-> keys \ Held(t)]]
        /\ want' = [want EXCEPT ![t] = keys \ Held(t)]
        /\ Goto(t, "resolve")
        /\ UNCHANGED frames
  /\ UNCHANGED <<got, shed, ref, entry, owner>>

\* The sorted order of hold.
NextKey(t) == CHOOSE k \in want[t] : \A j \in want[t] : k <= j

\* Mutants: live entries are pruned as well; nothing is pruned.
KeptNone == IF Cardinality(Present) >= PruneThreshold THEN {} ELSE Present
KeptAll == Present

\* The entries a new one is inserted beside.
Kept ==
  IF Cardinality(Present) >= PruneThreshold THEN {k \in Present : Live(k)} ELSE Present

NewMutex(k) == CHOOSE m \in Mutexes : \A t \in Tasks : ref[t][k] # m

\* lock_arc, under the map's own lock.
Resolve(t) ==
  /\ pc[t] = "resolve"
  /\ LET k == NextKey(t)
     IN \/ /\ Live(k)
           /\ ref' = [ref EXCEPT ![t][k] = entry[k]]
           /\ UNCHANGED <<entry, owner>>
        \/ /\ ~ Live(k)
           /\ ref' = [ref EXCEPT ![t][k] = NewMutex(k)]
           /\ entry' = [j \in Keys |->
                IF j = k THEN NewMutex(k) ELSE IF j \in Kept THEN entry[j] ELSE None]
           /\ owner' = [owner EXCEPT ![k][NewMutex(k)] = None]
  /\ Goto(t, "wait")
  /\ UNCHANGED <<frames, asked, want, got, shed>>

\* lock_owned completes; after the last key the body runs.
Acquire(t) ==
  /\ pc[t] = "wait"
  /\ LET k == NextKey(t)
     IN /\ owner[k][ref[t][k]] = None
        /\ owner' = [owner EXCEPT ![k][ref[t][k]] = t]
        /\ got' = [got EXCEPT ![t] = @ \union {k}]
        /\ want' = [want EXCEPT ![t] = @ \ {k}]
        /\ \/ /\ want[t] # {k}
              /\ Goto(t, "resolve")
              /\ UNCHANGED <<frames, asked>>
           \/ /\ want[t] = {k}
              /\ Goto(t, "body")
              /\ frames' = [frames EXCEPT ![t] = Append(@, asked[t])]
              /\ asked' = [asked EXCEPT ![t] = NoRequest]
  /\ UNCHANGED <<shed, ref, entry>>

\* The guards of `keys' go out of scope.
Shed(t, keys) ==
  /\ shed' = [shed EXCEPT ![t] = keys]
  /\ Goto(t, IF keys = {} THEN "body" ELSE "drop")

\* The innermost request is over.
Leave(t) ==
  /\ pc[t] = "body"
  /\ frames[t] # <<>>
  /\ Shed(t, frames[t][Len(frames[t])].keys)
  /\ frames' = [frames EXCEPT ![t] = SubSeq(@, 1, Len(@) - 1)]
  /\ UNCHANGED <<asked, want, got, ref, entry, owner>>

\* The task's future is dropped at an await, with everything it has or awaits.
Cancel(t) ==
  /\ pc[t] \in {"body", "wait"}
  /\ Shed(t, {k \in Keys : ref[t][k] # None})
  /\ frames' = [frames EXCEPT ![t] = <<>>]
  /\ asked' = [asked EXCEPT ![t] = NoRequest]
  /\ want' = [want EXCEPT ![t] = {}]
  /\ UNCHANGED <<got, ref, entry, owner>>

\* One guard is dropped: its mutex is unlocked if the task had locked it, and
\* the Arc goes with it.
DropGuard(t) ==
  /\ pc[t] = "drop"
  /\ \E k \in shed[t] :
       /\ owner' = [owner EXCEPT ![k][ref[t][k]] = IF @ = t THEN None ELSE @]
       /\ ref' = [ref EXCEPT ![t][k] = None]
       /\ got' = [got EXCEPT ![t] = @ \ {k}]
       /\ Shed(t, shed[t] \ {k})
  /\ UNCHANGED <<frames, asked, want, entry>>

-----------------------------------------------------------------------------
Init ==
  /\ pc = [t \in Tasks |-> "body"]
  /\ frames = [t \in Tasks |-> <<>>]
  /\ asked = [t \in Tasks |-> NoRequest]
  /\ want = [t \in Tasks |-> {}]
  /\ got = [t \in Tasks |-> {}]
  /\ shed = [t \in Tasks |-> {}]
  /\ ref = [t \in Tasks |-> [k \in Keys |-> None]]
  /\ entry = [k \in Keys |-> None]
  /\ owner = [k \in Keys |-> [m \in Mutexes |-> None]]

AskLock(t) == \E k \in Keys : Ask(t, "lock", {k})
AskHold(t) == \E keys \in SUBSET Keys : Ask(t, "hold", keys)

Next ==
  \E t \in Tasks :
    \/ AskLock(t) \/ AskHold(t)
    \/ Resolve(t) \/ Acquire(t) \/ Leave(t) \/ Cancel(t) \/ DropGuard(t)

Spec == Init /\ [][Next]_vars

\* A polled task goes on; the mutex is fair, so a waiter is not overtaken for
\* ever; every critical section ends, its nested requests included.
Fairness ==
  \A t \in Tasks :
    /\ WF_vars(Resolve(t) \/ Leave(t) \/ DropGuard(t))
    /\ SF_vars(Acquire(t))
    /\ SF_vars(Len(frames[t]) = 1 /\ Leave(t))

FairSpec == Spec /\ Fairness

-----------------------------------------------------------------------------
(* Properties. *)

\* Steps, requests, guards and mutexes keep their types.
TypeOK ==
  /\ pc \in [Tasks -> {"body", "resolve", "wait", "drop"}]
  /\ frames \in [Tasks -> Seq(Request)]
  /\ asked \in [Tasks -> Request]
  /\ want \in [Tasks -> SUBSET Keys]
  /\ got \in [Tasks -> SUBSET Keys]
  /\ shed \in [Tasks -> SUBSET Keys]
  /\ ref \in [Tasks -> [Keys -> Mutexes \union {None}]]
  /\ entry \in [Keys -> Mutexes \union {None}]
  /\ owner \in [Keys -> [Mutexes -> Tasks \union {None}]]

\* Two tasks are never both inside the lock of one dataset, although each of them
\* may have found a dead entry, a pruned one or none and made a mutex of its own.
OneTaskInside == \A t, u \in Tasks : t # u => got[t] \cap got[u] = {}

\* A task inside a hold is inside the lock of all its keys until the hold is over,
\* whatever nested requests it made and left meanwhile.
HoldKeeps ==
  \A t \in Tasks : \A i \in DOMAIN frames[t] : frames[t][i].keys \subseteq got[t]

\* What a step that adds an entry may do.
BoundedGrowth ==
  Cardinality(Present') > Cardinality(Present) =>
    Cardinality(Present') <= PruneThreshold \/ (\A k \in Present' : Live(k)')

\* The registry grows past PRUNE_THRESHOLD only when every entry is alive, so it is
\* bounded by the locks in use and not by the datasets ever asked about.
RegistryBounded == [][BoundedGrowth]_vars

\* Whoever waits for a lock gets it or gives up: no holds, nested or not, wait on
\* each other or on themselves for ever.
WaitersServed ==
  \A t \in Tasks : pc[t] = "wait" ~> pc[t] # "wait"
=============================================================================
