-------------------------- MODULE RunRegistryProofs --------------------------
(***************************************************************************)
(* Proofs about RunRegistry, for any number of runs, callers and           *)
(* subscribers and any size of the table.                                  *)
(***************************************************************************)
EXTENDS RunRegistry, FiniteSetTheorems, TLAPS

Entering == {"scan", "evict", "create", "order", "run"}
CallerType ==
  [pc: {"free", "inline", "handle", "finisher"} \cup Entering,
   run: Runs \cup {None}, victim: Runs \cup {None}]

\* The types the proof needs.
Typed ==
  /\ slots \in [Runs -> Slot \cup {None}]
  /\ caller \in [Callers -> CallerType]
  /\ called \in [Runs -> {"no", "yes", "refused"}]
  /\ work \in [Runs -> {"none", "start", "work", "mute", "dropped"} \cup Terminal]
  /\ "pc" \in DOMAIN down

\* A call that is not yet running its work has a run of its own, which nobody has
\* begun.
Own ==
  /\ \A c \in Callers : caller[c].pc \in Entering =>
       /\ caller[c].run \in Runs
       /\ called[caller[c].run] = "yes" /\ work[caller[c].run] = "none"
  /\ \A c \in Callers : caller[c].pc # "free" => called[caller[c].run] # "no"
  /\ \A c, d \in Callers : /\ caller[c].pc # "free" /\ caller[d].pc # "free"
                           /\ caller[c].run = caller[d].run
                           => c = d
  /\ \A r \in Runs : called[r] = "no" => work[r] = "none"

\* While the registry is up, a run that counts as finished is over, and so is one
\* that a caller has picked to evict or retention has listed.
FinishedOver ==
  down.pc = "up" =>
    /\ \A r \in Finished : work[r] \in Over
    /\ \A c \in Callers : caller[c].pc = "evict" => work[caller[c].victim] \in Over
    /\ \A r \in retention.ids : r \in Runs /\ work[r] \in Over

EvictInv == Typed /\ Own /\ FinishedOver

\* Only a run that has begun has a task to abort.
Begun ==
  /\ aborted \in [Runs -> BOOLEAN]
  /\ \A c \in Callers : caller[c].pc \in {"inline", "handle", "finisher"} =>
       caller[c].run \in Runs /\ work[caller[c].run] # "none"
  /\ \A r \in Live : slots[r].handle => work[r] # "none"
  /\ \A r \in Runs : aborted[r] => work[r] # "none"

-----------------------------------------------------------------------------
LEMMA EvictInit == Init => EvictInv
<1> SUFFICES ASSUME Init PROVE EvictInv
  OBVIOUS
<1>1. Typed
  BY DEF Init, Typed, CallerType
<1>2. Own /\ FinishedOver
  BY DEF Init, Own, FinishedOver, Entering, Finished, Live
<1> QED
  BY <1>1, <1>2 DEF EvictInv

LEMMA CheckCapacityEvict ==
  ASSUME EvictInv, NEW c \in Callers, NEW r \in Runs, CheckCapacity(c, r)
  PROVE  EvictInv'
<1> USE DEF EvictInv, CheckCapacity
<1>1. PICK p \in {"create", "scan"} :
        caller' = [caller EXCEPT ![c] = [pc |-> p, run |-> r, victim |-> None]]
  OBVIOUS
<1>2. Typed'
  BY <1>1 DEF Typed, CallerType, Entering
<1>3. Own'
  BY <1>1 DEF Own, Typed, CallerType, Entering
<1>4. FinishedOver'
  BY <1>1 DEF FinishedOver, Typed, CallerType, Finished, Live
<1> QED
  BY <1>2, <1>3, <1>4

LEMMA CallerEvict ==
  ASSUME EvictInv, NEW c \in Callers, CallerStep(c)
  PROVE  EvictInv'
<1> USE DEF EvictInv
<1>1. CASE Scan(c)
  <2>1. PICK i \in DOMAIN order : /\ IsFirst(i)
                                  /\ caller' = [caller EXCEPT ![c].pc = "evict", ![c].victim = order[i]]
    BY <1>1 DEF Scan
  <2>2. order[i] \in Finished /\ order[i] \in Runs
    BY <2>1 DEF IsFirst, Evictable, Finished, Live
  <2>3. UNCHANGED <<slots, called, work, down, retention>>
    BY <1>1 DEF Scan, runVars
  <2>4. Typed'
    BY <2>1, <2>2, <2>3 DEF Typed, CallerType, Entering
  <2>5. Own'
    BY <1>1, <2>1, <2>3 DEF Scan, Own, Typed, CallerType, Entering
  <2>6. FinishedOver'
    BY <2>1, <2>2, <2>3 DEF FinishedOver, Typed, CallerType, Finished, Live
  <2> QED
    BY <2>4, <2>5, <2>6
<1>2. CASE Refuse(c)
  <2>1. Typed'
    BY <1>2 DEF Refuse, Free, Typed, CallerType, Entering
  <2>2. Own'
    BY <1>2 DEF Refuse, Free, Own, Typed, CallerType, Entering
  <2>3. FinishedOver'
    BY <1>2 DEF Refuse, Free, FinishedOver, Typed, CallerType, Finished, Live
  <2> QED
    BY <2>1, <2>2, <2>3
<1>3. CASE Evict(c)
  <2>1. Typed'
    BY <1>3 DEF Evict, runVars, Typed, CallerType, Entering
  <2>2. Own'
    BY <1>3 DEF Evict, runVars, Own, Typed, CallerType, Entering
  <2>3. FinishedOver'
    BY <1>3 DEF Evict, runVars, FinishedOver, Typed, CallerType, Finished, Live
  <2> QED
    BY <2>1, <2>2, <2>3
<1>4. CASE CreateSlot(c)
  <2>1. caller[c].run \in Runs
    BY <1>4 DEF CreateSlot, Own, Entering
  <2>2. PICK p \in {"run", "order"} : caller' = [caller EXCEPT ![c].pc = p]
    BY <1>4 DEF CreateSlot, Goto
  <2>3. Typed'
    <3>1. slots' \in [Runs -> Slot \cup {None}]
      <4>1. CASE slots[caller[c].run] # None
        <5>1. slots[caller[c].run] \in Slot
          BY <2>1, <4>1 DEF Typed
        <5>2. [slots[caller[c].run] EXCEPT !.known = TRUE] \in Slot
          BY <5>1 DEF Slot
        <5> QED
          BY <1>4, <4>1, <5>2 DEF CreateSlot, Typed
      <4>2. CASE slots[caller[c].run] = None
        <5>1. [chan |-> caller[c].run, finished |-> FALSE, handle |-> FALSE, known |-> TRUE] \in Slot
          BY <2>1 DEF Slot, Chans
        <5> QED
          BY <1>4, <4>2, <5>1 DEF CreateSlot, Typed
      <4> QED
        BY <4>1, <4>2
    <3> QED
      BY <1>4, <2>2, <3>1 DEF CreateSlot, runVars, Typed, CallerType, Entering
  <2>4. Own'
    BY <1>4, <2>2 DEF CreateSlot, runVars, Own, Typed, CallerType, Entering
  <2>5. \A r \in Finished' : r \in Finished
    BY <1>4, <2>1 DEF CreateSlot, Finished, Live, Typed, Slot
  <2>6. FinishedOver'
    BY <1>4, <2>2, <2>5 DEF CreateSlot, runVars, FinishedOver, Typed, CallerType
  <2> QED
    BY <2>3, <2>4, <2>6
<1>5. CASE PushOrder(c)
  <2>1. Typed'
    BY <1>5 DEF PushOrder, Goto, runVars, Typed, CallerType, Entering
  <2>2. Own'
    BY <1>5 DEF PushOrder, Goto, runVars, Own, Typed, CallerType, Entering
  <2>3. FinishedOver'
    BY <1>5 DEF PushOrder, Goto, runVars, FinishedOver, Typed, CallerType, Finished, Live
  <2> QED
    BY <2>1, <2>2, <2>3
<1>6. ASSUME caller[c].pc = "run", NEW p \in {"inline", "handle"}, Goto(c, p),
             work' = [work EXCEPT ![caller[c].run] = "start"], UNCHANGED <<slots, called, down, retention>>
      PROVE  EvictInv'
  <2>1. caller[c].run \in Runs /\ work[caller[c].run] = "none"
    BY <1>6 DEF Own, Entering
  <2>2. Typed'
    BY <1>6 DEF Goto, Typed, CallerType, Entering
  <2>3. Own'
    BY <1>6, <2>1 DEF Goto, Own, Typed, CallerType, Entering
  <2>4. FinishedOver'
    BY <1>6, <2>1 DEF Goto, FinishedOver, Typed, CallerType, Finished, Live, Over, Terminal
  <2> QED
    BY <2>2, <2>3, <2>4
<1>7. CASE RunInline(c)
  BY <1>6, <1>7 DEF RunInline
<1>8. CASE Spawn(c)
  BY <1>6, <1>8 DEF Spawn
<1>9. CASE FinishSlot(c)
  <2>1. Typed'
    <3>1. slots' \in [Runs -> Slot \cup {None}]
      <4>1. CASE caller[c].run \in Runs /\ slots[caller[c].run] # None
        <5>1. [slots[caller[c].run] EXCEPT !.finished = TRUE] \in Slot
          BY <4>1 DEF Typed, Slot
        <5> QED
          BY <1>9, <4>1, <5>1 DEF FinishSlot, Typed
      <4>2. CASE ~(caller[c].run \in Runs /\ slots[caller[c].run] # None)
        BY <1>9, <4>2 DEF FinishSlot, Typed
      <4> QED
        BY <4>1, <4>2
    <3> QED
      BY <1>9, <3>1 DEF FinishSlot, Free, runVars, Typed, CallerType, Entering
  <2>2. Own'
    BY <1>9 DEF FinishSlot, Free, runVars, Own, Typed, CallerType, Entering
  <2>3. \A r \in Finished' : r \in Finished \/ work[r] \in Over
    BY <1>9 DEF FinishSlot, Finished, Live, Typed, Slot, Over
  <2>4. FinishedOver'
    BY <1>9, <2>3 DEF FinishSlot, Free, runVars, FinishedOver, Typed, CallerType
  <2> QED
    BY <2>1, <2>2, <2>4
<1>10. CASE StoreHandle(c)
  <2>1. Typed'
    BY <1>10 DEF StoreHandle, Goto, runVars, Typed, CallerType, Entering, Slot
  <2>2. Own'
    BY <1>10 DEF StoreHandle, Goto, runVars, Own, Typed, CallerType, Entering
  <2>3. \A r \in Finished' : r \in Finished
    BY <1>10 DEF StoreHandle, Finished, Live, Typed, Slot
  <2>4. FinishedOver'
    BY <1>10, <2>3 DEF StoreHandle, Goto, runVars, FinishedOver, Typed, CallerType
  <2> QED
    BY <2>1, <2>2, <2>4
<1>11. CASE SpawnFinisher(c)
  <2>1. Typed'
    BY <1>11 DEF SpawnFinisher, Free, Typed, CallerType, Entering
  <2>2. Own'
    BY <1>11 DEF SpawnFinisher, Free, Own, Typed, CallerType, Entering
  <2>3. FinishedOver'
    BY <1>11 DEF SpawnFinisher, Free, FinishedOver, Typed, CallerType, Finished, Live
  <2> QED
    BY <2>1, <2>2, <2>3
<1> QED
  BY <1>1, <1>2, <1>3, <1>4, <1>5, <1>7, <1>8, <1>9, <1>10, <1>11 DEF CallerStep

LEMMA RunEvict ==
  ASSUME EvictInv, Begun, NEW r \in Runs, RunStep(r)
  PROVE  EvictInv'
<1> USE DEF EvictInv
<1>1. ASSUME NEW w, w \in {"work", "mute", "dropped"} \cup Terminal, work[r] # "none", work[r] \notin Over,
             work' = [work EXCEPT ![r] = w], UNCHANGED <<slots, caller, called, down, retention>>
      PROVE  EvictInv'
  <2>1. Typed'
    BY <1>1 DEF Typed
  <2>2. Own'
    BY <1>1 DEF Own, Typed, Entering
  <2>3. FinishedOver'
    BY <1>1 DEF FinishedOver, Typed, Finished, Live, Over
  <2> QED
    BY <2>1, <2>2, <2>3
<1>2. CASE StartedRow(r)
  <2>1. PICK w \in {"work", "mute"} : work' = [work EXCEPT ![r] = w]
    BY <1>2 DEF StartedRow
  <2>2. work[r] # "none" /\ work[r] \notin Over
    BY <1>2 DEF StartedRow, Over, Terminal
  <2> QED
    BY <1>1, <1>2, <2>1, <2>2 DEF StartedRow
<1>3. CASE DropTask(r)
  BY <1>1, <1>3 DEF DropTask, Begun
<1>4. CASE Finisher(r)
  BY <1>4 DEF Finisher, Typed, Own, FinishedOver, Finished, Live
<1>5. ASSUME NEW res \in Results, WorkEnds(r, res)
      PROVE  EvictInv'
  <2>1. res \in Terminal
    BY ResultsAssumption DEF Terminal
  <2>2. work[r] # "none" /\ work[r] \notin Over
    BY <1>5 DEF WorkEnds, Over, Terminal
  <2> QED
    BY <1>1, <1>5, <2>1, <2>2 DEF WorkEnds
<1> QED
  BY <1>2, <1>3, <1>4, <1>5 DEF RunStep

LEMMA OthersEvict ==
  ASSUME EvictInv,
         \/ \E s \in Subs : Placeholder(s) \/ \E r \in Asked : Subscribe(s, r)
         \/ ShutdownList \/ ShutdownStep
         \/ RetentionList \/ RetentionRemove \/ RetentionPrune
         \/ UNCHANGED vars
  PROVE  EvictInv'
<1> USE DEF EvictInv
<1>1. ASSUME UNCHANGED <<caller, called, work>>, slots' \in [Runs -> Slot \cup {None}],
             "pc" \in DOMAIN down',
             down'.pc = "up" => /\ down.pc = "up" /\ Finished' \subseteq Finished
                                /\ retention'.ids \subseteq retention.ids \cup Finished
      PROVE  EvictInv'
  <2>1. Typed'
    BY <1>1 DEF Typed
  <2>2. Own'
    BY <1>1 DEF Own
  <2>3. FinishedOver'
    BY <1>1 DEF FinishedOver, Finished, Live
  <2> QED
    BY <2>1, <2>2, <2>3
<1>2. ASSUME NEW s \in Subs, Placeholder(s)
      PROVE  EvictInv'
  <2>1. CASE slots' = slots
    BY <1>1, <1>2, <2>1 DEF Placeholder, runVars, Typed, Finished, Live
  <2>2. CASE slots' # slots
    <3> DEFINE new == [chan |-> s, finished |-> FALSE, handle |-> FALSE, known |-> FALSE]
    <3>1. slots' = [slots EXCEPT ![sub[s].run] = new] /\ slots[sub[s].run] = None
      BY <1>2, <2>2 DEF Placeholder
    <3>2. new \in Slot
      BY DEF Slot, Chans
    <3>3. slots' \in [Runs -> Slot \cup {None}]
      BY <3>1, <3>2 DEF Typed
    <3>4. Finished' \subseteq Finished
      BY <3>1 DEF Typed, Finished, Live
    <3> QED
      BY <1>1, <1>2, <3>3, <3>4 DEF Placeholder, runVars, Typed
  <2> QED
    BY <2>1, <2>2
<1>3. ASSUME NEW s \in Subs, NEW r \in Asked, Subscribe(s, r)
      PROVE  EvictInv'
  BY <1>1, <1>3 DEF Subscribe, runVars, Typed, Finished, Live
<1>4. CASE ShutdownList
  BY <1>1, <1>4 DEF ShutdownList, runVars, Typed, Finished, Live
<1>5. CASE ShutdownStep
  <2>1. down.pc # "up" /\ UNCHANGED <<caller, called, work>>
    BY <1>5 DEF ShutdownStep, AbortTask, AbortRow, AbortFinish, ShutdownClear, runVars
  <2>2. down'.pc # "up" /\ "pc" \in DOMAIN down'
    BY <1>5, <2>1 DEF Typed, ShutdownStep, AbortTask, AbortRow, AbortFinish, ShutdownClear
  <2>3. slots' \in [Runs -> Slot \cup {None}]
    <3>1. CASE AbortFinish
      <4>1. CASE down.run \in Runs /\ slots[down.run] # None
        <5>1. [slots[down.run] EXCEPT !.finished = TRUE] \in Slot
          BY <4>1 DEF Typed, Slot
        <5> QED
          BY <3>1, <4>1, <5>1 DEF AbortFinish, Typed
      <4>2. CASE ~(down.run \in Runs /\ slots[down.run] # None)
        BY <3>1, <4>2 DEF AbortFinish, Typed
      <4> QED
        BY <4>1, <4>2
    <3>2. CASE ~AbortFinish
      BY <1>5, <3>2 DEF ShutdownStep, AbortTask, AbortRow, ShutdownClear, Typed
    <3> QED
      BY <3>1, <3>2
  <2> QED
    BY <1>1, <2>1, <2>2, <2>3
<1>6. CASE RetentionRemove
  <2>1. slots' = [r \in Runs |-> IF r \in retention.ids THEN None ELSE slots[r]]
    BY <1>6 DEF RetentionRemove
  <2>2. slots' \in [Runs -> Slot \cup {None}] /\ Finished' \subseteq Finished
    BY <2>1 DEF Typed, Finished, Live
  <2> QED
    BY <1>1, <1>6, <2>2 DEF RetentionRemove, runVars, Typed
<1>7. CASE RetentionPrune
  BY <1>1, <1>7 DEF RetentionPrune, runVars, Typed, Finished, Live
<1>8. CASE UNCHANGED vars
  BY <1>1, <1>8 DEF vars, Typed, Finished, Live
<1>9. CASE RetentionList
  BY <1>1, <1>9 DEF RetentionList, runVars, Typed, Finished, Live
<1> QED
  BY <1>2, <1>3, <1>4, <1>5, <1>6, <1>7, <1>8, <1>9

LEMMA BegunInit == Init => Begun
BY DEF Init, Begun, Live

\* Work does not become undone, and a slot gets a handle only from the caller that
\* has begun the run.
LEMMA BegunFrame ==
  ASSUME EvictInv, Begun,
         UNCHANGED aborted,
         \A r \in Runs : work[r] # "none" => work'[r] # "none",
         \A c \in Callers : caller'[c].pc \in {"inline", "handle", "finisher"} =>
           caller'[c].run \in Runs /\ work'[caller'[c].run] # "none",
         \A r \in Live' : slots'[r].handle => work'[r] # "none" \/ (r \in Live /\ slots[r].handle)
  PROVE  Begun'
BY DEF Begun, Live

LEMMA BegunCaller ==
  ASSUME EvictInv, Begun, NEW c \in Callers, CallerStep(c)
  PROVE  Begun'
<1> USE DEF EvictInv
<1>1. UNCHANGED aborted
  BY DEF CallerStep, Scan, Refuse, Evict, CreateSlot, PushOrder, RunInline, FinishSlot, Spawn,
         StoreHandle, SpawnFinisher, runVars
<1>2. caller[c].pc \in Entering => caller[c].run \in Runs
  BY DEF Own
<1>3. \A r \in Runs : work[r] # "none" => work'[r] # "none"
  <2>1. CASE RunInline(c) \/ Spawn(c)
    BY <1>2, <2>1 DEF RunInline, Spawn, Typed, Entering
  <2>2. CASE ~(RunInline(c) \/ Spawn(c))
    BY <2>2 DEF CallerStep, Scan, Refuse, Evict, CreateSlot, PushOrder, FinishSlot, StoreHandle,
                SpawnFinisher, runVars
  <2> QED
    BY <2>1, <2>2
<1>4. \A d \in Callers \ {c} : caller'[d] = caller[d]
  BY DEF CallerStep, Scan, Refuse, Evict, CreateSlot, PushOrder, RunInline, FinishSlot, Spawn,
         StoreHandle, SpawnFinisher, Goto, Typed
<1>5. caller'[c].pc \in {"inline", "handle", "finisher"} =>
        caller'[c].run \in Runs /\ work'[caller'[c].run] # "none"
  <2>1. CASE RunInline(c) \/ Spawn(c)
    <3>1. caller[c].run \in Runs /\ caller'[c].run = caller[c].run
      BY <1>2, <2>1 DEF RunInline, Spawn, Goto, Typed, CallerType, Entering
    <3>2. work'[caller[c].run] = "start"
      BY <2>1, <3>1 DEF RunInline, Spawn, Typed
    <3> QED
      BY <3>1, <3>2
  <2>2. CASE StoreHandle(c)
    BY <2>2 DEF StoreHandle, Goto, runVars, Typed, CallerType, Begun
  <2>3. CASE FinishSlot(c) \/ SpawnFinisher(c) \/ Refuse(c)
    BY <2>3 DEF FinishSlot, SpawnFinisher, Refuse, Free, Typed
  <2>4. CASE Scan(c) \/ Evict(c)
    <3>1. caller'[c].pc \in {"evict", "create"}
      BY <2>4 DEF Scan, Evict, Typed, CallerType
    <3> QED
      BY <3>1
  <2>5. CASE CreateSlot(c) \/ PushOrder(c)
    <3>1. caller'[c].pc \in {"order", "run"}
      BY <2>5 DEF CreateSlot, PushOrder, Goto, Typed, CallerType
    <3> QED
      BY <3>1
  <2> QED
    BY <2>1, <2>2, <2>3, <2>4, <2>5 DEF CallerStep
<1>6. \A r \in Live' : slots'[r].handle => work'[r] # "none" \/ (r \in Live /\ slots[r].handle)
  <2>1. CASE StoreHandle(c)
    <3>1. work'[caller[c].run] # "none"
      BY <2>1 DEF StoreHandle, runVars, Begun
    <3> QED
      BY <2>1, <3>1 DEF StoreHandle, Live, Typed, Slot
  <2>2. CASE CreateSlot(c)
    BY <2>2 DEF CreateSlot, Live, Typed, Slot
  <2>3. CASE FinishSlot(c)
    BY <2>3 DEF FinishSlot, Live, Typed, Slot
  <2>4. CASE ~(StoreHandle(c) \/ CreateSlot(c) \/ FinishSlot(c))
    BY <2>4 DEF CallerStep, Scan, Refuse, Evict, PushOrder, RunInline, Spawn, SpawnFinisher, Live, Typed
  <2> QED
    BY <2>1, <2>2, <2>3, <2>4
<1>7. \A d \in Callers : caller'[d].pc \in {"inline", "handle", "finisher"} =>
        caller'[d].run \in Runs /\ work'[caller'[d].run] # "none"
  BY <1>3, <1>4, <1>5 DEF Begun
<1> QED
  BY <1>1, <1>3, <1>6, <1>7, BegunFrame

LEMMA BegunOthers ==
  ASSUME EvictInv, Begun,
         \/ \E c \in Callers, r \in Runs : CheckCapacity(c, r)
         \/ \E r \in Runs : RunStep(r)
         \/ \E s \in Subs : Placeholder(s) \/ \E r \in Asked : Subscribe(s, r)
         \/ ShutdownList \/ ShutdownStep
         \/ RetentionList \/ RetentionRemove \/ RetentionPrune
         \/ UNCHANGED vars
  PROVE  Begun'
<1> USE DEF EvictInv
<1>1. ASSUME NEW c \in Callers, NEW r \in Runs, CheckCapacity(c, r)
      PROVE  Begun'
  <2>1. caller'[c].pc \in {"create", "scan"} /\ \A d \in Callers \ {c} : caller'[d] = caller[d]
    BY <1>1 DEF CheckCapacity, Typed
  <2> QED
    BY <1>1, <2>1 DEF CheckCapacity, Begun, Live
<1>2. ASSUME NEW r \in Runs, RunStep(r)
      PROVE  Begun'
  <2>1. UNCHANGED <<slots, caller, aborted>>
    BY <1>2 DEF RunStep, StartedRow, DropTask, Finisher, WorkEnds
  <2>2. \A q \in Runs : work[q] # "none" => work'[q] # "none"
    <3>1. \A res \in Results : res # "none"
      BY ResultsAssumption
    <3> QED
      BY <1>2, <3>1 DEF RunStep, StartedRow, DropTask, Finisher, WorkEnds, Typed
  <2> QED
    BY <2>1, <2>2, BegunFrame DEF Begun, Live
<1>3. ASSUME UNCHANGED <<caller, work>>, UNCHANGED aborted,
             \A r \in Live' : slots'[r].handle => r \in Live /\ slots[r].handle
      PROVE  Begun'
  BY <1>3, BegunFrame DEF Begun
<1>4. ASSUME NEW s \in Subs, Placeholder(s) \/ \E r \in Asked : Subscribe(s, r)
      PROVE  Begun'
  <2>1. UNCHANGED <<caller, work>> /\ UNCHANGED aborted
    BY <1>4 DEF Placeholder, Subscribe, runVars
  <2>2. \A r \in Live' : slots'[r].handle => r \in Live /\ slots[r].handle
    BY <1>4 DEF Placeholder, Subscribe, Live, Typed
  <2> QED
    BY <1>3, <2>1, <2>2
<1>5. CASE ShutdownList \/ RetentionList \/ RetentionPrune \/ UNCHANGED vars
  BY <1>3, <1>5 DEF ShutdownList, RetentionList, RetentionPrune, vars, runVars, Live
<1>6. CASE RetentionRemove
  BY <1>3, <1>6 DEF RetentionRemove, runVars, Live
<1>7. ASSUME NEW r \in Runs, AbortTask(r)
      PROVE  Begun'
  BY <1>7 DEF AbortTask, Begun, Live
<1>8. CASE AbortRow \/ ShutdownClear
  BY <1>3, <1>8 DEF AbortRow, ShutdownClear, runVars, Live
<1>9. CASE AbortFinish
  <2>1. \A r \in Live' : slots'[r].handle => r \in Live /\ slots[r].handle
    BY <1>9 DEF AbortFinish, Live, Typed, Slot
  <2> QED
    BY <1>3, <1>9, <2>1 DEF AbortFinish, runVars
<1> QED
  BY <1>1, <1>2, <1>4, <1>5, <1>6, <1>7, <1>8, <1>9 DEF ShutdownStep

LEMMA EvictNext == EvictInv /\ Begun /\ [Next]_vars => EvictInv' /\ Begun'
<1> SUFFICES ASSUME EvictInv, Begun, [Next]_vars PROVE EvictInv' /\ Begun'
  OBVIOUS
<1>1. EvictInv'
  BY CheckCapacityEvict, CallerEvict, RunEvict, OthersEvict DEF Next
<1>2. Begun'
  BY BegunCaller, BegunOthers DEF Next
<1> QED
  BY <1>1, <1>2

\* A slot whose fields are set is still there.
LEMMA SlotKept ==
  ASSUME NEW x \in Slot
  PROVE  /\ [x EXCEPT !.known = TRUE] # None
         /\ [x EXCEPT !.finished = TRUE] # None
         /\ [x EXCEPT !.handle = TRUE] # None
<1>1. /\ [x EXCEPT !.known = TRUE] \in Slot
      /\ [x EXCEPT !.finished = TRUE] \in Slot
      /\ [x EXCEPT !.handle = TRUE] \in Slot
  BY DEF Slot
<1> QED
  BY <1>1, SlotAssumption

\* What a step may drop, given the invariant.
LEMMA EvictStep ==
  ASSUME EvictInv, [Next]_vars, NEW r \in Live, slots'[r] = None, down'.pc = down.pc, down.pc = "up"
  PROVE  work[r] \in Over
<1> USE DEF EvictInv
<1>1. slots' # slots
  BY DEF Live
<1>2. ASSUME NEW c \in Callers, CallerStep(c)
      PROVE  work[r] \in Over
  <2>1. CASE Evict(c)
    <3>1. r = caller[c].victim
      BY <2>1 DEF Evict, Typed, Live
    <3> QED
      BY <2>1, <3>1 DEF Evict, FinishedOver
  <2>2. CASE CreateSlot(c)
    <3>1. caller[c].run \in Runs /\ slots[r] # None
      BY <2>2 DEF CreateSlot, Own, Entering, Live
    <3>2. slots'[r] # None
      <4>1. CASE slots[caller[c].run] # None
        BY <2>2, <3>1, <4>1, SlotKept DEF CreateSlot, Typed, Live
      <4>2. CASE slots[caller[c].run] = None
        BY <2>2, <3>1, <4>2 DEF CreateSlot, Typed, Live
      <4> QED
        BY <4>1, <4>2
    <3> QED
      BY <3>2
  <2>3. CASE FinishSlot(c) \/ StoreHandle(c)
    BY <2>3, SlotKept DEF FinishSlot, StoreHandle, Typed, Live
  <2> QED
    BY <1>1, <1>2, <2>1, <2>2, <2>3
    DEF CallerStep, Scan, Refuse, PushOrder, RunInline, Spawn, SpawnFinisher
<1>3. ASSUME NEW s \in Subs, Placeholder(s)
      PROVE  work[r] \in Over
  BY <1>1, <1>3 DEF Placeholder, Typed, Live
<1>4. CASE RetentionRemove
  BY <1>4 DEF RetentionRemove, FinishedOver, Live
<1>5. ~ShutdownStep
  BY DEF ShutdownStep, AbortTask, AbortRow, AbortFinish, ShutdownClear
<1> QED
  BY <1>1, <1>2, <1>3, <1>4, <1>5
  DEF Next, CheckCapacity, RunStep, StartedRow, DropTask, Finisher, WorkEnds, Subscribe,
      ShutdownList, RetentionList, RetentionPrune, vars

\* Capacity and retention never drop the slot of a run that is still going: the
\* scan of ensure_capacity and the removal are two lock sections, and so are
\* retention's list and its removal, but nothing makes a finished run unfinished in
\* between.
THEOREM EvictionSafe == Spec => EvictsOnlyOver
<1>1. EvictInv /\ [Next]_vars =>
        [\A r \in Live : slots'[r] = None /\ down'.pc = down.pc => work[r] \in Over \/ down.pc # "up"]_vars
  BY EvictStep
<1>2. Spec => [](EvictInv /\ Begun)
  BY EvictInit, BegunInit, EvictNext, PTL DEF Spec
<1> QED
  BY <1>1, <1>2, PTL DEF Spec, EvictsOnlyOver

-----------------------------------------------------------------------------
(* Shutdown. *)

DownType ==
  [pc: {"up", "next", "row", "finish", "down"}, todo: SUBSET Runs, run: Runs \cup {None},
   chan: Chans \cup {None}, inFlight: SUBSET Runs, begun: SUBSET Runs]

\* Inline calls have inline runs; what shutdown has found in flight has begun and is
\* nobody's any more.
Shape ==
  /\ row \in [Runs -> {None, "Started"} \cup Terminal]
  /\ down \in DownType
  /\ \A c \in Callers :
       /\ caller[c].pc = "free" => caller[c].run = None
       /\ caller[c].pc = "inline" => caller[c].run \in Inline
       /\ caller[c].pc \in {"handle", "finisher"} => caller[c].run \notin Inline
  /\ \A r \in Runs : r \notin Inline => work[r] # "mute"
  /\ \A r \in down.inFlight : /\ r \notin Inline /\ work[r] # "none"
                              /\ \A c \in Callers : caller[c].run # r
  /\ \A r \in down.begun : r \in down.inFlight /\ work[r] # "start"

InPlace(r) == slots[r] # None /\ ~slots[r].finished

\* While the registry is up, background runs keep their slots: nothing finishes or
\* evicts them, and nothing is aborted.
Up ==
  down.pc = "up" =>
    /\ \A r \in Runs : ~aborted[r]
    /\ \A r \in Finished : r \in Inline
    /\ \A c \in Callers : caller[c].pc = "evict" => caller[c].victim \in Inline
    /\ retention.ids \subseteq Inline
    /\ \A c \in Callers :
         caller[c].pc \in {"order", "run", "handle", "finisher"} /\ caller[c].run \notin Inline =>
           InPlace(caller[c].run)
    /\ \A c \in Callers : caller[c].pc = "finisher" => slots[caller[c].run].handle
    /\ \A r \in InFlight : InPlace(r) /\ slots[r].handle
    /\ \A r \in Runs \ Inline : work[r] \in {"none", "start"} => row[r] = None

\* During the shutdown, a run in flight keeps its slot until its turn; afterwards it has
\* been told to stop, and has its terminal row unless that is the next statement.
Down ==
  down.pc # "up" =>
    /\ down.pc \in {"row", "finish"} => down.run \in Runs \ down.todo
    /\ down.pc = "down" => down.todo = {}
    /\ \A r \in down.inFlight \cap down.todo : InPlace(r) /\ slots[r].handle
    /\ \A c \in Callers : caller[c].pc = "evict" => caller[c].victim \notin down.inFlight \cap down.todo
    /\ retention.ids \cap down.inFlight \cap down.todo = {}
    /\ \A r \in down.inFlight \ down.todo : aborted[r]
    /\ \A r \in down.begun \ (down.todo \cup Flaky) :
         row[r] \in Terminal \/ (down.pc = "row" /\ down.run = r)

StopInv == Shape /\ Up /\ Down

Stop == EvictInv /\ Begun /\ StopInv

LEMMA StopInit == Init => StopInv
<1> SUFFICES ASSUME Init PROVE StopInv
  OBVIOUS
<1>1. Shape
  BY DEF Init, Shape, DownType
<1>2. Up /\ Down
  BY DEF Init, Up, Down, Finished, Live, InFlight
<1> QED
  BY <1>1, <1>2 DEF StopInv

LEMMA CallerStop ==
  ASSUME Stop, NEW c \in Callers, CallerStep(c)
  PROVE  Shape' /\ Up' /\ Down'
<1> USE DEF Stop, StopInv, EvictInv, Typed, Begun
<1>1. CASE Scan(c)
  <2>8. Shape'
    BY <1>1 DEF Scan, IsFirst, Evictable, Finished, Live, runVars, Shape, DownType, Own, CallerType, Entering
  <2>9. Up'
    BY <1>1 DEF Scan, IsFirst, Evictable, Finished, Live, runVars, Up, InPlace, InFlight, Finished, Live, Own, Shape, CallerType, Entering
  <2>10. Down'
    BY <1>1 DEF Scan, IsFirst, Evictable, Finished, Live, runVars, Down, Shape, DownType, InPlace, Own, CallerType, Entering
  <2> QED
    BY <2>8, <2>9, <2>10
<1>2. CASE Refuse(c)
  <2>8. Shape'
    BY <1>2, NoneAssumption DEF Refuse, Free, Shape, DownType, Own, CallerType, Entering
  <2>9. Up'
    BY <1>2, NoneAssumption DEF Refuse, Free, Up, InPlace, InFlight, Finished, Live, Own, Shape, CallerType, Entering
  <2>10. Down'
    BY <1>2, NoneAssumption DEF Refuse, Free, Down, Shape, DownType, InPlace, Own, CallerType, Entering
  <2> QED
    BY <2>8, <2>9, <2>10
<1>3. CASE Evict(c)
  <2>8. Shape'
    BY <1>3 DEF Evict, runVars, Shape, DownType, Own, CallerType, Entering
  <2>9. Up'
    BY <1>3 DEF Evict, runVars, Up, InPlace, InFlight, Finished, Live, Own, Shape, CallerType, Entering
  <2>10. Down'
    BY <1>3 DEF Evict, runVars, Down, Shape, DownType, InPlace, Own, CallerType, Entering
  <2> QED
    BY <2>8, <2>9, <2>10
<1>4. CASE CreateSlot(c)
  <2>0. caller[c].pc = "create"
    BY <1>4 DEF CreateSlot
  <2>1. caller[c].run \in Runs
    BY <1>4 DEF CreateSlot, Own, Entering
  <2>2. \A q \in Runs \ {caller[c].run} : slots'[q] = slots[q]
    BY <1>4 DEF CreateSlot
  <2>3. \A d \in Callers \ {c} : caller'[d] = caller[d]
    BY <1>4 DEF CreateSlot, Goto
  <2>4. UNCHANGED <<called, work, aborted, row, down, retention>>
    BY <1>4 DEF CreateSlot, runVars
  <2>5. caller'[c].pc \in {"run", "order"} /\ caller'[c].run = caller[c].run
    BY <1>4 DEF CreateSlot, Goto, CallerType
  <2>6. /\ slots'[caller[c].run] # None
        /\ slots[caller[c].run] # None =>
             /\ slots'[caller[c].run].finished = slots[caller[c].run].finished
             /\ slots'[caller[c].run].handle = slots[caller[c].run].handle
        /\ slots[caller[c].run] = None => ~slots'[caller[c].run].finished
    <3>1. CASE slots[caller[c].run] # None
      <4>1. slots[caller[c].run] \in Slot
        BY <2>1, <3>1
      <4>2. slots'[caller[c].run] = [slots[caller[c].run] EXCEPT !.known = TRUE]
        BY <1>4, <2>1, <3>1 DEF CreateSlot
      <4> QED
        BY <3>1, <4>1, <4>2, SlotKept DEF Slot
    <3>2. CASE slots[caller[c].run] = None
      <4>1. slots'[caller[c].run] =
              [chan |-> caller[c].run, finished |-> FALSE, handle |-> FALSE, known |-> TRUE]
        BY <1>4, <2>1, <3>2 DEF CreateSlot
      <4>2. slots'[caller[c].run] \in Slot
        BY <2>1, <4>1 DEF Slot, Chans
      <4>3. slots'[caller[c].run] # None
        BY <4>2, SlotAssumption
      <4> QED
        BY <3>2, <4>1, <4>3
    <3> QED
      BY <3>1, <3>2
  <2>8. Shape'
    BY <2>0, <2>1, <2>2, <2>3, <2>4, <2>5, <2>6 DEF Shape, DownType, Own, CallerType, Entering
  <2>9. Up'
    <3> SUFFICES ASSUME down'.pc = "up" PROVE Up'
      BY DEF Up
    <3>0. down.pc = "up" /\ Up
      BY <2>0, <2>1, <2>2, <2>3, <2>4, <2>5, <2>6
    <3>1. \A r \in Runs : ~aborted'[r]
      BY <2>0, <2>1, <2>2, <2>3, <2>4, <2>5, <2>6, <3>0 DEF Up
    <3>2. \A r \in Finished' : r \in Inline
      BY <2>0, <2>1, <2>2, <2>3, <2>4, <2>5, <2>6, <3>0 DEF Up, Finished, Live
    <3>3. \A d \in Callers : caller'[d].pc = "evict" => caller'[d].victim \in Inline
      BY <2>0, <2>1, <2>2, <2>3, <2>4, <2>5, <2>6, <3>0 DEF Up
    <3>4. \A d \in Callers :
            caller'[d].pc \in {"order", "run", "handle", "finisher"} /\ caller'[d].run \notin Inline =>
              InPlace(caller[d].run)'
      BY <2>0, <2>1, <2>2, <2>3, <2>4, <2>5, <2>6, <3>0 DEF Up, InPlace, Finished, Live, Own, Begun, Entering
    <3>5. \A d \in Callers : caller'[d].pc = "finisher" => slots'[caller'[d].run].handle
      BY <2>0, <2>1, <2>2, <2>3, <2>4, <2>5, <2>6, <3>0 DEF Up, Own, Begun, InPlace, Shape
    <3>6. \A r \in InFlight' : InPlace(r)' /\ slots'[r].handle
      BY <2>0, <2>1, <2>2, <2>3, <2>4, <2>5, <2>6, <3>0 DEF Up, InFlight, InPlace
    <3>7. \A r \in Runs \ Inline : work'[r] \in {"none", "start"} => row'[r] = None
      BY <2>0, <2>1, <2>2, <2>3, <2>4, <2>5, <2>6, <3>0 DEF Up
    <3>8. retention'.ids \subseteq Inline
      BY <2>4, <3>0 DEF Up
    <3> QED
      BY <3>1, <3>2, <3>3, <3>4, <3>5, <3>6, <3>7, <3>8 DEF Up
  <2>10. Down'
    BY <2>0, <2>1, <2>2, <2>3, <2>4, <2>5, <2>6 DEF Down, Shape, DownType, InPlace, Own, CallerType, Entering
  <2> QED
    BY <2>8, <2>9, <2>10
<1>5. CASE PushOrder(c)
  <2>8. Shape'
    BY <1>5 DEF PushOrder, Goto, runVars, Shape, DownType, Own, CallerType, Entering
  <2>9. Up'
    BY <1>5 DEF PushOrder, Goto, runVars, Up, InPlace, InFlight, Finished, Live, Own, Shape, CallerType, Entering
  <2>10. Down'
    BY <1>5 DEF PushOrder, Goto, runVars, Down, Shape, DownType, InPlace, Own, CallerType, Entering
  <2> QED
    BY <2>8, <2>9, <2>10
<1>6. CASE RunInline(c) \/ Spawn(c)
  <2>0. caller[c].pc = "run"
    BY <1>6 DEF RunInline, Spawn
  <2>1. caller[c].run \in Runs /\ work[caller[c].run] = "none"
    BY <1>6 DEF RunInline, Spawn, Own, Entering
  <2>2. UNCHANGED <<slots, called, aborted, row, down, retention>>
    BY <1>6 DEF RunInline, Spawn
  <2>3. \A d \in Callers \ {c} : caller'[d] = caller[d]
    BY <1>6 DEF RunInline, Spawn, Goto
  <2>4. /\ caller'[c].run = caller[c].run
        /\ caller'[c].pc = IF caller[c].run \in Inline THEN "inline" ELSE "handle"
    BY <1>6 DEF RunInline, Spawn, Goto, CallerType
  <2>5. \A q \in Runs \ {caller[c].run} : work'[q] = work[q]
    BY <1>6, <2>1 DEF RunInline, Spawn
  <2>6. work'[caller[c].run] = "start"
    BY <1>6, <2>1 DEF RunInline, Spawn
  <2>8. Shape'
    BY <2>0, <2>1, <2>2, <2>3, <2>4, <2>5, <2>6 DEF Shape, DownType, Own, CallerType, Entering
  <2>9. Up'
    <3> SUFFICES ASSUME down'.pc = "up" PROVE Up'
      BY DEF Up
    <3>0. down.pc = "up" /\ Up
      BY <2>0, <2>1, <2>2, <2>3, <2>4, <2>5, <2>6
    <3>1. \A r \in Runs : ~aborted'[r]
      BY <2>0, <2>1, <2>2, <2>3, <2>4, <2>5, <2>6, <3>0 DEF Up
    <3>2. \A r \in Finished' : r \in Inline
      BY <2>0, <2>1, <2>2, <2>3, <2>4, <2>5, <2>6, <3>0 DEF Up, Finished, Live
    <3>3. \A d \in Callers : caller'[d].pc = "evict" => caller'[d].victim \in Inline
      BY <2>0, <2>1, <2>2, <2>3, <2>4, <2>5, <2>6, <3>0 DEF Up
    <3>4. \A d \in Callers :
            caller'[d].pc \in {"order", "run", "handle", "finisher"} /\ caller'[d].run \notin Inline =>
              InPlace(caller[d].run)'
      BY <2>0, <2>1, <2>2, <2>3, <2>4, <2>5, <2>6, <3>0 DEF Up, InPlace, Finished, Live, Own, Begun, Entering
    <3>5. \A d \in Callers : caller'[d].pc = "finisher" => slots'[caller'[d].run].handle
      BY <2>0, <2>1, <2>2, <2>3, <2>4, <2>5, <2>6, <3>0 DEF Up, Own, Begun, InPlace, Shape
    <3>6. \A r \in InFlight' : InPlace(r)' /\ slots'[r].handle
      BY <2>0, <2>1, <2>2, <2>3, <2>4, <2>5, <2>6, <3>0 DEF Up, InFlight, InPlace
    <3>7. \A r \in Runs \ Inline : work'[r] \in {"none", "start"} => row'[r] = None
      BY <2>0, <2>1, <2>2, <2>3, <2>4, <2>5, <2>6, <3>0 DEF Up
    <3>8. retention'.ids \subseteq Inline
      BY <2>2, <3>0 DEF Up
    <3> QED
      BY <3>1, <3>2, <3>3, <3>4, <3>5, <3>6, <3>7, <3>8 DEF Up
  <2>10. Down'
    BY <2>0, <2>1, <2>2, <2>3, <2>4, <2>5, <2>6 DEF Down, Shape, DownType, InPlace, Own, CallerType, Entering
  <2> QED
    BY <2>8, <2>9, <2>10
<1>7. CASE FinishSlot(c)
  <2>0. caller[c].pc = "inline"
    BY <1>7 DEF FinishSlot
  <2>1. caller[c].run \in Runs /\ caller[c].run \in Inline
    BY <1>7 DEF FinishSlot, Shape
  <2>2. \A q \in Runs \ {caller[c].run} : slots'[q] = slots[q]
    BY <1>7 DEF FinishSlot
  <2>3. \A d \in Callers \ {c} : caller'[d] = caller[d]
    BY <1>7 DEF FinishSlot, Goto
  <2>4. UNCHANGED <<called, work, aborted, row, down, retention>>
    BY <1>7 DEF FinishSlot, runVars
  <2>5. caller'[c] = Free
    BY <1>7 DEF FinishSlot
  <2>6. slots'[caller[c].run] = None <=> slots[caller[c].run] = None
    BY <1>7, <2>1, SlotKept DEF FinishSlot
  <2>8. Shape'
    BY <2>0, <2>1, <2>2, <2>3, <2>4, <2>5, <2>6, NoneAssumption DEF Free, Shape, DownType, Own, CallerType, Entering
  <2>9. Up'
    <3> SUFFICES ASSUME down'.pc = "up" PROVE Up'
      BY DEF Up
    <3>0. down.pc = "up" /\ Up
      BY <2>0, <2>1, <2>2, <2>3, <2>4, <2>5, <2>6, NoneAssumption
    <3>1. \A r \in Runs : ~aborted'[r]
      BY <2>0, <2>1, <2>2, <2>3, <2>4, <2>5, <2>6, NoneAssumption, <3>0 DEF Up
    <3>2. \A r \in Finished' : r \in Inline
      BY <2>0, <2>1, <2>2, <2>3, <2>4, <2>5, <2>6, NoneAssumption, <3>0 DEF Free, Up, Finished, Live
    <3>3. \A d \in Callers : caller'[d].pc = "evict" => caller'[d].victim \in Inline
      BY <2>0, <2>1, <2>2, <2>3, <2>4, <2>5, <2>6, NoneAssumption, <3>0 DEF Free, Up
    <3>4. \A d \in Callers :
            caller'[d].pc \in {"order", "run", "handle", "finisher"} /\ caller'[d].run \notin Inline =>
              InPlace(caller[d].run)'
      BY <2>0, <2>1, <2>2, <2>3, <2>4, <2>5, <2>6, NoneAssumption, <3>0 DEF Free, Up, InPlace, Finished, Live, Own, Begun, Entering
    <3>5. \A d \in Callers : caller'[d].pc = "finisher" => slots'[caller'[d].run].handle
      BY <2>0, <2>1, <2>2, <2>3, <2>4, <2>5, <2>6, NoneAssumption, <3>0 DEF Free, Up, Own, Begun, InPlace, Shape
    <3>6. \A r \in InFlight' : InPlace(r)' /\ slots'[r].handle
      BY <2>0, <2>1, <2>2, <2>3, <2>4, <2>5, <2>6, NoneAssumption, <3>0 DEF Free, Up, InFlight, InPlace
    <3>7. \A r \in Runs \ Inline : work'[r] \in {"none", "start"} => row'[r] = None
      BY <2>0, <2>1, <2>2, <2>3, <2>4, <2>5, <2>6, NoneAssumption, <3>0 DEF Up
    <3>8. retention'.ids \subseteq Inline
      BY <2>4, <3>0 DEF Up
    <3> QED
      BY <3>1, <3>2, <3>3, <3>4, <3>5, <3>6, <3>7, <3>8 DEF Up
  <2>10. Down'
    BY <2>0, <2>1, <2>2, <2>3, <2>4, <2>5, <2>6, NoneAssumption DEF Free, Down, Shape, DownType, InPlace, Own, CallerType, Entering
  <2> QED
    BY <2>8, <2>9, <2>10
<1>8. CASE StoreHandle(c)
  <2>0. caller[c].pc = "handle"
    BY <1>8 DEF StoreHandle
  <2>1. caller[c].run \in Runs /\ caller[c].run \notin Inline
    BY <1>8 DEF StoreHandle, Shape
  <2>2. \A q \in Runs \ {caller[c].run} : slots'[q] = slots[q]
    BY <1>8 DEF StoreHandle
  <2>3. \A d \in Callers \ {c} : caller'[d] = caller[d]
    BY <1>8 DEF StoreHandle, Goto
  <2>4. UNCHANGED <<called, work, aborted, row, down, retention>>
    BY <1>8 DEF StoreHandle, runVars
  <2>5. caller'[c].pc = "finisher" /\ caller'[c].run = caller[c].run
    BY <1>8 DEF StoreHandle, Goto, CallerType
  <2>6. /\ slots'[caller[c].run] = None <=> slots[caller[c].run] = None
        /\ slots[caller[c].run] # None =>
             /\ slots'[caller[c].run].finished = slots[caller[c].run].finished
             /\ slots'[caller[c].run].handle
    <3>1. CASE slots[caller[c].run] # None
      <4>1. slots[caller[c].run] \in Slot
        BY <2>1, <3>1
      <4>2. slots'[caller[c].run] = [slots[caller[c].run] EXCEPT !.handle = TRUE]
        BY <1>8, <2>1, <3>1 DEF StoreHandle
      <4> QED
        BY <3>1, <4>1, <4>2, SlotKept DEF Slot
    <3>2. CASE slots[caller[c].run] = None
      BY <1>8, <3>2 DEF StoreHandle
    <3> QED
      BY <3>1, <3>2
  <2>8. Shape'
    BY <2>0, <2>1, <2>2, <2>3, <2>4, <2>5, <2>6 DEF Shape, DownType, Own, CallerType, Entering
  <2>9. Up'
    <3> SUFFICES ASSUME down'.pc = "up" PROVE Up'
      BY DEF Up
    <3>0. down.pc = "up" /\ Up
      BY <2>0, <2>1, <2>2, <2>3, <2>4, <2>5, <2>6
    <3>1. \A r \in Runs : ~aborted'[r]
      BY <2>0, <2>1, <2>2, <2>3, <2>4, <2>5, <2>6, <3>0 DEF Up
    <3>2. \A r \in Finished' : r \in Inline
      BY <2>0, <2>1, <2>2, <2>3, <2>4, <2>5, <2>6, <3>0 DEF Up, Finished, Live
    <3>3. \A d \in Callers : caller'[d].pc = "evict" => caller'[d].victim \in Inline
      BY <2>0, <2>1, <2>2, <2>3, <2>4, <2>5, <2>6, <3>0 DEF Up
    <3>4. \A d \in Callers :
            caller'[d].pc \in {"order", "run", "handle", "finisher"} /\ caller'[d].run \notin Inline =>
              InPlace(caller[d].run)'
      BY <2>0, <2>1, <2>2, <2>3, <2>4, <2>5, <2>6, <3>0 DEF Up, InPlace, Finished, Live, Own, Begun, Entering
    <3>5. \A d \in Callers : caller'[d].pc = "finisher" => slots'[caller'[d].run].handle
      BY <2>0, <2>1, <2>2, <2>3, <2>4, <2>5, <2>6, <3>0 DEF Up, Own, Begun, InPlace, Shape
    <3>6. \A r \in InFlight' : InPlace(r)' /\ slots'[r].handle
      BY <2>0, <2>1, <2>2, <2>3, <2>4, <2>5, <2>6, <3>0 DEF Up, InFlight, InPlace
    <3>7. \A r \in Runs \ Inline : work'[r] \in {"none", "start"} => row'[r] = None
      BY <2>0, <2>1, <2>2, <2>3, <2>4, <2>5, <2>6, <3>0 DEF Up
    <3>8. retention'.ids \subseteq Inline
      BY <2>4, <3>0 DEF Up
    <3> QED
      BY <3>1, <3>2, <3>3, <3>4, <3>5, <3>6, <3>7, <3>8 DEF Up
  <2>10. Down'
    BY <2>0, <2>1, <2>2, <2>3, <2>4, <2>5, <2>6 DEF Down, Shape, DownType, InPlace, Own, CallerType, Entering
  <2> QED
    BY <2>8, <2>9, <2>10
<1>9. CASE SpawnFinisher(c)
  <2>8. Shape'
    BY <1>9, NoneAssumption DEF SpawnFinisher, Free, Shape, DownType, Own, CallerType, Entering
  <2>9. Up'
    BY <1>9, NoneAssumption DEF SpawnFinisher, Free, Up, InPlace, InFlight, Finished, Live, Own, Shape, CallerType, Entering
  <2>10. Down'
    BY <1>9, NoneAssumption DEF SpawnFinisher, Free, Down, Shape, DownType, InPlace, Own, CallerType, Entering
  <2> QED
    BY <2>8, <2>9, <2>10
<1> QED
  BY <1>1, <1>2, <1>3, <1>4, <1>5, <1>6, <1>7, <1>8, <1>9 DEF CallerStep

LEMMA CheckCapacityStop ==
  ASSUME Stop, NEW c \in Callers, NEW r \in Runs, CheckCapacity(c, r)
  PROVE  Shape' /\ Up' /\ Down'
<1> USE DEF Stop, StopInv, EvictInv, Typed, Begun
<1>1. /\ caller'[c].pc \in {"create", "scan"} /\ caller'[c].run = r
      /\ \A d \in Callers \ {c} : caller'[d] = caller[d]
  BY DEF CheckCapacity
<1>2. caller[c].pc = "free" /\ caller[c].run = None /\ work[r] = "none"
  BY DEF CheckCapacity, Shape, Own
<1>3. UNCHANGED <<slots, work, aborted, row, down, retention>>
  BY DEF CheckCapacity
<1>4. Shape'
  BY <1>1, <1>2, <1>3 DEF Shape, DownType
<1>5. InFlight' \subseteq InFlight
  BY <1>1, <1>2, <1>3, NoneAssumption DEF InFlight
<1>6. Up'
  BY <1>1, <1>3, <1>5 DEF Up, InPlace, Finished, Live
<1>7. Down'
  BY <1>1, <1>3 DEF Down, InPlace
<1> QED
  BY <1>4, <1>6, <1>7

LEMMA LogRowStop ==
  ASSUME Shape, NEW r \in Runs, NEW st \in {"Started"} \cup Terminal, LogRow(r, st)
  PROVE  /\ row' \in [Runs -> {None, "Started"} \cup Terminal]
         /\ \A q \in Runs \ {r} : row'[q] = row[q]
         /\ row'[r] \in {row[r], st}
         /\ r \notin Flaky => row'[r] = st
BY DEF LogRow, Shape

LEMMA RunStop ==
  ASSUME Stop, NEW r \in Runs, RunStep(r)
  PROVE  Shape' /\ Up' /\ Down'
<1> USE DEF Stop, StopInv, EvictInv, Typed, Begun
<1>1. UNCHANGED <<slots, caller, called, aborted, down, retention>>
  BY DEF RunStep, StartedRow, DropTask, Finisher, WorkEnds
<1>2. ASSUME row' \in [Runs -> {None, "Started"} \cup Terminal],
             \A q \in Runs \ {r} : row'[q] = row[q],
             work[r] # "start" /\ row[r] \in Terminal => row'[r] \in Terminal,
             \A q \in Runs \ {r} : work'[q] = work[q],
             work[r] # "none" /\ work'[r] \notin {"none", "start"},
             work'[r] = "mute" => r \in Inline
      PROVE  Shape' /\ Up' /\ Down'
  <2>1. Shape'
    BY <1>1, <1>2 DEF Shape, DownType
  <2>2. InFlight' = InFlight
    BY <1>1, <1>2 DEF InFlight
  <2>3. Up'
    BY <1>1, <1>2, <2>2 DEF Up, InPlace, Finished, Live
  <2>4. Down'
    BY <1>1, <1>2 DEF Down, InPlace, Shape, DownType
  <2> QED
    BY <2>1, <2>3, <2>4
<1>3. \A q \in Runs \ {r} : work'[q] = work[q]
  BY DEF RunStep, StartedRow, DropTask, Finisher, WorkEnds
<1>4. CASE StartedRow(r)
  <2>1. work[r] = "start" /\ work'[r] \in {"work", "mute"} /\ (work'[r] = "mute" => r \in Inline)
    BY <1>4 DEF StartedRow
  <2>2. CASE LogRow(r, "Started")
    BY <1>2, <1>3, <2>1, <2>2, LogRowStop
  <2>3. CASE UNCHANGED row
    BY <1>2, <1>3, <2>1, <2>3 DEF Shape
  <2> QED
    BY <1>4, <2>2, <2>3 DEF StartedRow
<1>5. CASE DropTask(r)
  <2>1. work[r] # "none" /\ work'[r] = "dropped"
    BY <1>5 DEF DropTask
  <2>2. CASE UNCHANGED row
    BY <1>2, <1>3, <2>1, <2>2 DEF Shape
  <2>3. CASE work[r] = "start" /\ LogRow(r, "Started")
    BY <1>2, <1>3, <2>1, <2>3, LogRowStop
  <2>4. ASSUME NEW res \in Results, LogRow(r, res)
        PROVE  Shape' /\ Up' /\ Down'
    <3>1. res \in Terminal
      BY ResultsAssumption DEF Terminal
    <3>2. /\ row' \in [Runs -> {None, "Started"} \cup Terminal]
          /\ \A q \in Runs \ {r} : row'[q] = row[q]
          /\ row'[r] \in {row[r], res}
      BY <2>4, <3>1, LogRowStop
    <3> QED
      BY <1>2, <1>3, <2>1, <3>1, <3>2
  <2> QED
    BY <1>5, <2>2, <2>3, <2>4 DEF DropTask
<1>6. CASE Finisher(r)
  <2>1. UNCHANGED <<work, row>>
    BY <1>6 DEF Finisher
  <2>2. Shape'
    BY <1>1, <2>1 DEF Shape, DownType
  <2>3. Up'
    BY <1>1, <2>1 DEF Up, InFlight, InPlace, Finished, Live
  <2>4. Down'
    BY <1>1, <2>1 DEF Down, InPlace
  <2> QED
    BY <2>2, <2>3, <2>4
<1>7. ASSUME NEW res \in Results, WorkEnds(r, res)
      PROVE  Shape' /\ Up' /\ Down'
  <2>1. res \in Terminal /\ res \notin {"none", "start", "mute"}
    BY ResultsAssumption DEF Terminal
  <2>2. work[r] # "none" /\ work'[r] = res
    BY <1>7 DEF WorkEnds
  <2>3. CASE LogRow(r, res)
    BY <1>2, <1>3, <2>1, <2>2, <2>3, LogRowStop
  <2>4. CASE UNCHANGED row
    BY <1>2, <1>3, <2>1, <2>2, <2>4 DEF Shape
  <2> QED
    BY <1>7, <2>3, <2>4 DEF WorkEnds
<1> QED
  BY <1>4, <1>5, <1>6, <1>7 DEF RunStep

LEMMA TableStop ==
  ASSUME Stop,
         \/ \E s \in Subs : Placeholder(s) \/ \E r \in Asked : Subscribe(s, r)
         \/ RetentionList \/ RetentionRemove \/ RetentionPrune
         \/ UNCHANGED vars
  PROVE  Shape' /\ Up' /\ Down'
<1> USE DEF Stop, StopInv, EvictInv, Typed, Begun
<1>1. UNCHANGED <<caller, work, aborted, row, down>>
  BY DEF Placeholder, Subscribe, RetentionList, RetentionRemove, RetentionPrune, runVars, vars
<1>2. /\ \A q \in Runs \ retention.ids : slots[q] # None /\ ~slots[q].finished => slots'[q] = slots[q]
      /\ Finished' \subseteq Finished /\ retention'.ids \subseteq retention.ids \cup Finished
  <2> DEFINE kept == /\ \A q \in Runs \ retention.ids :
                          slots[q] # None /\ ~slots[q].finished => slots'[q] = slots[q]
                     /\ Finished' \subseteq Finished /\ retention'.ids \subseteq retention.ids \cup Finished
  <2>1. ASSUME NEW s \in Subs, Placeholder(s)
        PROVE  kept
    BY <2>1 DEF Placeholder, Finished, Live
  <2>2. CASE RetentionRemove
    BY <2>2 DEF RetentionRemove, Finished, Live
  <2>3. CASE UNCHANGED slots /\ retention'.ids \subseteq retention.ids \cup Finished
    BY <2>3 DEF Finished, Live
  <2>4. CASE RetentionList \/ RetentionPrune
    BY <2>3, <2>4 DEF RetentionList, RetentionPrune
  <2> QED
    BY <2>1, <2>2, <2>3, <2>4 DEF Subscribe, vars
<1>3. Shape'
  BY <1>1 DEF Shape, DownType
<1>4. InFlight' = InFlight
  BY <1>1 DEF InFlight
<1>5. \A r \in Runs \ retention.ids : InPlace(r) => InPlace(r)' /\ slots'[r] = slots[r]
  BY <1>2 DEF InPlace
<1>6. \A c \in Callers : caller[c].pc \in {"order", "run", "handle", "finisher"} => caller[c].run \in Runs
  BY DEF Own, Entering
<1>7. Up'
  BY <1>1, <1>2, <1>4, <1>5, <1>6 DEF Up, Shape, InFlight
<1>8. Down'
  <2>1. \A r \in Finished : ~ InPlace(r)
    BY DEF InPlace, Finished
  <2> QED
    BY <1>1, <1>2, <1>5, <2>1 DEF Down, Shape, DownType
<1> QED
  BY <1>3, <1>7, <1>8

LEMMA ListStop ==
  ASSUME Stop, ShutdownList
  PROVE  Shape' /\ Up' /\ Down'
<1> USE DEF Stop, StopInv, EvictInv, Typed, Begun
<1>1. /\ down.pc = "up" /\ down' \in DownType
      /\ down'.pc = "next" /\ down'.todo = InTable /\ down'.inFlight = InFlight
      /\ down'.begun = {r \in InFlight : row[r] # None}
  BY DEF ShutdownList, Shape, DownType, InTable, InFlight, Live
<1>2. UNCHANGED <<slots, caller, work, aborted, row, retention>>
  BY DEF ShutdownList, runVars
<1>3. Shape'
  BY <1>1, <1>2 DEF Shape, Up, InFlight
<1>4. Up'
  BY <1>1 DEF Up
<1>5. \A r \in InFlight : InPlace(r) /\ slots[r].handle /\ r \in InTable /\ r \notin Inline
  BY <1>1 DEF Up, InFlight, InTable, InPlace, Finished, Live
<1>6. Down'
  BY <1>1, <1>2, <1>5 DEF Down, Up, InPlace
<1> QED
  BY <1>3, <1>4, <1>6

LEMMA AbortStop ==
  ASSUME Stop, ShutdownStep
  PROVE  Shape' /\ Up' /\ Down'
<1> USE DEF Stop, StopInv, EvictInv, Typed, Begun
<1>1. UNCHANGED <<caller, work, retention>>
  BY DEF ShutdownStep, AbortTask, AbortRow, AbortFinish, ShutdownClear, runVars
<1>2. down.pc # "up" /\ down'.pc # "up" /\ down'.inFlight = down.inFlight /\ down'.begun = down.begun
  <2> DEFINE kept == down.pc # "up" /\ down'.pc # "up" /\ down'.inFlight = down.inFlight /\ down'.begun = down.begun
  <2>1. down \in DownType
    BY DEF Shape
  <2>2. ASSUME NEW r \in Runs, AbortTask(r)
        PROVE  kept
    <3>1. down.pc = "next"
      BY <2>2 DEF AbortTask
    <3> QED
      BY <2>1, <2>2, <3>1 DEF AbortTask, DownType
  <2>3. CASE AbortRow
    BY <2>1, <2>3 DEF AbortRow, DownType
  <2>4. CASE AbortFinish
    BY <2>1, <2>4 DEF AbortFinish, DownType
  <2>5. CASE ShutdownClear
    BY <2>1, <2>5 DEF ShutdownClear, DownType
  <2> QED
    BY <2>2, <2>3, <2>4, <2>5 DEF ShutdownStep
<1>3. Up'
  BY <1>2 DEF Up
<1>4. ASSUME NEW r \in Runs, AbortTask(r)
      PROVE  Shape' /\ Down'
  <2>1. UNCHANGED <<slots, row>> /\ down.pc = "next"
    BY <1>4 DEF AbortTask
  <2>2. /\ down' \in DownType /\ down'.todo = down.todo \ {r}
        /\ down'.pc \in {"next", "row"} /\ (down'.pc = "row" => down'.run = r)
        /\ down'.pc = "next" => slots[r] = None
    <3>1. CASE slots[r] # None
      <4>1. slots[r].chan \in Chans
        BY <3>1 DEF Slot
      <4>2. down' = [down EXCEPT !.pc = "row", !.run = r, !.todo = @ \ {r}, !.chan = slots[r].chan]
        BY <1>4, <3>1 DEF AbortTask
      <4> QED
        BY <4>1, <4>2 DEF Shape, DownType
    <3>2. CASE slots[r] = None
      BY <1>4, <2>1, <3>2 DEF AbortTask, Shape, DownType
    <3> QED
      BY <3>1, <3>2
  <2>3. \A q \in Runs : aborted[q] => aborted'[q]
    BY <1>4 DEF AbortTask
  <2>4. slots[r] # None /\ slots[r].handle => aborted'[r] /\ down'.pc = "row"
    BY <1>4 DEF AbortTask, Shape, DownType
  <2>5. Shape'
    BY <1>1, <1>2, <2>1, <2>2 DEF Shape
  <2>6. Down'
    BY <1>1, <1>2, <2>1, <2>2, <2>3, <2>4 DEF Down, InPlace, Shape, DownType
  <2> QED
    BY <2>5, <2>6
<1>5. CASE AbortRow
  <2>1. UNCHANGED <<slots, aborted>> /\ down.pc = "row" /\ down.run \in Runs
    BY <1>5 DEF AbortRow, Down
  <2>2. /\ down' \in DownType /\ down'.todo = down.todo /\ down'.run = down.run
        /\ down'.pc = "finish"
    BY <1>5 DEF AbortRow, Shape, DownType
  <2>3. /\ row' \in [Runs -> {None, "Started"} \cup Terminal]
        /\ \A q \in Runs \ {down.run} : row'[q] = row[q]
        /\ down.run \notin Flaky => row'[down.run] = "Errored"
    BY <1>5, <2>1, LogRowStop DEF AbortRow, Terminal
  <2>4. Shape'
    BY <1>1, <1>2, <2>2, <2>3 DEF Shape
  <2>5. Down'
    BY <1>1, <1>2, <2>1, <2>2, <2>3 DEF Down, InPlace, Shape, DownType, Terminal
  <2> QED
    BY <1>3, <2>4, <2>5
<1>6. CASE AbortFinish
  <2>1. UNCHANGED <<aborted, row>> /\ down.pc = "finish" /\ down.run \in Runs \ down.todo
    BY <1>6 DEF AbortFinish, Down, runVars
  <2>2. down' \in DownType /\ down'.todo = down.todo /\ down'.pc = "next"
    BY <1>6 DEF AbortFinish, Shape, DownType
  <2>3. \A q \in Runs \ {down.run} : slots'[q] = slots[q]
    BY <1>6 DEF AbortFinish
  <2>4. Shape'
    BY <1>1, <1>2, <2>1, <2>2 DEF Shape
  <2>5. Down'
    BY <1>1, <1>2, <2>1, <2>2, <2>3 DEF Down, InPlace, Shape, DownType
  <2> QED
    BY <1>3, <2>4, <2>5
<1>7. CASE ShutdownClear
  <2>1. UNCHANGED <<aborted, row>> /\ down.pc = "next" /\ down.todo = {}
    BY <1>7 DEF ShutdownClear, runVars
  <2>2. down' \in DownType /\ down'.todo = {} /\ down'.pc = "down"
    BY <1>7 DEF ShutdownClear, Shape, DownType
  <2>3. Shape'
    BY <1>1, <1>2, <2>1, <2>2 DEF Shape
  <2>4. Down'
    BY <1>1, <1>2, <2>1, <2>2 DEF Down
  <2> QED
    BY <1>3, <2>3, <2>4
<1> QED
  BY <1>3, <1>4, <1>5, <1>6, <1>7 DEF ShutdownStep

LEMMA StopNext == Stop /\ [Next]_vars => Stop'
<1> SUFFICES ASSUME Stop, [Next]_vars PROVE Stop'
  OBVIOUS
<1>1. EvictInv' /\ Begun'
  BY EvictNext DEF Stop
<1>2. Shape' /\ Up' /\ Down'
  BY CallerStop, CheckCapacityStop, RunStop, TableStop, ListStop, AbortStop DEF Next
<1> QED
  BY <1>1, <1>2 DEF Stop, StopInv

\* A shutdown that returns leaves no background run going that was there when it
\* began, and none that had started on record as started, however many runs are
\* registered, finish and are evicted meanwhile.
THEOREM ShutdownSafe == Spec => []ShutdownStops
<1>1. Init => Stop
  BY EvictInit, BegunInit, StopInit DEF Stop
<1>2. Stop => ShutdownStops
  BY DEF Stop, StopInv, Down, Shape, DownType, ShutdownStops
<1> QED
  BY <1>1, <1>2, StopNext, PTL DEF Spec

-----------------------------------------------------------------------------
(* eviction_order. *)

InOrder(r) == \E i \in DOMAIN order : order[i] = r
Once(r) == \A i, j \in DOMAIN order : order[i] = r /\ order[j] = r => i = j

LEMMA OrderShape ==
  ASSUME order \in Seq(Runs)
  PROVE  /\ Len(order) \in Nat /\ DOMAIN order = 1..Len(order)
         /\ \A k \in 1..Len(order) : order[k] \in Runs
  OBVIOUS

\* What an eviction_order keeps that is a part of the old one.
LEMMA ThinnedOrder ==
  ASSUME order \in Seq(Runs), NEW n \in Nat, NEW at \in [1..n -> DOMAIN order],
         \A j, k \in 1..n : j # k => at[j] # at[k],
         order' = [j \in 1..n |-> order[at[j]]]
  PROVE  /\ order' \in Seq(Runs)
         /\ \A r : InOrder(r)' => InOrder(r)
         /\ \A r : Once(r) => Once(r)'
<1>1. DOMAIN order' = 1..n /\ \A j \in 1..n : order'[j] = order[at[j]] /\ at[j] \in DOMAIN order
  OBVIOUS
<1>2. order' \in [1..n -> Runs]
  BY OrderShape
<1>3. order' \in Seq(Runs)
  BY <1>2
<1>4. \A r : InOrder(r)' => InOrder(r)
  BY <1>1 DEF InOrder
<1>5. ASSUME NEW r, Once(r), NEW i \in 1..n, NEW j \in 1..n, order'[i] = r, order'[j] = r
      PROVE  i = j
  BY <1>1, <1>5 DEF Once
<1> QED
  BY <1>1, <1>3, <1>4, <1>5 DEF Once

\* Taking an entry out leaves the others.
LEMMA DropEntry ==
  ASSUME order \in Seq(Runs), NEW i \in DOMAIN order, order' = Drop(i)
  PROVE  /\ order' \in Seq(Runs)
         /\ \A r : InOrder(r)' => InOrder(r)
         /\ \A r : Once(r) => Once(r)'
         /\ \A r : InOrder(r) /\ r # order[i] => InOrder(r)'
         /\ Once(order[i]) => \A r : InOrder(r)' => r # order[i]
<1>1. /\ Len(order) \in Nat /\ DOMAIN order = 1..Len(order) /\ Len(order) - 1 \in Nat /\ i \in 1..Len(order)
  BY OrderShape
<1> DEFINE n == Len(order) - 1
           at == [j \in 1..n |-> IF j < i THEN j ELSE j + 1]
<1>2. /\ \A j \in 1..n : at[j] \in (DOMAIN order) \ {i}
      /\ \A j, k \in 1..n : j # k => at[j] # at[k]
  BY <1>1
<1>3. at \in [1..n -> DOMAIN order]
  BY <1>2
<1>4. order' = [j \in 1..n |-> order[at[j]]]
  BY <1>1 DEF Drop
<1>5. DOMAIN order' = 1..n /\ \A j \in 1..n : order'[j] = order[at[j]]
  BY <1>4
<1>6. \A k \in (DOMAIN order) \ {i} : \E j \in 1..n : at[j] = k
  <2> SUFFICES ASSUME NEW k \in (DOMAIN order) \ {i}
               PROVE  \E j \in 1..n : at[j] = k
    OBVIOUS
  <2>1. CASE k < i
    <3>1. k \in 1..n /\ at[k] = k
      BY <1>1, <2>1
    <3> QED
      BY <3>1
  <2>2. CASE ~ (k < i)
    <3>1. k - 1 \in 1..n /\ at[k - 1] = k
      BY <1>1, <2>2
    <3> QED
      BY <3>1
  <2> QED
    BY <2>1, <2>2
<1> HIDE DEF n, at
<1>7. n \in Nat
  BY <1>1 DEF n
<1>8. /\ order' \in Seq(Runs)
      /\ \A r : InOrder(r)' => InOrder(r)
      /\ \A r : Once(r) => Once(r)'
  BY <1>2, <1>3, <1>4, <1>7, ThinnedOrder
<1>9. \A r : InOrder(r) /\ r # order[i] => InOrder(r)'
  BY <1>5, <1>6 DEF InOrder
<1>10. Once(order[i]) => \A r : InOrder(r)' => r # order[i]
  BY <1>2, <1>5 DEF InOrder, Once
<1> QED
  BY <1>8, <1>9, <1>10

\* Pruning keeps what retention has not removed.
LEMMA PruneEntries ==
  ASSUME order \in Seq(Runs), RetentionPrune
  PROVE  /\ order' \in Seq(Runs)
         /\ \A r : InOrder(r)' => InOrder(r)
         /\ \A r : Once(r) => Once(r)'
         /\ \A r : InOrder(r) /\ Kept(r) => InOrder(r)'
<1>1. PICK n \in 0..Len(order) : \E at \in [1..n -> 1..Len(order)] :
        /\ \A j, k \in 1..n : j < k => at[j] < at[k]
        /\ {at[j] : j \in 1..n} = {i \in 1..Len(order) : Kept(order[i])}
        /\ order' = [j \in 1..n |-> order[at[j]]]
  BY DEF RetentionPrune
<1>2. PICK at \in [1..n -> 1..Len(order)] :
        /\ \A j, k \in 1..n : j < k => at[j] < at[k]
        /\ {at[j] : j \in 1..n} = {i \in 1..Len(order) : Kept(order[i])}
        /\ order' = [j \in 1..n |-> order[at[j]]]
  BY <1>1
<1>3. n \in Nat /\ at \in [1..n -> DOMAIN order] /\ DOMAIN order = 1..Len(order)
  BY <1>1, <1>2, OrderShape
<1>4. \A j, k \in 1..n : j # k => at[j] # at[k]
  <2> SUFFICES ASSUME NEW j \in 1..n, NEW k \in 1..n, j # k
               PROVE  at[j] # at[k]
    OBVIOUS
  <2>1. at[j] \in Nat /\ at[k] \in Nat /\ (j < k => at[j] < at[k]) /\ (k < j => at[k] < at[j]) /\ (j < k \/ k < j)
    BY <1>2, <1>3
  <2> QED
    BY <2>1
<1>5. /\ order' \in Seq(Runs)
      /\ \A r : InOrder(r)' => InOrder(r)
      /\ \A r : Once(r) => Once(r)'
  BY <1>2, <1>3, <1>4, ThinnedOrder
<1>6. DOMAIN order' = 1..n /\ \A j \in 1..n : order'[j] = order[at[j]]
  BY <1>2
<1>7. \A k \in DOMAIN order : Kept(order[k]) => \E j \in 1..n : at[j] = k
  BY <1>2, <1>3
<1>8. \A r : InOrder(r) /\ Kept(r) => InOrder(r)'
  BY <1>6, <1>7 DEF InOrder
<1> QED
  BY <1>5, <1>8

LEMMA PushEntry ==
  ASSUME order \in Seq(Runs), NEW q \in Runs, order' = Append(order, q)
  PROVE  /\ order' \in Seq(Runs)
         /\ \A r : InOrder(r)' <=> InOrder(r) \/ r = q
         /\ \A r : Once(r) /\ r # q => Once(r)'
         /\ ~ InOrder(q) => Once(q)'
<1>1. /\ Len(order) \in Nat /\ DOMAIN order = 1..Len(order) /\ DOMAIN order' = 1..(Len(order) + 1)
      /\ order' \in Seq(Runs) /\ order'[Len(order) + 1] = q
      /\ \A k \in 1..Len(order) : order'[k] = order[k]
  OBVIOUS
<1>2. \A k \in DOMAIN order' : k \in DOMAIN order \/ k = Len(order) + 1
  BY <1>1
<1>3. DOMAIN order \subseteq DOMAIN order' /\ Len(order) + 1 \in DOMAIN order'
  BY <1>1
<1>4. \A r : InOrder(r)' <=> InOrder(r) \/ r = q
  BY <1>1, <1>2, <1>3 DEF InOrder
<1>5. \A r : Once(r) /\ r # q => Once(r)'
  BY <1>1, <1>2 DEF Once
<1>6. ~ InOrder(q) => Once(q)'
  BY <1>1, <1>2 DEF Once, InOrder
<1> QED
  BY <1>1, <1>4, <1>5, <1>6

-----------------------------------------------------------------------------
(* Types. *)

SubType == [pc: {"idle", "missed", "on", "closed"}, run: Runs \cup {None}, chan: Chans \cup {None}]

\* The types the proofs above do not need; a subscriber that found no slot knows
\* its run, and an abort under way its channel.
Rest ==
  /\ order \in Seq(Runs)
  /\ finisher \in [Runs -> Chans \cup {None}]
  /\ phase \in [Chans -> Phases]
  /\ sub \in [Subs -> SubType]
  /\ retention \in [pc: {"idle", "remove", "prune"}, ids: SUBSET Runs]
  /\ \A s \in Subs : sub[s].pc = "missed" => sub[s].run \in Runs
  /\ down.pc = "row" => down.chan \in Chans

LEMMA RestInit == Init => Rest
  BY DEF Init, Rest, SubType, Phases

LEMMA SlotChan ==
  ASSUME Typed, NEW r \in Runs, slots[r] # None
  PROVE  slots[r] \in Slot /\ slots[r].chan \in Chans
  BY DEF Typed, Slot

LEMMA PublishType ==
  ASSUME phase \in [Chans -> Phases], NEW ch, NEW p \in Phases, Publish(ch, p)
  PROVE  phase' \in [Chans -> Phases]
  BY DEF Publish

LEMMA CallerRest ==
  ASSUME Stop, Rest, NEW c \in Callers, CallerStep(c)
  PROVE  Rest'
<1> USE DEF runVars
<1>0. /\ Typed /\ (caller[c].pc # "free" => caller[c].run \in Runs)
      /\ work \in [Runs -> {"none", "start", "work", "mute", "dropped"} \cup Terminal]
  BY DEF Stop, StopInv, EvictInv, Typed, CallerType, Own, Begun, Entering
<1>1. UNCHANGED <<sub, down, retention>>
  BY DEF CallerStep, Scan, Refuse, Evict, CreateSlot, PushOrder, RunInline, FinishSlot, Spawn, StoreHandle,
     SpawnFinisher
<1>2. order' \in Seq(Runs)
  <2>1. CASE Scan(c)
    BY <2>1, DropEntry DEF Scan, Rest
  <2>2. CASE PushOrder(c)
    BY <1>0, <2>2, PushEntry DEF PushOrder, Rest
  <2>3. CASE ~ Scan(c) /\ ~ PushOrder(c)
    BY <2>3 DEF CallerStep, Refuse, Evict, CreateSlot, RunInline, FinishSlot, Spawn, StoreHandle, SpawnFinisher, Rest
  <2> QED
    BY <2>1, <2>2, <2>3
<1>3. finisher' \in [Runs -> Chans \cup {None}]
  <2>1. CASE SpawnFinisher(c)
    BY <1>0, <2>1, SlotChan DEF SpawnFinisher, Rest
  <2>2. CASE ~ SpawnFinisher(c)
    BY <2>2 DEF CallerStep, Scan, Refuse, Evict, CreateSlot, PushOrder, RunInline, FinishSlot, Spawn, StoreHandle, Rest
  <2> QED
    BY <2>1, <2>2
<1>4. phase' \in [Chans -> Phases]
  <2>1. phase \in [Chans -> Phases] /\ {"Pending", "Running"} \cup Terminal = Phases
    BY DEF Rest, Phases
  <2>2. CASE CreateSlot(c)
    BY <2>1, <2>2 DEF CreateSlot
  <2>3. CASE RunInline(c)
    BY <2>1, <2>3, PublishType DEF RunInline
  <2>4. CASE FinishSlot(c)
    BY <2>1, <2>4, PublishType DEF FinishSlot
  <2>5. CASE ~ CreateSlot(c) /\ ~ RunInline(c) /\ ~ FinishSlot(c)
    BY <2>1, <2>5 DEF CallerStep, Scan, Refuse, Evict, PushOrder, Spawn, StoreHandle, SpawnFinisher
  <2> QED
    BY <2>2, <2>3, <2>4, <2>5
<1> QED
  BY <1>1, <1>2, <1>3, <1>4 DEF Rest

LEMMA OthersRest ==
  ASSUME Stop, Rest,
         \/ \E c \in Callers, r \in Runs : CheckCapacity(c, r)
         \/ \E r \in Runs : RunStep(r)
         \/ \E s \in Subs : Placeholder(s) \/ \E r \in Asked : Subscribe(s, r)
         \/ ShutdownList \/ ShutdownStep
         \/ RetentionList \/ RetentionRemove \/ RetentionPrune
         \/ UNCHANGED vars
  PROVE  Rest'
<1> USE DEF runVars
<1>0. Typed /\ down \in DownType
  BY DEF Stop, StopInv, EvictInv, Shape
<1>1. CASE (\E c \in Callers, r \in Runs : CheckCapacity(c, r)) \/ UNCHANGED vars
  BY <1>1 DEF CheckCapacity, vars, Rest
<1>2. ASSUME NEW r \in Runs, RunStep(r)
      PROVE  Rest'
  <2>1. CASE Finisher(r)
    <3>1. PICK p \in Phases : Publish(finisher[r], p)
      BY <2>1 DEF Finisher, Over, Phases, Terminal
    <3>2. phase' \in [Chans -> Phases] /\ finisher' \in [Runs -> Chans \cup {None}]
      BY <2>1, <3>1, PublishType DEF Finisher, Rest
    <3> QED
      BY <2>1, <3>2 DEF Finisher, Rest
  <2>2. CASE ~ Finisher(r)
    BY <1>2, <2>2 DEF RunStep, StartedRow, DropTask, WorkEnds, Rest
  <2> QED
    BY <2>1, <2>2
<1>3. ASSUME NEW s \in Subs, NEW r \in Asked, Subscribe(s, r)
      PROVE  Rest'
  <2>0. r \in Runs
    BY NoneAssumption
  <2>1. PICK p \in {"on", "missed", "closed"}, ch \in Chans \cup {None} :
          sub' = [sub EXCEPT ![s] = [pc |-> p, run |-> r, chan |-> ch]]
    BY <1>0, <1>3, <2>0, SlotChan DEF Subscribe
  <2>2. sub' \in [Subs -> SubType] /\ \A t \in Subs : sub'[t].pc = "missed" => sub'[t].run \in Runs
    BY <2>0, <2>1 DEF Rest, SubType
  <2> QED
    BY <1>3, <2>2 DEF Subscribe, Rest
<1>4. ASSUME NEW s \in Subs, Placeholder(s)
      PROVE  Rest'
  <2>0. sub[s].run \in Runs /\ s \in Chans
    BY <1>4 DEF Placeholder, Rest, Chans
  <2>1. order' \in Seq(Runs)
    BY <1>4, <2>0, PushEntry DEF Placeholder, Rest
  <2>2. sub' = [sub EXCEPT ![s].pc = "on", ![s].chan = s] \/ sub' = [sub EXCEPT ![s].pc = "closed"]
    BY <1>4 DEF Placeholder
  <2>3. sub' \in [Subs -> SubType] /\ \A t \in Subs : sub'[t].pc = "missed" => sub'[t].run \in Runs
    <3>1. sub \in [Subs -> SubType] /\ \A t \in Subs : sub[t].pc = "missed" => sub[t].run \in Runs
      BY DEF Rest
    <3>2. \A x \in SubType : /\ [x EXCEPT !.pc = "on", !.chan = s] \in SubType
                              /\ [x EXCEPT !.pc = "closed"] \in SubType
      BY <2>0 DEF SubType
    <3>3. sub'[s] \in SubType /\ sub'[s].pc # "missed"
      <4>1. /\ sub[s] \in SubType
            /\ sub'[s] = [sub[s] EXCEPT !.pc = "on", !.chan = s] \/ sub'[s] = [sub[s] EXCEPT !.pc = "closed"]
        BY <2>2, <3>1
      <4>2. CASE sub'[s] = [sub[s] EXCEPT !.pc = "on", !.chan = s]
        BY <3>2, <4>1, <4>2 DEF SubType
      <4>3. CASE sub'[s] = [sub[s] EXCEPT !.pc = "closed"]
        BY <3>2, <4>1, <4>3 DEF SubType
      <4> QED
        BY <4>1, <4>2, <4>3
    <3>4. DOMAIN sub' = Subs /\ \A t \in Subs \ {s} : sub'[t] = sub[t]
      BY <2>2, <3>1
    <3>5. sub' = [t \in Subs |-> sub'[t]]
      BY <2>2, <3>1
    <3> QED
      BY <3>1, <3>3, <3>4, <3>5
  <2> QED
    BY <1>4, <2>1, <2>3 DEF Placeholder, Rest
<1>5. CASE ShutdownList
  <2>1. down'.pc = "next"
    BY <1>0, <1>5 DEF ShutdownList, DownType
  <2> QED
    BY <1>5, <2>1 DEF ShutdownList, Rest
<1>6. ASSUME NEW r \in Runs, AbortTask(r)
      PROVE  Rest'
  <2>1. down'.pc = "row" => down'.chan \in Chans
    <3>1. CASE slots[r] # None
      BY <1>0, <1>6, <3>1, SlotChan DEF AbortTask, DownType
    <3>2. CASE slots[r] = None
      BY <1>0, <1>6, <3>2 DEF AbortTask, DownType
    <3> QED
      BY <3>1, <3>2
  <2> QED
    BY <1>6, <2>1 DEF AbortTask, Rest
<1>7. CASE AbortRow
  <2>1. down'.pc = "finish"
    BY <1>0, <1>7 DEF AbortRow, DownType
  <2>2. phase' \in [Chans -> Phases]
    <3>1. "Errored" \in Phases /\ phase \in [Chans -> Phases] /\ Publish(down.chan, "Errored")
      BY <1>7 DEF AbortRow, Rest, Phases, Terminal
    <3> QED
      BY <3>1, PublishType
  <2> QED
    BY <1>7, <2>1, <2>2 DEF AbortRow, Rest
<1>8. CASE AbortFinish
  <2>1. down'.pc = "next"
    BY <1>0, <1>8 DEF AbortFinish, DownType
  <2> QED
    BY <1>8, <2>1 DEF AbortFinish, Rest
<1>9. CASE ShutdownClear
  <2>1. down'.pc = "down"
    BY <1>0, <1>9 DEF ShutdownClear, DownType
  <2> QED
    BY <1>9, <2>1 DEF ShutdownClear, Rest
<1>10. CASE RetentionRemove
  <2>1. retention' \in [pc: {"idle", "remove", "prune"}, ids: SUBSET Runs]
    BY <1>10 DEF RetentionRemove, Rest
  <2> QED
    BY <1>10, <2>1 DEF RetentionRemove, Rest
<1>11. CASE RetentionPrune
  <2>1. order' \in Seq(Runs) /\ retention' \in [pc: {"idle", "remove", "prune"}, ids: SUBSET Runs]
    BY <1>11, PruneEntries DEF RetentionPrune, Rest
  <2> QED
    BY <1>11, <2>1 DEF RetentionPrune, Rest
<1>12. CASE RetentionList
  <2>1. retention' \in [pc: {"idle", "remove", "prune"}, ids: SUBSET Runs]
    BY <1>12 DEF RetentionList, Finished, Live
  <2> QED
    BY <1>12, <2>1 DEF RetentionList, Rest
<1> QED
  BY <1>1, <1>2, <1>3, <1>4, <1>5, <1>6, <1>7, <1>8, <1>9, <1>10, <1>11, <1>12 DEF ShutdownStep

TableInv == Stop /\ Rest

LEMMA TableInit == Init => TableInv
  BY EvictInit, BegunInit, StopInit, RestInit DEF TableInv, Stop

LEMMA TableNext == TableInv /\ [Next]_vars => TableInv'
<1> SUFFICES ASSUME TableInv, [Next]_vars PROVE TableInv'
  OBVIOUS
<1>1. Stop'
  BY StopNext DEF TableInv
<1>2. Rest'
  BY CallerRest, OthersRest DEF TableInv, Next
<1> QED
  BY <1>1, <1>2 DEF TableInv

\* Every variable of the registry keeps its type, eviction_order and the senders
\* that finishers, subscribers and an abort under way have captured included.
THEOREM RegistryTyped == Spec => []TypeOK
<1>1. TableInv => TypeOK
  BY DEF TableInv, Stop, StopInv, EvictInv, Typed, CallerType, Entering, Begun, Shape, DownType, Rest, SubType, TypeOK
<1> QED
  BY <1>1, TableInit, TableNext, PTL DEF Spec

-----------------------------------------------------------------------------
(* The table and eviction_order, until shutdown is called. *)

Beyond == {"order", "run", "inline", "handle", "finisher"}

\* No slot has been made for the run yet, except by subscribers.
Waiting(r) ==
  \/ called[r] = "no"
  \/ \E c \in Callers : caller[c].run = r /\ caller[c].pc \in {"scan", "evict", "create"}

Evicting(c, r) == caller[c].pc = "evict" /\ caller[c].victim = r

\* A call that has made its slot finds it until it returns.
Seated == \A c \in Callers : caller[c].pc \in Beyond => caller[c].run \in Registered

\* A run that counts as finished, or is being evicted, is registered and nobody's.
Retired ==
  /\ \A r \in Finished : r \in Registered /\ \A c \in Callers : caller[c].run # r
  /\ \A c \in Callers : caller[c].pc = "evict" =>
       caller[c].victim \in Runs /\ \A d \in Callers : caller[d].run # caller[c].victim

\* A run is once in eviction_order, until it is picked for eviction; retention takes
\* out only what has left the table for good.
Queued ==
  /\ \A r \in Runs : Waiting(r) /\ slots[r] = None => ~ InOrder(r)
  /\ \A r \in Runs : Waiting(r) \/ r \in Registered => Once(r)
  /\ \A c \in Callers : caller[c].pc = "order" => ~ InOrder(caller[c].run)
  /\ \A r \in Registered, c \in Callers : Evicting(c, r) =>
       ~ InOrder(r) /\ \A d \in Callers : Evicting(d, r) => d = c
  /\ \A r \in retention.ids : r \in Runs /\ ~ Waiting(r) /\ \A c \in Callers : caller[c].run # r
  /\ retention.pc = "prune" => \A r \in retention.ids : r \notin Registered

\* A run in the table is in eviction_order, or about to be, or being evicted.
Listed ==
  \A r \in Live : Waiting(r) \/ r \in Registered =>
    \/ InOrder(r)
    \/ \E c \in Callers : Evicting(c, r)
    \/ \E c \in Callers : caller[c].pc = "order" /\ caller[c].run = r

Held == down.pc = "up" => Seated /\ Retired /\ Queued /\ Listed

HeldInv == TableInv /\ Held

LEMMA HeldInit == Init => HeldInv
<1> SUFFICES ASSUME Init PROVE Held
  BY TableInit DEF HeldInv
<1>1. Live = {} /\ order = <<>> /\ retention.ids = {} /\ \A c \in Callers : caller[c].pc = "free"
  BY DEF Init, Live
<1>2. \A r : ~ InOrder(r) /\ Once(r)
  BY <1>1 DEF InOrder, Once
<1> QED
  BY <1>1, <1>2 DEF Held, Seated, Retired, Queued, Listed, Registered, Finished, Evicting, Beyond

\* Facts of a state of the registry, while it is up.
LEMMA HeldFacts ==
  ASSUME HeldInv, down.pc = "up"
  PROVE  /\ Seated /\ Retired /\ Queued /\ Listed
         /\ caller \in [Callers -> CallerType] /\ order \in Seq(Runs)
         /\ \A r \in Live : slots[r] \in Slot
         /\ \A r \in Runs : Waiting(r) => work[r] = "none" /\ r \notin Finished
         /\ \A r \in Runs, c \in Callers : Waiting(r) => ~ Evicting(c, r)
         /\ \A c \in Callers : caller[c].pc # "free" => caller[c].run \in Runs
         /\ \A c, d \in Callers : caller[c].pc # "free" /\ caller[d].run = caller[c].run => d = c
<1>1. Typed /\ Own /\ FinishedOver /\ Begun /\ Shape /\ Rest
  BY DEF HeldInv, TableInv, Stop, StopInv, EvictInv
<1>2. \A r \in Runs : Waiting(r) => work[r] = "none"
  BY <1>1 DEF Own, Waiting, Entering
<1>3. "none" \notin Over
  BY DEF Over, Terminal
<1>4. \A r \in Runs : Waiting(r) => r \notin Finished
  BY <1>1, <1>2, <1>3 DEF FinishedOver
<1>5. \A r \in Runs, c \in Callers : Waiting(r) => ~ Evicting(c, r)
  BY <1>1, <1>2, <1>3 DEF FinishedOver, Evicting
<1>6. \A c \in Callers : caller[c].pc # "free" => caller[c].run \in Runs
  BY <1>1 DEF Own, Begun, Typed, CallerType, Entering
<1>7. \A c, d \in Callers : caller[c].pc # "free" /\ caller[d].run = caller[c].run => d = c
  BY <1>1, <1>6, NoneAssumption DEF Own, Shape
<1>8. \A r \in Live : slots[r] \in Slot
  BY <1>1, SlotChan DEF Live
<1> QED
  BY <1>1, <1>2, <1>4, <1>5, <1>6, <1>7, <1>8 DEF HeldInv, Held, Typed, Rest

LEMMA CheckCapacityHeld ==
  ASSUME HeldInv, down.pc = "up", NEW c \in Callers, NEW r \in Runs, CheckCapacity(c, r)
  PROVE  Seated' /\ Retired' /\ Queued' /\ Listed'
<1>0. HeldInv /\ down.pc = "up"
  OBVIOUS
<1>1. /\ caller[c].pc = "free" /\ called[r] = "no"
      /\ caller'[c].pc \in {"create", "scan"} /\ caller'[c].run = r
      /\ \A d \in Callers \ {c} : caller'[d] = caller[d]
      /\ UNCHANGED <<slots, order, retention>>
  BY <1>0, HeldFacts DEF CheckCapacity
<1>2. called' = [called EXCEPT ![r] = "yes"] /\ called \in [Runs -> {"no", "yes", "refused"}]
  BY DEF CheckCapacity, HeldInv, TableInv, Stop, EvictInv, Typed
<1>3. \A q \in Runs : Waiting(q)' <=> Waiting(q)
  BY <1>1, <1>2 DEF Waiting
<1>4. \A d \in Callers : \A q : Evicting(d, q)' <=> Evicting(d, q)
  BY <1>1 DEF Evicting
<1>5. \A q : (InOrder(q)' <=> InOrder(q)) /\ (Once(q)' <=> Once(q))
  BY <1>1 DEF InOrder, Once
<1>6. Registered' = Registered /\ Live' = Live /\ Finished' = Finished
  BY <1>1 DEF Registered, Live, Finished
<1>7. Waiting(r) /\ r \notin Finished /\ \A d \in Callers : ~ Evicting(d, r)
  BY <1>0, <1>1, HeldFacts DEF Waiting
<1>8. Seated'
  BY <1>0, <1>1, <1>6, HeldFacts DEF Seated, Beyond
<1>9. Retired'
  BY <1>0, <1>1, <1>6, <1>7, HeldFacts DEF Retired, Evicting
<1>10. retention.ids \subseteq Runs
  BY DEF HeldInv, TableInv, Rest
<1>11. Queued'
  BY <1>0, <1>1, <1>3, <1>4, <1>5, <1>6, <1>7, <1>10, HeldFacts DEF Queued
<1>12. Listed'
  BY <1>0, <1>1, <1>3, <1>4, <1>5, <1>6, HeldFacts DEF Listed, Live
<1> QED
  BY <1>8, <1>9, <1>11, <1>12

LEMMA ScanHeld ==
  ASSUME HeldInv, down.pc = "up", NEW c \in Callers, Scan(c)
  PROVE  Seated' /\ Retired' /\ Queued' /\ Listed'
<1>0. HeldInv /\ down.pc = "up" /\ retention.ids \subseteq Runs /\ order \in Seq(Runs)
  BY DEF HeldInv, TableInv, Rest
<1>1. PICK i \in DOMAIN order : /\ order[i] \in Finished /\ order' = Drop(i)
                                /\ caller' = [caller EXCEPT ![c].pc = "evict", ![c].victim = order[i]]
  BY DEF Scan, IsFirst, Evictable
<1>2. /\ caller[c].pc = "scan" /\ caller'[c].pc = "evict" /\ caller'[c].run = caller[c].run
      /\ caller'[c].victim = order[i]
      /\ \A d \in Callers \ {c} : caller'[d] = caller[d]
      /\ UNCHANGED <<slots, called, retention>>
  BY <1>0, <1>1, HeldFacts DEF Scan, runVars, CallerType
<1>3. /\ \A q : InOrder(q)' => InOrder(q)
      /\ \A q : Once(q) => Once(q)'
      /\ \A q : InOrder(q) /\ q # order[i] => InOrder(q)'
      /\ Once(order[i]) => \A q : InOrder(q)' => q # order[i]
  BY <1>0, <1>1, DropEntry
<1>4. Registered' = Registered /\ Live' = Live /\ Finished' = Finished
  BY <1>2 DEF Registered, Live, Finished
<1>5. \A q : Waiting(q)' <=> Waiting(q)
  BY <1>2 DEF Waiting
<1>6. /\ \A d \in Callers \ {c} : \A q : Evicting(d, q)' <=> Evicting(d, q)
      /\ \A q : Evicting(c, q)' <=> q = order[i]
      /\ \A q : ~ Evicting(c, q)
  BY <1>2 DEF Evicting
<1>7. /\ order[i] \in Registered /\ InOrder(order[i]) /\ \A d \in Callers : caller[d].run # order[i]
      /\ \A d \in Callers : ~ Evicting(d, order[i])
  BY <1>0, <1>1, HeldFacts DEF Retired, InOrder, Queued
<1>8. \A q : InOrder(q)' => q # order[i]
  BY <1>0, <1>3, <1>7, HeldFacts DEF Queued, Registered, Live
<1>9. Seated'
  BY <1>0, <1>2, <1>4, HeldFacts DEF Seated, Beyond
<1>10. Retired'
  BY <1>0, <1>2, <1>4, <1>7, HeldFacts DEF Retired, Registered, Live
<1>11. Queued'
  BY <1>0, <1>2, <1>3, <1>4, <1>5, <1>6, <1>7, <1>8, HeldFacts DEF Queued
<1>12. Listed'
  BY <1>0, <1>2, <1>3, <1>4, <1>5, <1>6, HeldFacts DEF Listed
<1> QED
  BY <1>9, <1>10, <1>11, <1>12

LEMMA RefuseHeld ==
  ASSUME HeldInv, down.pc = "up", NEW c \in Callers, Refuse(c)
  PROVE  Seated' /\ Retired' /\ Queued' /\ Listed'
<1>0. HeldInv /\ down.pc = "up" /\ retention.ids \subseteq Runs /\ called \in [Runs -> {"no", "yes", "refused"}]
  BY DEF HeldInv, TableInv, Rest, Stop, EvictInv, Typed
<1>1. /\ caller[c].pc = "scan" /\ caller'[c] = Free
      /\ called' = [called EXCEPT ![caller[c].run] = "refused"]
      /\ \A d \in Callers \ {c} : caller'[d] = caller[d]
      /\ UNCHANGED <<slots, order, retention>>
  BY <1>0, HeldFacts DEF Refuse
<1>2. caller'[c].pc = "free" /\ caller'[c].run = None
  BY <1>1 DEF Free
<1>3. Registered' = Registered /\ Live' = Live /\ Finished' = Finished
  BY <1>1 DEF Registered, Live, Finished
<1>4. \A q : (InOrder(q)' <=> InOrder(q)) /\ (Once(q)' <=> Once(q))
  BY <1>1 DEF InOrder, Once
<1>5. \A q \in Runs : Waiting(q)' => Waiting(q)
  BY <1>0, <1>1, <1>2 DEF Waiting
<1>6. \A d \in Callers : \A q : Evicting(d, q)' <=> Evicting(d, q)
  BY <1>1, <1>2 DEF Evicting
<1>7. Finished \subseteq Runs /\ None \notin Runs
  BY NoneAssumption DEF Finished, Live
<1>8. Seated'
  BY <1>0, <1>1, <1>2, <1>3, HeldFacts DEF Seated, Beyond
<1>9. Retired'
  BY <1>0, <1>1, <1>2, <1>3, <1>7, HeldFacts DEF Retired
<1>10. Queued'
  BY <1>0, <1>1, <1>2, <1>3, <1>4, <1>5, <1>6, <1>7, HeldFacts DEF Queued
<1>11. Listed'
  BY <1>0, <1>1, <1>2, <1>3, <1>4, <1>5, <1>6, HeldFacts DEF Listed, Live
<1> QED
  BY <1>8, <1>9, <1>10, <1>11

LEMMA EvictHeld ==
  ASSUME HeldInv, down.pc = "up", NEW c \in Callers, Evict(c)
  PROVE  Seated' /\ Retired' /\ Queued' /\ Listed'
<1>0. HeldInv /\ down.pc = "up" /\ slots \in [Runs -> Slot \cup {None}]
  BY DEF HeldInv, TableInv, Stop, EvictInv, Typed
<1> DEFINE v == caller[c].victim
<1>1. /\ caller[c].pc = "evict" /\ caller'[c].pc = "create" /\ caller'[c].run = caller[c].run
      /\ \A d \in Callers \ {c} : caller'[d] = caller[d]
      /\ slots' = [slots EXCEPT ![v] = None]
      /\ UNCHANGED <<called, order, retention>>
  BY <1>0, HeldFacts DEF Evict, runVars, CallerType
<1>2. v \in Runs /\ \A d \in Callers : caller[d].run # v
  BY <1>0, <1>1, HeldFacts DEF Retired
<1>3. Registered' = Registered \ {v} /\ Live' = Live \ {v} /\ Finished' = Finished \ {v}
  BY <1>0, <1>1, <1>2 DEF Registered, Live, Finished
<1>4. \A q : (InOrder(q)' <=> InOrder(q)) /\ (Once(q)' <=> Once(q))
  BY <1>1 DEF InOrder, Once
<1>5. \A q : Waiting(q)' <=> Waiting(q)
  BY <1>1 DEF Waiting
<1>6. /\ \A d \in Callers \ {c} : \A q : Evicting(d, q)' <=> Evicting(d, q)
      /\ \A q : ~ Evicting(c, q)' /\ (Evicting(c, q) <=> q = v)
  BY <1>1 DEF Evicting
<1>7. ~ Waiting(v)
  BY <1>0, <1>2, <1>6, HeldFacts
<1>8. \A q \in Runs \ {v} : slots'[q] = slots[q]
  BY <1>0, <1>1
<1> HIDE DEF v
<1>9. Seated'
  BY <1>0, <1>1, <1>2, <1>3, HeldFacts DEF Seated, Beyond
<1>10. Retired'
  BY <1>0, <1>1, <1>3, HeldFacts DEF Retired
<1>11. Queued'
  <2>1. \A d \in Callers : caller'[d].run = caller[d].run
    BY <1>1
  <2>2. /\ \A q \in retention'.ids : q \in Runs /\ ~ Waiting(q)' /\ \A d \in Callers : caller'[d].run # q
        /\ retention'.pc = "prune" => \A q \in retention'.ids : q \notin Registered'
    BY <1>0, <1>1, <1>3, <1>5, <2>1, HeldFacts DEF Queued
  <2> QED
    BY <1>0, <1>1, <1>3, <1>4, <1>5, <1>6, <1>7, <1>8, <2>2, HeldFacts DEF Queued
<1>12. Listed'
  BY <1>0, <1>1, <1>3, <1>4, <1>5, <1>6, HeldFacts DEF Listed
<1> QED
  BY <1>9, <1>10, <1>11, <1>12

LEMMA CreateSlotHeld ==
  ASSUME HeldInv, down.pc = "up", NEW c \in Callers, CreateSlot(c)
  PROVE  Seated' /\ Retired' /\ Queued' /\ Listed'
<1>0. HeldInv /\ down.pc = "up" /\ slots \in [Runs -> Slot \cup {None}]
  BY DEF HeldInv, TableInv, Stop, EvictInv, Typed
<1> DEFINE r == caller[c].run
<1>1. /\ caller[c].pc = "create" /\ caller'[c].pc \in {"order", "run"} /\ caller'[c].run = r
      /\ \A d \in Callers \ {c} : caller'[d] = caller[d]
      /\ UNCHANGED <<called, order, retention>>
      /\ slots[r] = None => caller'[c].pc = "order"
      /\ slots[r] # None => caller'[c].pc = "run"
  BY <1>0, HeldFacts DEF CreateSlot, Goto, runVars, CallerType
<1>2. /\ r \in Runs /\ Waiting(r) /\ r \notin Finished /\ called[r] # "no"
      /\ \A d \in Callers : ~ Evicting(d, r)
      /\ \A d \in Callers : caller[d].run = r <=> d = c
  <2>1. r \in Runs /\ Waiting(r)
    BY <1>0, <1>1, HeldFacts DEF Waiting
  <2>2. called[r] # "no"
    BY <1>1 DEF HeldInv, TableInv, Stop, EvictInv, Own
  <2> QED
    BY <1>0, <1>1, <2>1, <2>2, HeldFacts
<1>3. /\ \A q \in Runs \ {r} : slots'[q] = slots[q]
      /\ slots'[r] # None /\ slots'[r].known /\ ~ slots'[r].finished
  <2>1. CASE slots[r] # None
    <3>1. slots[r] \in Slot /\ ~ slots[r].finished /\ slots' = [slots EXCEPT ![r] = [slots[r] EXCEPT !.known = TRUE]]
      BY <1>0, <1>2, <2>1 DEF CreateSlot, Finished, Live
    <3>2. slots'[r] = [slots[r] EXCEPT !.known = TRUE] /\ \A q \in Runs \ {r} : slots'[q] = slots[q]
      BY <1>0, <1>2, <3>1
    <3> QED
      BY <3>1, <3>2, SlotKept DEF Slot
  <2>2. CASE slots[r] = None
    <3>1. slots'[r] = [chan |-> r, finished |-> FALSE, handle |-> FALSE, known |-> TRUE]
          /\ \A q \in Runs \ {r} : slots'[q] = slots[q]
      BY <1>0, <1>2, <2>2 DEF CreateSlot
    <3>2. slots'[r] \in Slot
      BY <1>2, <3>1 DEF Slot, Chans
    <3>3. slots'[r] # None
      BY <3>2, SlotAssumption
    <3>4. slots'[r].known = TRUE /\ slots'[r].finished = FALSE
      BY <3>1
    <3> QED
      BY <3>1, <3>3, <3>4
  <2> QED
    BY <2>1, <2>2
<1>4. Registered' = Registered \cup {r} /\ Live' = Live \cup {r} /\ Finished' = Finished
  BY <1>2, <1>3 DEF Registered, Live, Finished
<1>5. \A q : (InOrder(q)' <=> InOrder(q)) /\ (Once(q)' <=> Once(q))
  BY <1>1 DEF InOrder, Once
<1>6. /\ \A q : q # r => (Waiting(q)' <=> Waiting(q))
      /\ ~ Waiting(r)'
  BY <1>1, <1>2 DEF Waiting
<1>7. \A d \in Callers : \A q : Evicting(d, q)' <=> Evicting(d, q)
  BY <1>1 DEF Evicting
<1>8. slots[r] # None => InOrder(r)
  <2>1. ASSUME NEW d \in Callers, caller[d].pc = "order", caller[d].run = r
        PROVE  FALSE
    BY <1>1, <1>2, <2>1
  <2> QED
    BY <1>0, <1>2, <2>1, HeldFacts DEF Listed, Live
<1> HIDE DEF r
<1>9. Seated'
  BY <1>0, <1>1, <1>4, HeldFacts DEF Seated, Beyond
<1>10. Retired'
  BY <1>0, <1>1, <1>2, <1>4, HeldFacts DEF Retired
<1>11. Queued'
  BY <1>0, <1>1, <1>2, <1>3, <1>4, <1>5, <1>6, <1>7, HeldFacts DEF Queued
<1>12. Listed'
  BY <1>0, <1>1, <1>4, <1>5, <1>6, <1>7, <1>8, HeldFacts DEF Listed
<1> QED
  BY <1>9, <1>10, <1>11, <1>12

LEMMA PushOrderHeld ==
  ASSUME HeldInv, down.pc = "up", NEW c \in Callers, PushOrder(c)
  PROVE  Seated' /\ Retired' /\ Queued' /\ Listed'
<1>0. HeldInv /\ down.pc = "up"
  OBVIOUS
<1> DEFINE r == caller[c].run
<1>1. /\ caller[c].pc = "order" /\ caller'[c].pc = "run" /\ caller'[c].run = r
      /\ \A d \in Callers \ {c} : caller'[d] = caller[d]
      /\ UNCHANGED <<called, slots, retention>>
      /\ order' = Append(order, r)
  BY <1>0, HeldFacts DEF PushOrder, Goto, runVars, CallerType
<1>2. /\ r \in Runs /\ r \in Registered /\ ~ InOrder(r) /\ called[r] # "no"
      /\ \A d \in Callers : caller[d].run = r <=> d = c
  <2>1. called[r] # "no"
    BY <1>1 DEF HeldInv, TableInv, Stop, EvictInv, Own
  <2> QED
    BY <1>0, <1>1, <2>1, HeldFacts DEF Seated, Beyond, Queued
<1>3. Registered' = Registered /\ Live' = Live /\ Finished' = Finished
  BY <1>1 DEF Registered, Live, Finished
<1>4. /\ \A q : InOrder(q)' <=> InOrder(q) \/ q = r
      /\ \A q : Once(q) => Once(q)'
  BY <1>0, <1>1, <1>2, PushEntry, HeldFacts
<1>5. /\ \A q : Waiting(q)' <=> Waiting(q)
      /\ ~ Waiting(r)
  BY <1>1, <1>2 DEF Waiting
<1>6. \A d \in Callers : \A q : (Evicting(d, q)' <=> Evicting(d, q)) /\ (Evicting(d, q) => q # r)
  <2>1. \A d \in Callers : \A q : Evicting(d, q)' <=> Evicting(d, q)
    BY <1>1 DEF Evicting
  <2> QED
    BY <1>0, <1>1, <2>1, HeldFacts DEF Evicting, Retired
<1> HIDE DEF r
<1>7. Seated'
  BY <1>0, <1>1, <1>2, <1>3, HeldFacts DEF Seated
<1>8. Retired'
  BY <1>0, <1>1, <1>2, <1>3, HeldFacts DEF Retired
<1>9. Queued'
  <2>1. \A q \in Runs : Waiting(q)' /\ slots'[q] = None => ~ InOrder(q)'
    BY <1>0, <1>1, <1>4, <1>5, HeldFacts DEF Queued
  <2>2. \A q \in Runs : Waiting(q)' \/ q \in Registered' => Once(q)'
    BY <1>0, <1>3, <1>4, <1>5, HeldFacts DEF Queued
  <2>3. \A d \in Callers : caller'[d].pc = "order" => ~ InOrder(caller[d].run)'
    <3> SUFFICES ASSUME NEW d \in Callers, caller'[d].pc = "order" PROVE ~ InOrder(caller[d].run)'
      OBVIOUS
    <3>1. d # c /\ caller[d]' = caller[d] /\ caller[d].run # r
      BY <1>1, <1>2
    <3>2. ~ InOrder(caller[d].run)
      BY <1>0, <3>1, HeldFacts DEF Queued
    <3> QED
      BY <1>4, <3>1, <3>2
  <2>4. \A q \in Registered', d \in Callers : Evicting(d, q)' =>
          ~ InOrder(q)' /\ \A e \in Callers : Evicting(e, q)' => e = d
    BY <1>0, <1>3, <1>4, <1>6, HeldFacts DEF Queued
  <2>5. /\ \A q \in retention'.ids : q \in Runs /\ ~ Waiting(q)' /\ \A d \in Callers : caller'[d].run # q
        /\ retention'.pc = "prune" => \A q \in retention'.ids : q \notin Registered'
    BY <1>0, <1>1, <1>2, <1>3, <1>5, HeldFacts DEF Queued
  <2> QED
    BY <2>1, <2>2, <2>3, <2>4, <2>5 DEF Queued
<1>10. Listed'
  BY <1>0, <1>1, <1>2, <1>3, <1>4, <1>5, <1>6, HeldFacts DEF Listed
<1> QED
  BY <1>7, <1>8, <1>9, <1>10

\* A call goes on with its work, or returns; only then may its run be finished.
LEMMA MoveHeld ==
  ASSUME HeldInv, down.pc = "up", NEW c \in Callers, caller[c].pc \in Beyond \ {"order"},
         \/ caller'[c].pc \in Beyond \ {"order"} /\ caller'[c].run = caller[c].run /\ Finished' = Finished
         \/ caller'[c] = Free,
         \A d \in Callers \ {c} : caller'[d] = caller[d],
         UNCHANGED <<called, order, retention>>,
         Live' = Live, Registered' = Registered, Finished' \subseteq Finished \cup {caller[c].run}
  PROVE  Seated' /\ Retired' /\ Queued' /\ Listed'
<1>0. HeldInv /\ down.pc = "up" /\ None \notin Runs /\ called \in [Runs -> {"no", "yes", "refused"}]
  BY NoneAssumption DEF HeldInv, TableInv, Stop, EvictInv, Typed
<1>1. Free.pc = "free" /\ Free.run = None
  BY DEF Free
<1>2. \A q : (InOrder(q)' <=> InOrder(q)) /\ (Once(q)' <=> Once(q))
  BY DEF InOrder, Once
<1>3. \A q : Waiting(q)' <=> Waiting(q)
  BY <1>1 DEF Waiting, Beyond
<1>4. \A d \in Callers : \A q : Evicting(d, q)' <=> Evicting(d, q)
  BY <1>1 DEF Evicting, Beyond
<1>5. \A d \in Callers : caller'[d].pc = "order" => caller'[d] = caller[d]
  BY <1>1 DEF Beyond
<1>6. caller[c].run \in Registered /\ \A d \in Callers \ {c} : caller[d].run # caller[c].run
  BY <1>0, HeldFacts DEF Seated, Beyond
<1>7. Seated'
  BY <1>0, <1>1, <1>6, HeldFacts DEF Seated, Beyond
<1>8. Retired'
  <2>1. ASSUME NEW q \in Finished', NEW d \in Callers PROVE q \in Registered' /\ caller'[d].run # q
    <3>1. CASE q \in Finished
      <4>1. caller[d].run # q /\ q \in Registered /\ q \in Runs
        BY <1>0, <3>1, HeldFacts DEF Retired, Finished, Live
      <4> QED
        BY <1>0, <1>1, <4>1
    <3>2. CASE q \notin Finished
      <4>1. q = caller[c].run /\ caller'[c] = Free /\ q \in Runs
        BY <1>6, <2>1, <3>2 DEF Registered, Live
      <4> QED
        BY <1>0, <1>1, <1>6, <4>1
    <3> QED
      BY <3>1, <3>2
  <2>2. ASSUME NEW d \in Callers, caller'[d].pc = "evict", NEW e \in Callers
        PROVE  caller'[d].victim \in Runs /\ caller'[e].run # caller'[d].victim
    <3>1. caller'[d] = caller[d]
      BY <1>1, <2>2 DEF Beyond
    <3>2. caller[d].victim \in Runs /\ caller[e].run # caller[d].victim
      BY <1>0, <2>2, <3>1, HeldFacts DEF Retired
    <3> QED
      BY <1>0, <1>1, <3>1, <3>2
  <2> QED
    BY <2>1, <2>2 DEF Retired
<1>9. Queued'
  <2>1. \A q \in Runs : slots'[q] = None => slots[q] = None
    BY DEF Live
  <2>2. \A q \in retention.ids : q \in Runs /\ \A d \in Callers : caller'[d].run # q
    BY <1>0, <1>1, HeldFacts DEF Queued
  <2> QED
    BY <1>0, <1>2, <1>3, <1>4, <1>5, <2>1, <2>2, HeldFacts DEF Queued
<1>10. Listed'
  <2>1. \A q : (\E d \in Callers : caller[d].pc = "order" /\ caller[d].run = q)
               => \E d \in Callers : caller'[d].pc = "order" /\ caller'[d].run = q
    OBVIOUS
  <2> QED
    BY <1>0, <1>2, <1>3, <1>4, <2>1, HeldFacts DEF Listed
<1> QED
  BY <1>7, <1>8, <1>9, <1>10

LEMMA CallerHeld ==
  ASSUME HeldInv, down.pc = "up", NEW c \in Callers, CallerStep(c)
  PROVE  Seated' /\ Retired' /\ Queued' /\ Listed'
<1>0. HeldInv /\ down.pc = "up" /\ slots \in [Runs -> Slot \cup {None}]
  BY DEF HeldInv, TableInv, Stop, EvictInv, Typed
<1>1. caller \in [Callers -> CallerType]
  BY <1>0, HeldFacts
<1>2. ASSUME slots' = slots PROVE Live' = Live /\ Registered' = Registered /\ Finished' = Finished
  BY <1>2 DEF Live, Registered, Finished
<1>3. CASE RunInline(c) \/ Spawn(c)
  BY <1>0, <1>1, <1>2, <1>3, MoveHeld DEF RunInline, Spawn, Goto, Beyond, CallerType
<1>4. CASE SpawnFinisher(c)
  BY <1>0, <1>1, <1>2, <1>4, MoveHeld DEF SpawnFinisher, Beyond
<1> DEFINE r == caller[c].run
<1>5. caller[c].pc \in Beyond => r \in Runs /\ r \in Registered /\ slots[r] # None /\ slots[r] \in Slot
  BY <1>0, HeldFacts DEF Seated, Registered, Live
<1>6. CASE StoreHandle(c)
  <2>1. caller[c].pc = "handle" /\ slots' = [slots EXCEPT ![r] = [slots[r] EXCEPT !.handle = TRUE]]
        /\ UNCHANGED <<called, order, retention>> /\ Goto(c, "finisher")
    BY <1>5, <1>6 DEF StoreHandle, Beyond, runVars
  <2>2. /\ r \in Runs /\ slots[r] # None
        /\ slots'[r] # None /\ slots'[r].known = slots[r].known /\ slots'[r].finished = slots[r].finished
        /\ \A q \in Runs \ {r} : slots'[q] = slots[q]
    BY <1>0, <1>5, <2>1, SlotKept DEF Beyond, Slot
  <2>3. Live' = Live /\ Registered' = Registered /\ Finished' = Finished
    BY <2>2 DEF Live, Registered, Finished
  <2> QED
    BY <1>0, <1>1, <2>1, <2>3, MoveHeld DEF Goto, Beyond, CallerType
<1>7. CASE FinishSlot(c)
  <2>1. caller[c].pc = "inline" /\ slots' = [slots EXCEPT ![r] = [slots[r] EXCEPT !.finished = TRUE]]
        /\ UNCHANGED <<called, order, retention>> /\ caller' = [caller EXCEPT ![c] = Free]
    BY <1>5, <1>7 DEF FinishSlot, Beyond, runVars
  <2>2. /\ r \in Runs /\ slots[r] # None
        /\ slots'[r] # None /\ slots'[r].known = slots[r].known
        /\ \A q \in Runs \ {r} : slots'[q] = slots[q]
    BY <1>0, <1>5, <2>1, SlotKept DEF Beyond, Slot
  <2>3. Live' = Live /\ Registered' = Registered /\ Finished' \subseteq Finished \cup {r}
    BY <2>2 DEF Live, Registered, Finished
  <2> QED
    BY <1>0, <1>1, <2>1, <2>3, MoveHeld DEF Beyond
<1> QED
  BY <1>0, <1>3, <1>4, <1>6, <1>7, ScanHeld, RefuseHeld, EvictHeld, CreateSlotHeld, PushOrderHeld DEF CallerStep

\* Steps that leave table, order and calls alone.
LEMMA StillHeld ==
  ASSUME HeldInv, down.pc = "up", UNCHANGED <<slots, order, caller, called, retention>>
  PROVE  Seated' /\ Retired' /\ Queued' /\ Listed'
<1>0. HeldInv /\ down.pc = "up"
  OBVIOUS
<1>1. Seated' /\ Retired'
  BY <1>0, HeldFacts DEF Seated, Retired, Registered, Finished, Live
<1>2. \A q : (InOrder(q)' <=> InOrder(q)) /\ (Once(q)' <=> Once(q)) /\ (Waiting(q)' <=> Waiting(q))
  BY DEF InOrder, Once, Waiting
<1>3. \A d, q : Evicting(d, q)' <=> Evicting(d, q)
  BY DEF Evicting
<1>4. Registered' = Registered /\ Live' = Live
  BY DEF Registered, Live
<1>5. Queued'
  BY <1>0, <1>2, <1>3, <1>4, HeldFacts DEF Queued
<1>6. Listed'
  BY <1>0, <1>2, <1>3, <1>4, HeldFacts DEF Listed
<1> QED
  BY <1>1, <1>5, <1>6

LEMMA PlaceholderHeld ==
  ASSUME HeldInv, down.pc = "up", NEW s \in Subs, Placeholder(s)
  PROVE  Seated' /\ Retired' /\ Queued' /\ Listed'
<1>0. HeldInv /\ down.pc = "up" /\ slots \in [Runs -> Slot \cup {None}] /\ retention.ids \subseteq Runs
  BY DEF HeldInv, TableInv, Stop, EvictInv, Typed, Rest
<1>1. CASE UNCHANGED <<slots, order>>
  BY <1>0, <1>1, StillHeld DEF Placeholder, runVars
<1>2. CASE ~ UNCHANGED <<slots, order>>
  <2>0. PICK r \in Runs : r = sub[s].run
    BY DEF Placeholder, HeldInv, TableInv, Rest
  <2>1. /\ slots[r] = None /\ order' = Append(order, r)
        /\ slots' = [slots EXCEPT ![r] =
             [chan |-> s, finished |-> FALSE, handle |-> FALSE, known |-> FALSE]]
        /\ UNCHANGED <<caller, called, retention>>
    BY <1>2, <2>0 DEF Placeholder, runVars
  <2>2. slots'[r] = [chan |-> s, finished |-> FALSE, handle |-> FALSE, known |-> FALSE]
        /\ \A q \in Runs \ {r} : slots'[q] = slots[q]
    BY <1>0, <2>1
  <2>3. slots'[r] \in Slot
    BY <2>2 DEF Slot, Chans
  <2>4. slots'[r] # None /\ slots'[r].known = FALSE /\ slots'[r].finished = FALSE
    <3>1. slots'[r] # None
      BY <2>3, SlotAssumption
    <3> QED
      BY <2>2, <3>1
  <2>5. Live' = Live \cup {r} /\ Registered' = Registered /\ Finished' = Finished /\ r \notin Registered
    BY <2>1, <2>2, <2>4 DEF Live, Registered, Finished
  <2>6. /\ \A q : InOrder(q)' <=> InOrder(q) \/ q = r
        /\ \A q : Once(q) /\ q # r => Once(q)'
        /\ ~ InOrder(r) => Once(r)'
    BY <1>0, <2>1, PushEntry, HeldFacts
  <2>7. \A q : Waiting(q)' <=> Waiting(q)
    BY <2>1 DEF Waiting
  <2>8. \A d, q : Evicting(d, q)' <=> Evicting(d, q)
    BY <2>1 DEF Evicting
  <2>9. Waiting(r) => ~ InOrder(r)
    BY <1>0, <2>1, HeldFacts DEF Queued
  <2>10. \A d \in Callers : caller[d].pc = "order" => caller[d].run # r
    BY <1>0, <2>5, HeldFacts DEF Seated, Beyond
  <2>11. Seated' /\ Retired'
    BY <1>0, <2>1, <2>5, HeldFacts DEF Seated, Retired
  <2>12. Queued'
    BY <1>0, <2>1, <2>2, <2>4, <2>5, <2>6, <2>7, <2>8, <2>9, <2>10, HeldFacts DEF Queued
  <2>13. Listed'
    BY <1>0, <2>1, <2>5, <2>6, <2>7, <2>8, HeldFacts DEF Listed
  <2> QED
    BY <2>11, <2>12, <2>13
<1> QED
  BY <1>1, <1>2

LEMMA RetentionHeld ==
  ASSUME HeldInv, down.pc = "up", RetentionList \/ RetentionRemove \/ RetentionPrune
  PROVE  Seated' /\ Retired' /\ Queued' /\ Listed'
<1>0. HeldInv /\ down.pc = "up" /\ slots \in [Runs -> Slot \cup {None}] /\ order \in Seq(Runs)
  BY DEF HeldInv, TableInv, Stop, EvictInv, Typed, Rest
<1>1. UNCHANGED <<caller, called>>
  BY DEF RetentionList, RetentionRemove, RetentionPrune, runVars
<1>2. \A q : Waiting(q)' <=> Waiting(q)
  BY <1>1 DEF Waiting
<1>3. \A d, q : Evicting(d, q)' <=> Evicting(d, q)
  BY <1>1 DEF Evicting
<1>4. CASE RetentionRemove
  <2> DEFINE ids == retention.ids
  <2>1. /\ slots' = [r \in Runs |-> IF r \in ids THEN None ELSE slots[r]]
        /\ retention' = [pc |-> "prune", ids |-> ids]
    BY <1>4 DEF RetentionRemove
  <2>2. order' = order
    BY <1>4 DEF RetentionRemove
  <2>3. Live' = Live \ ids /\ Registered' = Registered \ ids /\ Finished' = Finished \ ids
    BY <2>1 DEF Live, Registered, Finished
  <2>4. \A q : (InOrder(q)' <=> InOrder(q)) /\ (Once(q)' <=> Once(q))
    BY <2>2 DEF InOrder, Once
  <2>5. \A q \in ids : q \in Runs /\ ~ Waiting(q) /\ \A c \in Callers : caller[c].run # q
    BY <1>0, HeldFacts DEF Queued
  <2> HIDE DEF ids
  <2>6. Seated' /\ Retired'
    BY <1>0, <1>1, <2>3, <2>5, HeldFacts DEF Seated, Retired, Beyond
  <2>7. \A q \in Runs : Waiting(q) /\ slots'[q] = None => slots[q] = None
    BY <2>1, <2>5
  <2>8. Queued'
    BY <1>0, <1>1, <1>2, <1>3, <2>1, <2>3, <2>4, <2>5, <2>7, HeldFacts DEF Queued
  <2>9. Listed'
    BY <1>0, <1>1, <1>2, <1>3, <2>3, <2>4, HeldFacts DEF Listed
  <2> QED
    BY <2>6, <2>8, <2>9
<1>5. CASE RetentionPrune
  <2>1. UNCHANGED slots /\ retention'.ids = {} /\ retention.pc = "prune"
    BY <1>5 DEF RetentionPrune
  <2>2. Live' = Live /\ Registered' = Registered /\ Finished' = Finished
    BY <2>1 DEF Live, Registered, Finished
  <2>3. /\ \A q : InOrder(q)' => InOrder(q)
        /\ \A q : InOrder(q) /\ q \notin retention.ids => InOrder(q)'
        /\ \A q : Once(q) => Once(q)'
    BY <1>0, <1>5, PruneEntries DEF Kept
  <2>4. Seated' /\ Retired'
    BY <1>0, <1>1, <2>2, HeldFacts DEF Seated, Retired
  <2>5. Queued'
    BY <1>0, <1>1, <1>2, <1>3, <2>1, <2>2, <2>3, HeldFacts DEF Queued
  <2>6. Listed'
    BY <1>0, <1>1, <1>2, <1>3, <2>1, <2>2, <2>3, HeldFacts DEF Listed, Queued
  <2> QED
    BY <2>4, <2>5, <2>6
<1>6. CASE RetentionList
  <2>1. UNCHANGED <<slots, order>> /\ retention'.ids \subseteq Finished /\ retention'.pc = "remove"
    BY <1>6 DEF RetentionList
  <2>2. Live' = Live /\ Registered' = Registered /\ Finished' = Finished /\ Finished \subseteq Runs
    BY <2>1 DEF Live, Registered, Finished
  <2>3. \A q : (InOrder(q)' <=> InOrder(q)) /\ (Once(q)' <=> Once(q))
    BY <2>1 DEF InOrder, Once
  <2>4. Seated' /\ Retired'
    BY <1>0, <1>1, <2>2, HeldFacts DEF Seated, Retired
  <2>5. \A q \in retention'.ids : q \in Runs /\ ~ Waiting(q)' /\ \A c \in Callers : caller'[c].run # q
    BY <1>0, <1>1, <1>2, <2>1, <2>2, HeldFacts DEF Retired
  <2>6. Queued'
    BY <1>0, <1>1, <1>2, <1>3, <2>1, <2>2, <2>3, <2>5, HeldFacts DEF Queued
  <2>7. Listed'
    BY <1>0, <1>1, <1>2, <1>3, <2>2, <2>3, HeldFacts DEF Listed
  <2> QED
    BY <2>4, <2>6, <2>7
<1> QED
  BY <1>4, <1>5, <1>6

LEMMA StaysUp ==
  ASSUME HeldInv, [Next]_vars, down'.pc = "up"
  PROVE  down.pc = "up" /\ ~ ShutdownList /\ ~ ShutdownStep
<1>1. "pc" \in DOMAIN down /\ down \in DownType
  BY DEF HeldInv, TableInv, Stop, StopInv, EvictInv, Typed, Shape
<1>2. ~ ShutdownList
  BY <1>1 DEF ShutdownList, DownType
<1>3. ~ ShutdownStep
  BY <1>1 DEF ShutdownStep, AbortTask, AbortRow, AbortFinish, ShutdownClear, DownType
<1> QED
  BY <1>2, <1>3 DEF Next, CheckCapacity, CallerStep, Scan, Refuse, Evict, CreateSlot, PushOrder, RunInline,
     FinishSlot, Spawn, StoreHandle, SpawnFinisher, RunStep, StartedRow, DropTask, Finisher, WorkEnds,
     Placeholder, Subscribe, RetentionList, RetentionRemove, RetentionPrune, vars

LEMMA HeldNext == HeldInv /\ [Next]_vars => HeldInv'
<1> SUFFICES ASSUME HeldInv, [Next]_vars, down'.pc = "up" PROVE Seated' /\ Retired' /\ Queued' /\ Listed'
  BY TableNext DEF HeldInv, Held
<1>1. down.pc = "up" /\ ~ ShutdownList /\ ~ ShutdownStep
  BY StaysUp
<1>2. ASSUME NEW r \in Runs, RunStep(r) PROVE Seated' /\ Retired' /\ Queued' /\ Listed'
  BY <1>1, <1>2, StillHeld DEF RunStep, StartedRow, DropTask, Finisher, WorkEnds
<1>3. ASSUME NEW s \in Subs, NEW r \in Asked, Subscribe(s, r) PROVE Seated' /\ Retired' /\ Queued' /\ Listed'
  BY <1>1, <1>3, StillHeld DEF Subscribe, runVars
<1>4. CASE UNCHANGED vars
  BY <1>1, <1>4, StillHeld DEF vars
<1> QED
  BY <1>1, <1>2, <1>3, <1>4, CheckCapacityHeld, CallerHeld, PlaceholderHeld, RetentionHeld DEF Next

-----------------------------------------------------------------------------
(* The size of the table. *)

Victims == {r \in Runs : \E c \in Callers : Evicting(c, r)}

\* The calls that have passed the capacity check and have not made their slot.
Reserving == {c \in Callers : caller[c].pc \in {"evict", "create"}}

\* A call that has passed the check counts like a slot, and a slot that is about to be
\* evicted for it does not.
Counted ==
  down.pc = "up" =>
    Cardinality(Registered \ Victims) + Cardinality(Reserving) <= MaxRuns + Cardinality(Callers) - 1

CountInv == HeldInv /\ Counted

LEMMA Sizes ==
  /\ IsFiniteSet(Registered) /\ IsFiniteSet(Registered \ Victims) /\ IsFiniteSet(Reserving) /\ IsFiniteSet(Live)
  /\ Cardinality(Registered) \in Nat /\ Cardinality(Registered \ Victims) \in Nat
  /\ Cardinality(Reserving) \in Nat /\ Cardinality(Live) \in Nat
  /\ Cardinality(Callers) \in Nat /\ MaxRuns \in Nat
<1>1. IsFiniteSet(Runs) /\ IsFiniteSet(Callers)
  BY FiniteAssumption
<1>2. Live \in SUBSET Runs /\ Registered \in SUBSET Runs
      /\ Registered \ Victims \in SUBSET Runs /\ Reserving \in SUBSET Callers
  BY DEF Registered, Live, Reserving
<1>3. IsFiniteSet(Registered) /\ IsFiniteSet(Registered \ Victims) /\ IsFiniteSet(Reserving) /\ IsFiniteSet(Live)
  BY <1>1, <1>2, FS_Subset
<1> QED
  BY <1>1, <1>3, FS_CardinalityType, MaxRunsAssumption

LEMMA CountInit == Init => CountInv
<1> SUFFICES ASSUME Init PROVE Counted
  BY HeldInit DEF CountInv
<1>1. Registered \ Victims = {}
  BY DEF Init, Registered, Live
<1>2. Reserving = {}
  BY DEF Init, Reserving
<1>3. Cardinality(Registered \ Victims) = 0 /\ Cardinality(Reserving) = 0
  BY <1>1, <1>2, FS_EmptySet
<1> QED
  BY <1>3, Sizes, MaxRunsAssumption DEF Counted

\* Nothing is added to the table or to the calls that have passed the check.
LEMMA CountLess ==
  ASSUME Counted, down.pc = "up", (Registered \ Victims)' \subseteq Registered \ Victims,
         Reserving' \subseteq Reserving
  PROVE  Counted'
<1>1. Cardinality((Registered \ Victims)') <= Cardinality(Registered \ Victims)
      /\ Cardinality(Reserving') <= Cardinality(Reserving)
      /\ Cardinality((Registered \ Victims)') \in Nat /\ Cardinality(Reserving') \in Nat
  BY Sizes, FS_Subset, FS_CardinalityType
<1> QED
  BY <1>1, Sizes DEF Counted

LEMMA CheckCapacityCount ==
  ASSUME CountInv, down.pc = "up", NEW c \in Callers, NEW r \in Runs, CheckCapacity(c, r)
  PROVE  Counted'
<1>0. HeldInv /\ Counted /\ down.pc = "up" /\ caller \in [Callers -> CallerType]
  BY HeldFacts DEF CountInv
<1>1. /\ caller[c].pc = "free" /\ UNCHANGED slots
      /\ caller'[c].pc = IF Cardinality(Live) < MaxRuns THEN "create" ELSE "scan"
      /\ \A d \in Callers \ {c} : caller'[d] = caller[d]
  BY <1>0 DEF CheckCapacity
<1>2. Registered' = Registered /\ Victims' = Victims
  BY <1>1 DEF Registered, Live, Victims, Evicting
<1>3. CASE Cardinality(Live) < MaxRuns
  <2>1. (Registered \ Victims)' \subseteq Live /\ Reserving' \subseteq Callers
    BY <1>2 DEF Registered, Reserving
  <2>2. /\ Cardinality((Registered \ Victims)') <= Cardinality(Live)
        /\ Cardinality(Reserving') <= Cardinality(Callers)
        /\ Cardinality((Registered \ Victims)') \in Nat /\ Cardinality(Reserving') \in Nat
    BY <2>1, Sizes, FS_Subset, FS_CardinalityType, FiniteAssumption
  <2> QED
    BY <1>3, <2>2, Sizes DEF Counted
<1>4. CASE ~ (Cardinality(Live) < MaxRuns)
  <2>1. Reserving' \subseteq Reserving
    BY <1>1, <1>4 DEF Reserving
  <2> QED
    BY <1>0, <1>2, <2>1, CountLess
<1> QED
  BY <1>3, <1>4

LEMMA ScanCount ==
  ASSUME CountInv, down.pc = "up", NEW c \in Callers, Scan(c)
  PROVE  Counted'
<1>0. HeldInv /\ Counted /\ down.pc = "up" /\ caller \in [Callers -> CallerType]
  BY HeldFacts DEF CountInv
<1>1. PICK v \in Finished : InOrder(v) /\ caller' = [caller EXCEPT ![c].pc = "evict", ![c].victim = v]
  BY DEF Scan, IsFirst, Evictable, InOrder
<1>2. /\ caller[c].pc = "scan" /\ caller'[c].pc = "evict" /\ caller'[c].victim = v
      /\ \A d \in Callers \ {c} : caller'[d] = caller[d]
      /\ UNCHANGED slots
  BY <1>0, <1>1 DEF Scan, CallerType
<1>3. v \in Registered /\ v \in Runs /\ v \notin Victims
  BY <1>0, <1>1, HeldFacts DEF Retired, Queued, Victims, Registered, Live
<1>4. Registered' = Registered
  BY <1>2 DEF Registered, Live
<1>5. Victims' = Victims \cup {v}
  BY <1>2, <1>3 DEF Victims, Evicting
<1>6. (Registered \ Victims)' = (Registered \ Victims) \ {v} /\ v \in Registered \ Victims
  BY <1>3, <1>4, <1>5
<1>7. Reserving' = Reserving \cup {c} /\ c \notin Reserving
  BY <1>2 DEF Reserving
<1>8. Cardinality((Registered \ Victims) \ {v}) = Cardinality(Registered \ Victims) - 1
      /\ Cardinality(Reserving \cup {c}) = Cardinality(Reserving) + 1
  BY <1>6, <1>7, Sizes, FS_AddElement, FS_RemoveElement
<1>9. Cardinality((Registered \ Victims)') = Cardinality(Registered \ Victims) - 1
      /\ Cardinality(Reserving') = Cardinality(Reserving) + 1
  BY <1>6, <1>7, <1>8
<1> QED
  BY <1>0, <1>9, Sizes DEF Counted

LEMMA CreateSlotCount ==
  ASSUME CountInv, down.pc = "up", NEW c \in Callers, CreateSlot(c)
  PROVE  Counted'
<1>0. HeldInv /\ Counted /\ down.pc = "up" /\ caller \in [Callers -> CallerType]
      /\ slots \in [Runs -> Slot \cup {None}]
  BY HeldFacts DEF CountInv, HeldInv, TableInv, Stop, EvictInv, Typed
<1>1. PICK r \in Runs : r = caller[c].run
  BY <1>0, HeldFacts DEF CreateSlot
<1>2. /\ caller[c].pc = "create" /\ caller'[c].pc \in {"order", "run"}
      /\ \A d \in Callers \ {c} : caller'[d] = caller[d]
      /\ \A q \in Runs \ {r} : slots'[q] = slots[q]
  BY <1>0, <1>1 DEF CreateSlot, Goto, CallerType
<1>3. Registered' \subseteq Registered \cup {r}
  BY <1>2 DEF Registered, Live
<1>4. Victims' = Victims
  BY <1>2 DEF Victims, Evicting
<1>5. (Registered \ Victims)' \in SUBSET ((Registered \ Victims) \cup {r})
  BY <1>3, <1>4
<1>6. Reserving' = Reserving \ {c} /\ c \in Reserving
  BY <1>2 DEF Reserving
<1>7. /\ IsFiniteSet((Registered \ Victims) \cup {r})
      /\ Cardinality((Registered \ Victims) \cup {r}) <= Cardinality(Registered \ Victims) + 1
      /\ Cardinality(Reserving \ {c}) = Cardinality(Reserving) - 1
  <2>1. /\ IsFiniteSet((Registered \ Victims) \cup {r})
        /\ \/ Cardinality((Registered \ Victims) \cup {r}) = Cardinality(Registered \ Victims)
           \/ Cardinality((Registered \ Victims) \cup {r}) = Cardinality(Registered \ Victims) + 1
    BY Sizes, FS_AddElement
  <2>2. Cardinality(Reserving \ {c}) = Cardinality(Reserving) - 1
    BY <1>6, Sizes, FS_RemoveElement
  <2> QED
    BY <2>1, <2>2, Sizes
<1>8. /\ Cardinality((Registered \ Victims)') <= Cardinality((Registered \ Victims) \cup {r})
      /\ Cardinality((Registered \ Victims)') \in Nat /\ Cardinality((Registered \ Victims) \cup {r}) \in Nat
  BY <1>5, <1>7, FS_Subset, FS_CardinalityType
<1>9. Cardinality(Reserving') = Cardinality(Reserving) - 1
  BY <1>6, <1>7
<1> QED
  BY <1>0, <1>7, <1>8, <1>9, Sizes DEF Counted

LEMMA CallerCount ==
  ASSUME CountInv, down.pc = "up", NEW c \in Callers, CallerStep(c)
  PROVE  Counted'
<1>0. HeldInv /\ Counted /\ down.pc = "up" /\ caller \in [Callers -> CallerType]
      /\ slots \in [Runs -> Slot \cup {None}]
  BY HeldFacts DEF CountInv, HeldInv, TableInv, Stop, EvictInv, Typed
<1>1. CASE Evict(c)
  <2>1. PICK v \in Runs : v = caller[c].victim
    BY <1>0, <1>1, HeldFacts DEF Evict, Retired
  <2>2. /\ caller[c].pc = "evict" /\ caller'[c].pc = "create"
        /\ \A d \in Callers \ {c} : caller'[d] = caller[d]
        /\ slots'[v] = None /\ \A q \in Runs \ {v} : slots'[q] = slots[q]
    BY <1>0, <1>1, <2>1 DEF Evict, CallerType
  <2>3. Registered' \subseteq Registered \ {v}
    BY <2>2 DEF Registered, Live
  <2>4. Victims \subseteq Victims' \cup {v}
    BY <2>1, <2>2 DEF Victims, Evicting
  <2>5. Reserving' \subseteq Reserving
    BY <2>2 DEF Reserving
  <2> QED
    BY <1>0, <2>3, <2>4, <2>5, CountLess
<1>2. ASSUME caller[c].pc # "evict", caller'[c].pc \notin {"evict", "create"},
             \A d \in Callers \ {c} : caller'[d] = caller[d], Registered' \subseteq Registered
      PROVE  Counted'
  <2>1. Victims \subseteq Victims' /\ Reserving' \subseteq Reserving
    BY <1>2 DEF Victims, Evicting, Reserving
  <2> QED
    BY <1>0, <1>2, <2>1, CountLess
<1>3. ASSUME slots' = slots PROVE Registered' \subseteq Registered
  BY <1>3 DEF Registered, Live
<1>4. CASE Refuse(c)
  BY <1>0, <1>2, <1>3, <1>4 DEF Refuse, Free
<1>5. CASE PushOrder(c)
  BY <1>0, <1>2, <1>3, <1>5 DEF PushOrder, Goto, CallerType
<1>6. CASE RunInline(c) \/ Spawn(c)
  BY <1>0, <1>2, <1>3, <1>6 DEF RunInline, Spawn, Goto, CallerType
<1>7. CASE SpawnFinisher(c)
  BY <1>0, <1>2, <1>3, <1>7 DEF SpawnFinisher, Free
<1>8. CASE StoreHandle(c)
  <2>1. Registered' \subseteq Registered
    BY <1>0, <1>8, HeldFacts DEF StoreHandle, Registered, Live, Slot
  <2> QED
    BY <1>0, <1>2, <1>8, <2>1 DEF StoreHandle, Goto, CallerType
<1>9. CASE FinishSlot(c)
  <2>1. Registered' \subseteq Registered
    BY <1>0, <1>9, HeldFacts DEF FinishSlot, Registered, Live, Slot
  <2> QED
    BY <1>0, <1>2, <1>9, <2>1 DEF FinishSlot, Free
<1> QED
  BY <1>1, <1>4, <1>5, <1>6, <1>7, <1>8, <1>9, ScanCount, CreateSlotCount DEF CallerStep

LEMMA CountNext == CountInv /\ [Next]_vars => CountInv'
<1> SUFFICES ASSUME CountInv, [Next]_vars, down'.pc = "up" PROVE Counted'
  BY HeldNext DEF CountInv, Counted
<1>1. down.pc = "up" /\ ~ ShutdownList /\ ~ ShutdownStep
  BY StaysUp DEF CountInv
<1>2. ASSUME UNCHANGED caller, Registered' \subseteq Registered PROVE Counted'
  <2>1. Victims' = Victims /\ Reserving' = Reserving
    BY <1>2 DEF Victims, Evicting, Reserving
  <2> QED
    BY <1>1, <1>2, <2>1, CountLess DEF CountInv
<1>3. ASSUME UNCHANGED <<caller, slots>> PROVE Counted'
  BY <1>2, <1>3 DEF Registered, Live
<1>4. ASSUME NEW r \in Runs, RunStep(r) PROVE Counted'
  BY <1>3, <1>4 DEF RunStep, StartedRow, DropTask, Finisher, WorkEnds
<1>5. ASSUME NEW s \in Subs, Placeholder(s) PROVE Counted'
  <2>1. slots \in [Runs -> Slot \cup {None}]
    BY DEF CountInv, HeldInv, TableInv, Stop, EvictInv, Typed
  <2>2. Registered' \subseteq Registered
    BY <1>5, <2>1 DEF Placeholder, Registered, Live
  <2> QED
    BY <1>2, <1>5, <2>2 DEF Placeholder
<1>6. ASSUME NEW s \in Subs, NEW r \in Asked, Subscribe(s, r) PROVE Counted'
  BY <1>3, <1>6 DEF Subscribe
<1>7. CASE RetentionRemove
  <2>1. Registered' \subseteq Registered
    BY <1>7 DEF RetentionRemove, Registered, Live
  <2> QED
    BY <1>2, <1>7, <2>1 DEF RetentionRemove
<1>8. CASE RetentionList \/ RetentionPrune \/ UNCHANGED vars
  BY <1>3, <1>8 DEF RetentionList, RetentionPrune, vars
<1> QED
  BY <1>1, <1>4, <1>5, <1>6, <1>7, <1>8, CheckCapacityCount, CallerCount DEF Next

LEMMA VictimsPaid == IsFiniteSet(Victims) /\ Cardinality(Victims) <= Cardinality(Reserving)
<1> DEFINE E == {c \in Callers : caller[c].pc = "evict" /\ caller[c].victim \in Runs}
           f == [c \in E |-> caller[c].victim]
<1>1. f \in Surjection(E, Victims)
  BY DEF Surjection, Victims, Evicting
<1>2. E \in SUBSET Reserving
  BY DEF Reserving
<1>3. IsFiniteSet(E) /\ Cardinality(E) <= Cardinality(Reserving) /\ Cardinality(E) \in Nat
  BY <1>2, Sizes, FS_Subset, FS_CardinalityType
<1>4. IsFiniteSet(Victims) /\ Cardinality(Victims) <= Cardinality(E)
  BY <1>1, <1>3, FS_Surjection
<1>5. Cardinality(Victims) \in Nat
  BY <1>4, FS_CardinalityType
<1> QED
  BY <1>3, <1>4, <1>5, Sizes

\* The table holds at most one registration per caller, less one, beyond
\* max_in_memory_runs: ensure_capacity and create_slot are two lock sections, and a
\* finished run that is evicted by one caller is not evicted by another.
THEOREM TableBounded == Spec => []Bounded
<1>1. CountInv => Bounded
  <2> SUFFICES ASSUME CountInv, down.pc = "up"
               PROVE  Cardinality(Registered) <= MaxRuns + Cardinality(Callers) - 1
    BY DEF Bounded
  <2>1. Registered \subseteq (Registered \ Victims) \cup Victims
    OBVIOUS
  <2>2. Cardinality((Registered \ Victims) \cup Victims) =
          Cardinality(Registered \ Victims) + Cardinality(Victims) - Cardinality((Registered \ Victims) \cap Victims)
        /\ IsFiniteSet((Registered \ Victims) \cup Victims)
    BY Sizes, VictimsPaid, FS_Union
  <2>3. (Registered \ Victims) \cap Victims = {}
    OBVIOUS
  <2>4. Cardinality((Registered \ Victims) \cap Victims) = 0
    BY <2>3, FS_EmptySet
  <2>5. Cardinality(Registered) <= Cardinality((Registered \ Victims) \cup Victims)
    BY <2>1, <2>2, FS_Subset
  <2>6. Cardinality(Victims) \in Nat
    BY VictimsPaid, FS_CardinalityType
  <2>7. Cardinality(Registered) <= Cardinality(Registered \ Victims) + Cardinality(Victims)
    BY <2>2, <2>4, <2>5, <2>6, Sizes
  <2> QED
    BY <2>6, <2>7, Sizes, VictimsPaid DEF CountInv, Counted
<1> QED
  BY <1>1, CountInit, CountNext, PTL DEF Spec

-----------------------------------------------------------------------------
(* What the channels have said of inline runs. *)

\* A channel is the run's own, or that of a subscriber who left a placeholder for it.
Belongs(ch, r) == ch = r \/ (ch \in Subs /\ sub[ch].pc = "on" /\ sub[ch].run = r)

\* Slots and finishers send on channels of their runs; only background runs have one.
Senders ==
  /\ \A r \in Live : Belongs(slots[r].chan, r)
  /\ \A r \in Runs : finisher[r] # None => r \notin Inline /\ Belongs(finisher[r], r)

\* Nobody has announced the end of an inline run that has no slot yet, and only the
\* finished ones have been announced at all.
Announced ==
  /\ \A r \in Inline : Waiting(r) => phase[r] \notin Terminal
  /\ \A r \in Registered \cap Inline : phase[slots[r].chan] \in Terminal => r \in Finished

ChanInv == HeldInv /\ (down.pc = "up" => Senders /\ Announced)

LEMMA Apart ==
  ASSUME NEW ch, NEW q \in Runs, NEW r \in Runs, Belongs(ch, q), Belongs(ch, r)
  PROVE  q = r
  BY NoneAssumption DEF Belongs

LEMMA ChanInit == Init => ChanInv
<1> SUFFICES ASSUME Init PROVE Senders /\ Announced
  BY HeldInit DEF ChanInv
<1>1. Live = {} /\ \A r \in Runs : finisher[r] = None /\ phase[r] = "Pending"
  BY DEF Init, Live, Chans
<1> QED
  BY <1>1, NoneAssumption DEF Senders, Announced, Registered, Terminal

\* Facts of a state.
LEMMA ChanFacts ==
  ASSUME ChanInv, down.pc = "up"
  PROVE  /\ HeldInv /\ Senders /\ Announced
         /\ slots \in [Runs -> Slot \cup {None}] /\ phase \in [Chans -> Phases]
         /\ finisher \in [Runs -> Chans \cup {None}] /\ caller \in [Callers -> CallerType]
         /\ called \in [Runs -> {"no", "yes", "refused"}] /\ sub \in [Subs -> SubType]
         /\ \A r \in Live : slots[r] \in Slot /\ slots[r].chan \in Chans
         /\ Inline \subseteq Runs
<1>1. slots \in [Runs -> Slot \cup {None}] /\ phase \in [Chans -> Phases]
      /\ finisher \in [Runs -> Chans \cup {None}] /\ caller \in [Callers -> CallerType]
      /\ called \in [Runs -> {"no", "yes", "refused"}] /\ sub \in [Subs -> SubType]
  BY DEF ChanInv, HeldInv, TableInv, Stop, EvictInv, Typed, Rest
<1>2. \A r \in Live : slots[r] \in Slot /\ slots[r].chan \in Chans
  BY <1>1 DEF Live, Slot
<1> QED
  BY <1>1, <1>2, NoneAssumption DEF ChanInv

\* Slots stay as they are, except for their abort handles, or go; nothing is announced.
LEMMA QuietStep ==
  ASSUME ChanInv, down.pc = "up",
         \A r \in Runs : slots'[r] # None =>
           /\ slots[r] # None /\ slots'[r].chan = slots[r].chan
           /\ slots'[r].finished = slots[r].finished /\ slots'[r].known = slots[r].known,
         \A r \in Runs : finisher'[r] # None => finisher'[r] = finisher[r],
         \A ch \in Chans : phase'[ch] \in Terminal => phase[ch] \in Terminal,
         \A r \in Runs : Waiting(r)' => Waiting(r),
         \A s \in Subs : sub[s].pc = "on" => sub'[s] = sub[s]
  PROVE  Senders' /\ Announced'
<1>1. /\ Senders /\ Announced /\ \A r \in Live : slots[r].chan \in Chans
      /\ Inline \subseteq Runs
  BY ChanFacts
<1>2. \A ch, r : Belongs(ch, r) => Belongs(ch, r)'
  BY DEF Belongs
<1>3. \A r \in Live' : r \in Live /\ slots'[r].chan = slots[r].chan
                        /\ (r \in Registered' => r \in Registered) /\ (r \in Finished => r \in Finished')
  BY DEF Live, Registered, Finished
<1>4. Senders'
  BY <1>1, <1>2, <1>3 DEF Senders
<1>5. \A r \in Inline : Waiting(r)' => phase'[r] \notin Terminal
  BY <1>1 DEF Announced, Chans
<1>6. \A r \in Registered' \cap Inline : phase'[slots'[r].chan] \in Terminal => r \in Finished'
  <2> SUFFICES ASSUME NEW r \in Registered', r \in Inline, phase'[slots'[r].chan] \in Terminal
               PROVE  r \in Finished'
    OBVIOUS
  <2>1. r \in Live' /\ r \in Registered /\ slots'[r].chan = slots[r].chan /\ slots[r].chan \in Chans
    BY <1>1, <1>3 DEF Registered
  <2>2. phase[slots[r].chan] \in Terminal
    BY <2>1
  <2> QED
    BY <1>1, <1>3, <2>1, <2>2 DEF Announced
<1> QED
  BY <1>4, <1>5, <1>6 DEF Announced

LEMMA CreateSlotChan ==
  ASSUME ChanInv, down.pc = "up", NEW c \in Callers, CreateSlot(c)
  PROVE  Senders' /\ Announced'
<1>0. ChanInv /\ HeldInv /\ down.pc = "up"
  BY DEF ChanInv
<1>1. PICK r \in Runs : r = caller[c].run
  BY <1>0, HeldFacts DEF CreateSlot
<1>2. Waiting(r)
  BY <1>1 DEF Waiting, CreateSlot
<1>3. \A q \in Runs : Waiting(q)' => Waiting(q)
  <2>1. UNCHANGED called /\ \A d \in Callers : caller'[d].run = caller[d].run
                           /\ (caller'[d].pc \in {"scan", "evict", "create"} => caller'[d] = caller[d])
    BY <1>0, ChanFacts DEF CreateSlot, Goto, CallerType, runVars
  <2> QED
    BY <2>1 DEF Waiting
<1>4. \A ch, q : Belongs(ch, q)' <=> Belongs(ch, q)
  BY DEF CreateSlot, Belongs
<1>5. UNCHANGED finisher /\ \A q \in Runs \ {r} : slots'[q] = slots[q]
  BY <1>0, <1>1, ChanFacts DEF CreateSlot, runVars
<1>6. "Pending" \notin Terminal
  BY DEF Terminal
<1>7. \A ch \in Chans : phase'[ch] \in Terminal => phase[ch] \in Terminal
  BY <1>0, <1>6, ChanFacts DEF CreateSlot
<1>8. /\ slots'[r] # None => Belongs(slots'[r].chan, r) /\ slots'[r].chan \in Chans
      /\ slots'[r] # None /\ r \in Inline => phase'[slots'[r].chan] \notin Terminal
  <2>1. CASE slots[r] # None
    <3>1. /\ slots'[r] = [slots[r] EXCEPT !.known = TRUE] /\ slots[r] \in Slot
          /\ phase' = [phase EXCEPT ![slots[r].chan] = "Pending"]
      BY <1>0, <1>1, <2>1, ChanFacts DEF CreateSlot, Live
    <3>2. slots'[r].chan = slots[r].chan /\ slots[r].chan \in Chans
      BY <3>1 DEF Slot
    <3>3. Belongs(slots[r].chan, r)
      BY <1>0, <2>1, ChanFacts DEF Senders, Live
    <3>4. phase'[slots'[r].chan] = "Pending"
      BY <1>0, <3>1, <3>2, ChanFacts
    <3> QED
      BY <1>6, <3>2, <3>3, <3>4
  <2>2. CASE slots[r] = None
    <3>1. slots'[r].chan = r /\ UNCHANGED phase
      BY <1>0, <1>1, <2>2, ChanFacts DEF CreateSlot
    <3> QED
      BY <1>0, <1>2, <3>1, ChanFacts DEF Belongs, Announced, Chans
  <2> QED
    BY <2>1, <2>2
<1>9. Senders'
  BY <1>0, <1>4, <1>5, <1>8, ChanFacts DEF Senders, Live
<1>10. \A q \in Inline : Waiting(q)' => phase'[q] \notin Terminal
  BY <1>0, <1>3, <1>7, ChanFacts DEF Announced, Chans
<1>11. ASSUME NEW q \in Registered', q \in Inline, phase'[slots'[q].chan] \in Terminal
       PROVE  q \in Finished'
  <2>1. q # r /\ q \in Runs /\ slots'[q] = slots[q] /\ q \in Registered
    BY <1>5, <1>8, <1>11 DEF Registered, Live
  <2>2. phase[slots[q].chan] \in Terminal
    BY <1>0, <1>7, <1>11, <2>1, ChanFacts DEF Registered
  <2>3. q \in Finished
    BY <1>0, <1>11, <2>1, <2>2, ChanFacts DEF Announced
  <2> QED
    BY <2>1, <2>3 DEF Finished, Live
<1> QED
  BY <1>9, <1>10, <1>11 DEF Announced

\* A terminal phase goes to a channel of run r, which is in the background or finished now.
LEMMA AnnounceStep ==
  ASSUME ChanInv, down.pc = "up", NEW r \in Runs, NEW ch \in Chans, Belongs(ch, r),
         \A x \in Chans \ {ch} : phase'[x] = phase[x],
         UNCHANGED sub, \A q \in Runs : finisher'[q] # None => finisher'[q] = finisher[q],
         \A q \in Runs \ {r} : slots'[q] = slots[q],
         slots'[r] # None => slots[r] # None /\ slots'[r].chan = slots[r].chan,
         r \in Inline => r \in Finished' /\ ~ Waiting(r)',
         \A q \in Runs : Waiting(q)' => Waiting(q)
  PROVE  Senders' /\ Announced'
<1>0. ChanInv /\ HeldInv /\ down.pc = "up"
  BY DEF ChanInv
<1>1. \A x, q : Belongs(x, q)' <=> Belongs(x, q)
  BY DEF Belongs
<1>2. Senders'
  BY <1>0, <1>1, ChanFacts DEF Senders, Live
<1>3. \A q \in Inline : Waiting(q)' => phase'[q] \notin Terminal
  <2> SUFFICES ASSUME NEW q \in Inline, Waiting(q)' PROVE phase'[q] \notin Terminal
    OBVIOUS
  <2>1. q \in Runs /\ q # r /\ q \in Chans /\ Belongs(q, q)
    BY <1>0, ChanFacts DEF Chans, Belongs
  <2>2. q # ch
    BY <2>1, Apart
  <2> QED
    BY <1>0, <2>1, <2>2, ChanFacts DEF Announced
<1>4. ASSUME NEW q \in Registered', q \in Inline, phase'[slots'[q].chan] \in Terminal
      PROVE  q \in Finished'
  <2>1. CASE q = r
    BY <1>4, <2>1
  <2>2. CASE q # r
    <3>1. q \in Runs /\ slots'[q] = slots[q] /\ q \in Registered /\ q \in Live
      BY <1>4, <2>2 DEF Registered, Live
    <3>2. Belongs(slots[q].chan, q) /\ slots[q].chan \in Chans
      BY <1>0, <3>1, ChanFacts DEF Senders
    <3>3. slots[q].chan # ch
      BY <2>2, <3>1, <3>2, Apart
    <3>4. phase[slots[q].chan] \in Terminal
      BY <1>4, <3>1, <3>2, <3>3
    <3>5. q \in Finished
      BY <1>0, <1>4, <3>1, <3>4, ChanFacts DEF Announced
    <3> QED
      BY <3>1, <3>5 DEF Finished, Live
  <2> QED
    BY <2>1, <2>2
<1> QED
  BY <1>2, <1>3, <1>4 DEF Announced

LEMMA CallerWaits ==
  ASSUME HeldInv, down.pc = "up", NEW c \in Callers, CallerStep(c), NEW r \in Runs, Waiting(r)'
  PROVE  Waiting(r)
<1>1. HeldInv /\ down.pc = "up" /\ called \in [Runs -> {"no", "yes", "refused"}] /\ caller \in [Callers -> CallerType]
  BY HeldFacts DEF HeldInv, TableInv, Stop, EvictInv, Typed
<1>2. called'[r] = "no" => called[r] = "no"
  BY <1>1 DEF CallerStep, Scan, Refuse, Evict, CreateSlot, PushOrder, RunInline, FinishSlot, Spawn, StoreHandle,
       SpawnFinisher, runVars
<1>3. /\ \A d \in Callers \ {c} : caller'[d] = caller[d]
      /\ \/ caller'[c].pc \in {"evict", "create"} /\ caller'[c].run = caller[c].run
            /\ caller[c].pc \in {"scan", "evict"}
         \/ caller'[c].pc \notin {"scan", "evict", "create"}
  BY <1>1 DEF CallerStep, Scan, Refuse, Evict, CreateSlot, PushOrder, RunInline, FinishSlot, Spawn, StoreHandle,
       SpawnFinisher, Goto, Free, CallerType
<1> QED
  BY <1>2, <1>3 DEF Waiting

LEMMA CallerChan ==
  ASSUME ChanInv, down.pc = "up", NEW c \in Callers, CallerStep(c)
  PROVE  Senders' /\ Announced'
<1>0. ChanInv /\ HeldInv /\ down.pc = "up" /\ \A r \in Runs : Waiting(r)' => Waiting(r)
  BY CallerWaits DEF ChanInv
<1>1. CASE Scan(c) \/ Refuse(c) \/ PushOrder(c) \/ Spawn(c)
  BY <1>0, <1>1, QuietStep DEF Scan, Refuse, PushOrder, Spawn, runVars
<1>2. CASE Evict(c)
  <2>1. \A r \in Runs : slots'[r] # None => slots'[r] = slots[r]
    BY <1>0, <1>2, ChanFacts DEF Evict
  <2> QED
    BY <1>0, <1>2, <2>1, QuietStep DEF Evict, runVars
<1>3. CASE RunInline(c)
  <2>1. \A ch \in Chans : phase'[ch] \in Terminal => phase[ch] \in Terminal
    BY <1>0, <1>3, ChanFacts DEF RunInline, Publish, Terminal
  <2> QED
    BY <1>0, <1>3, <2>1, QuietStep DEF RunInline
<1>4. caller[c].pc \in Beyond => /\ caller[c].run \in Runs /\ caller[c].run \in Registered
                                 /\ slots[caller[c].run] # None /\ slots[caller[c].run] \in Slot
                                 /\ \A d \in Callers : caller[d].run = caller[c].run => d = c
                                 /\ called[caller[c].run] # "no"
  <2>1. caller[c].pc \in Beyond => called[caller[c].run] # "no"
    BY DEF ChanInv, HeldInv, TableInv, Stop, EvictInv, Own, Beyond
  <2> QED
    BY <1>0, <2>1, HeldFacts DEF Seated, Registered, Live, Beyond
<1>5. CASE StoreHandle(c)
  <2>1. \A r \in Runs : slots'[r] # None =>
           /\ slots[r] # None /\ slots'[r].chan = slots[r].chan
           /\ slots'[r].finished = slots[r].finished /\ slots'[r].known = slots[r].known
    BY <1>0, <1>4, <1>5, ChanFacts DEF StoreHandle, Beyond, Slot
  <2> QED
    BY <1>0, <1>5, <2>1, QuietStep DEF StoreHandle, runVars
<1>6. CASE SpawnFinisher(c)
  <2>1. PICK r \in Runs : r = caller[c].run
    BY <1>4, <1>6 DEF SpawnFinisher, Beyond
  <2>2. r \notin Inline /\ r \in Live
    BY <1>4, <1>6, <2>1 DEF SpawnFinisher, ChanInv, HeldInv, TableInv, Stop, StopInv, Shape, Beyond, Registered
  <2>3. /\ UNCHANGED <<slots, phase, sub>>
        /\ finisher' = [finisher EXCEPT ![r] = slots[r].chan]
    BY <1>6, <2>1, <2>2 DEF SpawnFinisher, Live
  <2>4. Live' = Live /\ Registered' = Registered /\ Finished' = Finished
    BY <2>3 DEF Live, Registered, Finished
  <2>5. \A ch, q : Belongs(ch, q)' <=> Belongs(ch, q)
    BY <2>3 DEF Belongs
  <2>6. Senders'
    BY <1>0, <2>2, <2>3, <2>4, <2>5, ChanFacts DEF Senders
  <2>7. Announced'
    BY <1>0, <2>3, <2>4, ChanFacts DEF Announced
  <2> QED
    BY <2>6, <2>7
<1>7. CASE FinishSlot(c)
  <2>1. PICK r \in Runs : r = caller[c].run
    BY <1>4, <1>7 DEF FinishSlot, Beyond
  <2>2. /\ slots[r] # None /\ slots[r] \in Slot /\ r \in Registered /\ slots[r].chan \in Chans
        /\ caller[c].pc = "inline" /\ caller' = [caller EXCEPT ![c] = Free]
        /\ slots' = [slots EXCEPT ![r] = [slots[r] EXCEPT !.finished = TRUE]]
        /\ phase' = [phase EXCEPT ![slots[r].chan] = work[r]]
        /\ UNCHANGED <<called, finisher, sub>>
    BY <1>4, <1>7, <2>1 DEF FinishSlot, Beyond, Publish, runVars, Slot
  <2>3. slots'[r] = [slots[r] EXCEPT !.finished = TRUE] /\ \A q \in Runs \ {r} : slots'[q] = slots[q]
    BY <1>0, <2>2, ChanFacts
  <2>4. slots'[r] # None /\ slots'[r].chan = slots[r].chan /\ slots'[r].finished = TRUE
    <3>1. slots'[r] # None
      BY <2>2, <2>3, SlotKept
    <3> QED
      BY <2>2, <2>3, <3>1 DEF Slot
  <2>5. r \in Finished'
    BY <2>4 DEF Finished, Live
  <2>6. ~ Waiting(r)'
    <3>1. called[r] # "no" /\ \A d \in Callers : caller[d].run = r => d = c
      BY <1>4, <2>1, <2>2 DEF Beyond
    <3>2. caller'[c].pc = "free" /\ \A d \in Callers \ {c} : caller'[d] = caller[d]
      BY <1>0, <2>2, ChanFacts DEF Free
    <3> QED
      BY <2>2, <3>1, <3>2 DEF Waiting
  <2>7. Belongs(slots[r].chan, r)
    BY <1>0, <2>2, ChanFacts DEF Senders, Registered
  <2>8. \A x \in Chans \ {slots[r].chan} : phase'[x] = phase[x]
    BY <1>0, <2>2, ChanFacts
  <2> QED
    BY <1>0, <2>2, <2>3, <2>4, <2>5, <2>6, <2>7, <2>8, AnnounceStep
<1> QED
  BY <1>0, <1>1, <1>2, <1>3, <1>5, <1>6, <1>7, CreateSlotChan DEF CallerStep

LEMMA PlaceholderChan ==
  ASSUME ChanInv, down.pc = "up", NEW s \in Subs, Placeholder(s)
  PROVE  Senders' /\ Announced'
<1>0. ChanInv /\ HeldInv /\ down.pc = "up"
  BY DEF ChanInv
<1>1. /\ UNCHANGED <<caller, called, finisher, phase>> /\ sub[s].pc = "missed"
      /\ \A t \in Subs \ {s} : sub'[t] = sub[t]
  BY <1>0, ChanFacts DEF Placeholder, runVars
<1>2. \A q : Waiting(q)' <=> Waiting(q)
  BY <1>1 DEF Waiting
<1>3. CASE UNCHANGED <<slots, order>>
  BY <1>0, <1>1, <1>2, <1>3, QuietStep
<1>4. CASE ~ UNCHANGED <<slots, order>>
  <2>1. PICK r \in Runs : r = sub[s].run
    BY DEF Placeholder, ChanInv, HeldInv, TableInv, Rest
  <2>2. /\ slots[r] = None
        /\ slots' = [slots EXCEPT ![r] =
             [chan |-> s, finished |-> FALSE, handle |-> FALSE, known |-> FALSE]]
        /\ sub' = [sub EXCEPT ![s].pc = "on", ![s].chan = s]
    BY <1>4, <2>1 DEF Placeholder
  <2>3. slots'[r] = [chan |-> s, finished |-> FALSE, handle |-> FALSE, known |-> FALSE]
        /\ \A q \in Runs \ {r} : slots'[q] = slots[q]
    BY <1>0, <2>2, ChanFacts
  <2>4. sub'[s].pc = "on" /\ sub'[s].run = r
    BY <1>0, <2>1, <2>2, ChanFacts DEF SubType
  <2>5. Belongs(s, r)' /\ \A ch, q : Belongs(ch, q) => Belongs(ch, q)'
    BY <1>1, <2>4 DEF Belongs
  <2>6. slots'[r].chan = s /\ slots'[r].known = FALSE
    BY <2>3
  <2>7. Senders'
    BY <1>0, <1>1, <2>3, <2>5, <2>6, ChanFacts DEF Senders, Live
  <2>8. \A q \in Registered' : q \in Registered /\ slots'[q] = slots[q]
    BY <2>3, <2>6 DEF Registered, Live
  <2>9. \A q \in Registered' : q \in Finished => q \in Finished'
    BY <2>8 DEF Registered, Finished, Live
  <2>10. Announced'
    BY <1>0, <1>1, <1>2, <2>8, <2>9, ChanFacts DEF Announced
  <2> QED
    BY <2>7, <2>10
<1> QED
  BY <1>3, <1>4

LEMMA RunChan ==
  ASSUME ChanInv, down.pc = "up", NEW r \in Runs, RunStep(r)
  PROVE  Senders' /\ Announced'
<1>0. ChanInv /\ HeldInv /\ down.pc = "up"
  BY DEF ChanInv
<1>1. UNCHANGED <<caller, called, slots, sub>>
  BY DEF RunStep, StartedRow, DropTask, Finisher, WorkEnds
<1>2. \A q : Waiting(q)' <=> Waiting(q)
  BY <1>1 DEF Waiting
<1>3. CASE Finisher(r)
  <2>1. PICK ch \in Chans : ch = finisher[r]
    BY <1>0, <1>3, ChanFacts DEF Finisher
  <2>2. r \notin Inline /\ Belongs(ch, r)
    BY <1>0, <1>3, <2>1, ChanFacts DEF Finisher, Senders
  <2>3. \A x \in Chans \ {ch} : phase'[x] = phase[x]
    BY <1>0, <1>3, <2>1, ChanFacts DEF Finisher, Publish
  <2>4. \A q \in Runs : finisher'[q] # None => finisher'[q] = finisher[q]
    BY <1>0, <1>3, ChanFacts DEF Finisher
  <2> QED
    BY <1>0, <1>1, <1>2, <2>2, <2>3, <2>4, AnnounceStep
<1>4. CASE ~ Finisher(r)
  <2>1. UNCHANGED <<finisher, phase>>
    BY <1>4 DEF RunStep, StartedRow, DropTask, WorkEnds
  <2> QED
    BY <1>0, <1>1, <1>2, <2>1, QuietStep
<1> QED
  BY <1>3, <1>4

LEMMA ChanNext == ChanInv /\ [Next]_vars => ChanInv'
<1> SUFFICES ASSUME ChanInv, [Next]_vars, down'.pc = "up" PROVE Senders' /\ Announced'
  BY HeldNext DEF ChanInv
<1>1. HeldInv /\ down.pc = "up" /\ ~ ShutdownList /\ ~ ShutdownStep
  BY StaysUp DEF ChanInv
<1>2. ASSUME UNCHANGED <<caller, called>> PROVE \A q : Waiting(q)' <=> Waiting(q)
  BY <1>2 DEF Waiting
<1>3. ASSUME NEW c \in Callers, NEW r \in Runs, CheckCapacity(c, r) PROVE Senders' /\ Announced'
  <2>1. \A q \in Runs : Waiting(q)' => Waiting(q)
    BY <1>1, <1>3, ChanFacts DEF CheckCapacity, Waiting
  <2> QED
    BY <1>1, <1>3, <2>1, QuietStep DEF CheckCapacity
<1>4. ASSUME NEW s \in Subs, NEW r \in Asked, Subscribe(s, r) PROVE Senders' /\ Announced'
  <2>1. \A t \in Subs : sub[t].pc = "on" => sub'[t] = sub[t]
    BY <1>1, <1>4, ChanFacts DEF Subscribe
  <2> QED
    BY <1>1, <1>2, <1>4, <2>1, QuietStep DEF Subscribe, runVars
<1>5. CASE RetentionRemove
  BY <1>1, <1>2, <1>5, QuietStep DEF RetentionRemove, runVars
<1>6. CASE RetentionList \/ RetentionPrune \/ UNCHANGED vars
  BY <1>1, <1>2, <1>6, QuietStep DEF RetentionList, RetentionPrune, runVars, vars
<1> QED
  BY <1>1, <1>3, <1>4, <1>5, <1>6, CallerChan, RunChan, PlaceholderChan DEF Next

\* Until shutdown is called, ensure_capacity refuses a call only while a lock section that
\* writes the table is due in another thread, or when no registered inline run has had
\* its end published: no finished run is ever missing from eviction_order, however
\* evictions, retention and placeholders interleave.
THEOREM RefusalsJustified == Spec => RefusedOnlyWhenBusy
<1> DEFINE Step == \A c \in Callers : down.pc = "up" /\ caller[c].pc = "scan" /\ caller'[c].pc = "free" =>
              \/ WriterAbout
              \/ \A r \in Registered \cap Inline :
                   ~ (work[r] \in Over /\ phase[slots[r].chan] \in Terminal)
<1>1. ASSUME ChanInv, [Next]_vars PROVE Step
  <2> SUFFICES ASSUME NEW c \in Callers, down.pc = "up", caller[c].pc = "scan", caller'[c].pc = "free",
                      ~ WriterAbout
               PROVE  \A r \in Registered \cap Inline :
                        ~ (work[r] \in Over /\ phase[slots[r].chan] \in Terminal)
    OBVIOUS
  <2> SUFFICES ASSUME NEW r \in Registered \cap Inline, phase[slots[r].chan] \in Terminal
               PROVE  FALSE
    OBVIOUS
  <2>0. ChanInv /\ HeldInv /\ down.pc = "up"
    BY <1>1 DEF ChanInv
  <2>1. Refuse(c)
    <3>1. \A d \in Callers : CallerStep(d) /\ d # c => caller'[c] = caller[c]
      BY <2>0, ChanFacts DEF CallerStep, Scan, Refuse, Evict, CreateSlot, PushOrder, RunInline, FinishSlot, Spawn,
           StoreHandle, SpawnFinisher, Goto
    <3>2. \A d \in Callers, q \in Runs : CheckCapacity(d, q) => caller'[c].pc # "free" \/ caller'[c] = caller[c]
      BY <2>0, ChanFacts DEF CheckCapacity
    <3>3. CallerStep(c) => Refuse(c)
      BY <2>0, ChanFacts DEF CallerStep, Scan, Evict, CreateSlot, PushOrder, RunInline, FinishSlot, Spawn,
           StoreHandle, SpawnFinisher, CallerType
    <3>4. caller'[c] # caller[c]
      OBVIOUS
    <3>5. (\E d \in Callers, q \in Runs : CheckCapacity(d, q)) \/ (\E d \in Callers : CallerStep(d))
      BY <1>1, <3>4 DEF Next, RunStep, StartedRow, DropTask, Finisher, WorkEnds, Placeholder, Subscribe,
           ShutdownList, ShutdownStep, AbortTask, AbortRow, AbortFinish, ShutdownClear, RetentionList,
           RetentionRemove, RetentionPrune, vars
    <3> QED
      BY <3>1, <3>2, <3>3, <3>4, <3>5
  <2>2. r \in Finished
    BY <2>0, ChanFacts DEF Announced
  <2>3. ~ InOrder(r)
    BY <2>1, <2>2 DEF Refuse, Evictable, InOrder
  <2>4. \A d \in Callers : caller[d].run # r
    BY <2>0, <2>2, HeldFacts DEF Retired
  <2>5. \A d \in Callers : ~ Evicting(d, r)
    BY DEF WriterAbout, Evicting
  <2> QED
    BY <2>0, <2>3, <2>4, <2>5, HeldFacts DEF Listed, Registered
<1>2. Spec => []ChanInv
  BY ChanInit, ChanNext, PTL DEF Spec
<1>3. Spec => [][Step]_vars
  BY <1>1, <1>2, PTL DEF Spec
<1> QED
  BY <1>3 DEF RefusedOnlyWhenBusy
=============================================================================
