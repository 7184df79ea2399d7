---------------------------- MODULE RunRegistry ----------------------------
(***************************************************************************)
(* DefaultPipelineRunRegistry (crates/core/src/pipeline_run_registry): the *)
(* in-process table of pipeline runs, with one event channel per slot, the *)
(* capacity check and eviction of finished slots, the retention task, the  *)
(* subscribers, and the shutdown that aborts what is still running.        *)
(*                                                                         *)
(* Every lock section is one action; what another thread may do between    *)
(* two sections of one function happens between two actions.  A run id is  *)
(* registered once (RunSpec::run_id = None, or an id a client made up and  *)
(* may have subscribed to beforehand).                                     *)
(***************************************************************************)
EXTENDS Integers, Sequences, FiniteSets

CONSTANTS
  Runs,      \* run ids
  Inline,    \* the runs a caller awaits; the others go to the background
  Asked,     \* the runs clients subscribe to
  Callers,   \* threads that register runs, each one run after the other
  Subs,      \* subscribers to event streams
  MaxRuns,   \* RegistryConfig::max_in_memory_runs
  Results,   \* what work futures return
  Flaky,     \* runs whose pipeline_runs writes may fail
  None

ASSUME MaxRunsAssumption == MaxRuns \in Nat \ {0}
ASSUME NoneAssumption ==
  /\ None \notin Runs \cup Callers \cup Subs
  /\ Runs \cap Subs = {}
  /\ Flaky \cup Inline \cup Asked \subseteq Runs
ASSUME ResultsAssumption == Results \in (SUBSET {"Completed", "Errored"}) \ {{}}
ASSUME FiniteAssumption == IsFiniteSet(Runs) /\ IsFiniteSet(Callers)

VARIABLES
  slots,     \* runs: RwLock<HashMap<Uuid, RunSlot>>
  order,     \* eviction_order
  caller,    \* where each thread is inside register_inline / register_background
  called,    \* register_* was called for the run: "no", "yes" or "refused"
  work,      \* progress of the work future, then what it returned
  aborted,   \* AbortHandle::abort was called on the spawned task
  finisher,  \* the senders the finisher task of a background run captured
  row,       \* status of the run's latest pipeline_runs row
  phase,     \* what phase_tx and event_tx sent last, per channel
  sub,       \* subscribers
  down,      \* shutdown()
  retention  \* run_retention()

vars == <<slots, order, caller, called, work, aborted, finisher, row, phase, sub, down, retention>>
runVars == <<called, work, aborted, finisher, row>>

\* A slot's channels are named after who created the slot: create_slot for the
\* run itself, or the subscriber that left a placeholder.
Chans == Runs \cup Subs
Terminal == {"Completed", "Errored"}
Phases == {"Pending", "Running"} \cup Terminal

Slot == [chan: Chans, finished: BOOLEAN, handle: BOOLEAN, known: BOOLEAN]

ASSUME SlotAssumption == None \notin Slot

Live == {r \in Runs : slots[r] # None}
Registered == {r \in Live : slots[r].known}
Finished == {r \in Live : slots[r].finished}

TypeOK ==
  /\ slots \in [Runs -> Slot \cup {None}]
  /\ order \in Seq(Runs)
  /\ caller \in [Callers -> [pc: {"free", "scan", "evict", "create",
                                  "order", "run", "inline", "handle", "finisher"},
                             run: Runs \cup {None}, victim: Runs \cup {None}]]
  /\ called \in [Runs -> {"no", "yes", "refused"}]
  /\ work \in [Runs -> {"none", "start", "work", "mute", "dropped"} \cup Terminal]
  /\ aborted \in [Runs -> BOOLEAN]
  /\ finisher \in [Runs -> Chans \cup {None}]
  /\ row \in [Runs -> {None, "Started"} \cup Terminal]
  /\ phase \in [Chans -> Phases]
  /\ sub \in [Subs -> [pc: {"idle", "missed", "on", "closed"},
                       run: Runs \cup {None}, chan: Chans \cup {None}]]
  /\ down \in [pc: {"up", "next", "row", "finish", "down"}, todo: SUBSET Runs,
               run: Runs \cup {None}, chan: Chans \cup {None},
               inFlight: SUBSET Runs, begun: SUBSET Runs]
  /\ retention \in [pc: {"idle", "remove", "prune"}, ids: SUBSET Runs]

Init ==
  /\ slots = [r \in Runs |-> None]
  /\ order = <<>>
  /\ caller = [c \in Callers |-> [pc |-> "free", run |-> None, victim |-> None]]
  /\ called = [r \in Runs |-> "no"]
  /\ work = [r \in Runs |-> "none"]
  /\ aborted = [r \in Runs |-> FALSE]
  /\ finisher = [r \in Runs |-> None]
  /\ row = [r \in Runs |-> None]
  /\ phase = [ch \in Chans |-> "Pending"]
  /\ sub = [s \in Subs |-> [pc |-> "idle", run |-> None, chan |-> None]]
  /\ down = [pc |-> "up", todo |-> {}, run |-> None, chan |-> None, inFlight |-> {}, begun |-> {}]
  /\ retention = [pc |-> "idle", ids |-> {}]

(***************************************************************************)
(* Helpers                                                                 *)
(***************************************************************************)

\* The next lock section of another thread takes the write lock of the table, so a
\* try_read may find it taken: the removal of an evicted slot, create_slot and the
\* abort handle of register_*, finish_slot after inline work, the placeholder of
\* subscribe, finished_at in abort and the clear of shutdown, and retention.
WriterAbout ==
  \/ \E d \in Callers :
       \/ caller[d].pc \in {"evict", "create", "handle"}
       \/ caller[d].pc = "inline" /\ work[caller[d].run] \in Terminal
  \/ \E s \in Subs : sub[s].pc = "missed"
  \/ down.pc = "finish" \/ (down.pc = "next" /\ down.todo = {})
  \/ retention.pc = "remove"

\* Best-effort log_pipeline_run_entry: a failure is logged and forgotten.
LogRow(r, status) ==
  \E written \in IF r \in Flaky THEN BOOLEAN ELSE {TRUE} :
    row' = IF written THEN [row EXCEPT ![r] = status] ELSE row

\* phase_tx.send and event_tx.send.
Publish(ch, p) == phase' = [phase EXCEPT ![ch] = p]

Over == {"dropped"} \cup Terminal

Goto(c, pc) == caller' = [caller EXCEPT ![c].pc = pc]

Free == [pc |-> "free", run |-> None, victim |-> None]

(***************************************************************************)
(* register_inline and register_background                                 *)
(***************************************************************************)

\* Mutant: one more than max_in_memory_runs.
CheckCapacityLoose(c, r) ==
  /\ caller[c].pc = "free" /\ called[r] = "no" /\ down.pc # "down"
  /\ called' = [called EXCEPT ![r] = "yes"]
  /\ caller' = [caller EXCEPT ![c] =
       [pc |-> IF Cardinality(Live) <= MaxRuns THEN "create" ELSE "scan",
        run |-> r, victim |-> None]]
  /\ UNCHANGED <<slots, order, work, aborted, finisher, row, phase, sub, down, retention>>

\* register_* up to ensure_capacity's first lock section, which reads the length
\* of the table.  Nobody registers after shutdown returned (trait_def.rs).
CheckCapacity(c, r) ==
  /\ caller[c].pc = "free" /\ called[r] = "no" /\ down.pc # "down"
  /\ called' = [called EXCEPT ![r] = "yes"]
  /\ caller' = [caller EXCEPT ![c] =
       [pc |-> IF Cardinality(Live) < MaxRuns THEN "create" ELSE "scan",
        run |-> r, victim |-> None]]
  /\ UNCHANGED <<slots, order, work, aborted, finisher, row, phase, sub, down, retention>>

Drop(i) == [j \in 1..(Len(order) - 1) |-> IF j < i THEN order[j] ELSE order[j + 1]]

\* Mutant: the oldest run, whether it is over or not.
EvictableAny(r) == r \in Live

Evictable(r) == r \in Finished

IsFirst(i) == /\ i \in DOMAIN order /\ Evictable(order[i])
              /\ \A j \in DOMAIN order : Evictable(order[j]) => i <= j

\* ... the oldest finished run is taken off eviction_order under the mutex ...
Scan(c) ==
  /\ caller[c].pc = "scan"
  /\ \E i \in DOMAIN order :
       /\ IsFirst(i)
       /\ order' = Drop(i)
       /\ caller' = [caller EXCEPT ![c].pc = "evict", ![c].victim = order[i]]
  /\ UNCHANGED <<slots, runVars, phase, sub, down, retention>>

\* ... or the call is refused: no finished run, or the try_read failed.
Refuse(c) ==
  /\ caller[c].pc = "scan"
  /\ WriterAbout \/ \A i \in DOMAIN order : ~Evictable(order[i])
  /\ called' = [called EXCEPT ![caller[c].run] = "refused"]
  /\ caller' = [caller EXCEPT ![c] = Free]
  /\ UNCHANGED <<slots, order, work, aborted, finisher, row, phase, sub, down, retention>>

\* ... and its slot goes under the write lock.
Evict(c) ==
  /\ caller[c].pc = "evict"
  /\ slots' = [slots EXCEPT ![caller[c].victim] = None]
  /\ caller' = [caller EXCEPT ![c].pc = "create", ![c].victim = None]
  /\ UNCHANGED <<order, runVars, phase, sub, down, retention>>

\* Mutant: the placeholder's channels are replaced.
CreateSlotAnew(c) ==
  LET r == caller[c].run IN
  /\ caller[c].pc = "create"
  /\ slots' = [slots EXCEPT ![r] =
       [chan |-> r, finished |-> FALSE, handle |-> FALSE, known |-> TRUE]]
  /\ Goto(c, "order")
  /\ UNCHANGED <<order, runVars, phase, sub, down, retention>>

\* create_slot: a placeholder keeps its senders, so its subscribers stay on.
CreateSlot(c) ==
  LET r == caller[c].run IN
  /\ caller[c].pc = "create"
  /\ \/ /\ slots[r] # None
        /\ slots' = [slots EXCEPT ![r].known = TRUE]
        /\ phase' = [phase EXCEPT ![slots[r].chan] = "Pending"]
        /\ Goto(c, "run")
     \/ /\ slots[r] = None
        /\ slots' = [slots EXCEPT ![r] =
             [chan |-> r, finished |-> FALSE, handle |-> FALSE, known |-> TRUE]]
        /\ Goto(c, "order")
        /\ UNCHANGED phase
  /\ UNCHANGED <<order, runVars, sub, down, retention>>

\* Mutant: the id does not join eviction_order.
PushNothing(c) ==
  /\ caller[c].pc = "order"
  /\ Goto(c, "run")
  /\ UNCHANGED <<slots, order, runVars, phase, sub, down, retention>>

\* The id joins eviction_order after the write lock is gone.
PushOrder(c) ==
  /\ caller[c].pc = "order"
  /\ order' = Append(order, caller[c].run)
  /\ Goto(c, "run")
  /\ UNCHANGED <<slots, runVars, phase, sub, down, retention>>

\* run_work_inline begins: Running and Started, if the slot is still there.
RunInline(c) ==
  LET r == caller[c].run IN
  /\ caller[c].pc = "run" /\ r \in Inline
  /\ work' = [work EXCEPT ![r] = "start"]
  /\ IF slots[r] # None THEN Publish(slots[r].chan, "Running") ELSE UNCHANGED phase
  /\ Goto(c, "inline")
  /\ UNCHANGED <<slots, order, called, aborted, finisher, row, sub, down,
                 retention>>

\* finish_slot, and register_inline returns.
FinishSlot(c) ==
  LET r == caller[c].run IN
  /\ caller[c].pc = "inline" /\ work[r] \in Terminal
  /\ IF slots[r] # None
     THEN /\ slots' = [slots EXCEPT ![r].finished = TRUE]
          /\ Publish(slots[r].chan, work[r])
     ELSE UNCHANGED <<slots, phase>>
  /\ caller' = [caller EXCEPT ![c] = Free]
  /\ UNCHANGED <<order, runVars, sub, down, retention>>

\* register_background spawns the task, ...
Spawn(c) ==
  LET r == caller[c].run IN
  /\ caller[c].pc = "run" /\ r \notin Inline
  /\ work' = [work EXCEPT ![r] = "start"]
  /\ Goto(c, "handle")
  /\ UNCHANGED <<slots, order, called, aborted, finisher, row, phase, sub,
                 down, retention>>

\* ... stores its abort handle in the slot ...
StoreHandle(c) ==
  LET r == caller[c].run IN
  /\ caller[c].pc = "handle"
  /\ slots' = IF slots[r] # None THEN [slots EXCEPT ![r].handle = TRUE] ELSE slots
  /\ Goto(c, "finisher")
  /\ UNCHANGED <<order, runVars, phase, sub, down, retention>>

\* ... and leaves a finisher with clones of the slot's senders.
SpawnFinisher(c) ==
  LET r == caller[c].run IN
  /\ caller[c].pc = "finisher"
  /\ finisher' = IF slots[r] # None THEN [finisher EXCEPT ![r] = slots[r].chan] ELSE finisher
  /\ caller' = [caller EXCEPT ![c] = Free]
  /\ UNCHANGED <<slots, order, called, work, aborted, row, phase, sub, down,
                 retention>>

(***************************************************************************)
(* The work: inline in its caller, or the spawned task.  A task that was   *)
(* aborted is dropped at one of its next await points.                     *)
(***************************************************************************)

\* The STARTED row; an inline run that finds no slot writes no rows at all.
StartedRow(r) ==
  /\ work[r] = "start"
  /\ \/ /\ r \notin Inline \/ slots[r] # None
        /\ LogRow(r, "Started")
        /\ work' = [work EXCEPT ![r] = "work"]
     \/ /\ r \in Inline /\ slots[r] = None
        /\ work' = [work EXCEPT ![r] = "mute"]
        /\ UNCHANGED row
  /\ UNCHANGED <<slots, order, caller, called, aborted, finisher, phase, sub, down, retention>>

\* The work future returns and the terminal row is written.
WorkEnds(r, res) ==
  /\ \/ work[r] = "work" /\ LogRow(r, res)
     \/ work[r] = "mute" /\ UNCHANGED row
  /\ work' = [work EXCEPT ![r] = res]
  /\ UNCHANGED <<slots, order, caller, called, aborted, finisher, phase, sub, down, retention>>

\* The statement the task was waiting for may have been executed all the same.
DropTask(r) ==
  /\ aborted[r] /\ work[r] \notin Over
  /\ work' = [work EXCEPT ![r] = "dropped"]
  /\ \/ UNCHANGED row
     \/ work[r] = "start" /\ LogRow(r, "Started")
     \/ work[r] = "work" /\ \E res \in Results : LogRow(r, res)
  /\ UNCHANGED <<slots, order, caller, called, aborted, finisher, phase, sub, down, retention>>

\* Mutant: the senders hear how the task ended, not how the run did.
FinisherRaw(r) ==
  /\ finisher[r] # None /\ work[r] \in Over
  /\ Publish(finisher[r], work[r])
  /\ finisher' = [finisher EXCEPT ![r] = None]
  /\ UNCHANGED <<slots, order, caller, called, work, aborted, row, sub, down, retention>>

\* The finisher awaits the join handle and publishes on its captured senders;
\* it does not reach the slot.
Finisher(r) ==
  /\ finisher[r] # None /\ work[r] \in Over
  /\ Publish(finisher[r], IF work[r] = "dropped" THEN "Errored" ELSE work[r])
  /\ finisher' = [finisher EXCEPT ![r] = None]
  /\ UNCHANGED <<slots, order, caller, called, work, aborted, row, sub, down, retention>>

(***************************************************************************)
(* subscribe                                                               *)
(***************************************************************************)

\* try_read: on the slot's channel, or no slot yet; a failed try_read gives an
\* empty stream.
Subscribe(s, r) ==
  /\ sub[s].pc = "idle"
  /\ \/ /\ slots[r] # None
        /\ sub' = [sub EXCEPT ![s] = [pc |-> "on", run |-> r, chan |-> slots[r].chan]]
     \/ /\ slots[r] = None
        /\ sub' = [sub EXCEPT ![s] = [pc |-> "missed", run |-> r, chan |-> None]]
     \/ /\ WriterAbout
        /\ sub' = [sub EXCEPT ![s] = [pc |-> "closed", run |-> r, chan |-> None]]
  /\ UNCHANGED <<slots, order, caller, runVars, phase, down, retention>>

\* try_write: the placeholder, unless a slot has appeared or anybody reads or
\* writes the table just now; the receiver's only sender is gone then.
Placeholder(s) ==
  LET r == sub[s].run IN
  /\ sub[s].pc = "missed"
  /\ \/ /\ slots[r] = None
        /\ slots' = [slots EXCEPT ![r] =
             [chan |-> s, finished |-> FALSE, handle |-> FALSE, known |-> FALSE]]
        /\ order' = Append(order, r)
        /\ sub' = [sub EXCEPT ![s].pc = "on", ![s].chan = s]
     \/ /\ sub' = [sub EXCEPT ![s].pc = "closed"]
        /\ UNCHANGED <<slots, order>>
  /\ UNCHANGED <<caller, runVars, phase, down, retention>>

(***************************************************************************)
(* shutdown, the only caller of abort                                      *)
(***************************************************************************)

\* Background runs whose register_background has returned.
InFlight == {r \in Runs : /\ r \notin Inline /\ work[r] # "none"
                          /\ \A c \in Callers : caller[c].run # r}

InTable == Live \ Finished

ShutdownList ==
  /\ down.pc = "up"
  /\ down' = [down EXCEPT !.pc = "next", !.todo = InTable, !.inFlight = InFlight,
                            !.begun = {r \in InFlight : row[r] # None}]
  /\ UNCHANGED <<slots, order, caller, runVars, phase, sub, retention>>

\* abort: the handle and the senders are taken, the task is told to stop; a run
\* that has no slot any more is an error that shutdown only logs.
AbortTask(r) ==
  /\ down.pc = "next" /\ r \in down.todo
  /\ IF slots[r] # None
     THEN /\ down' = [down EXCEPT !.pc = "row", !.run = r, !.todo = @ \ {r},
                                  !.chan = slots[r].chan]
          /\ aborted' = IF slots[r].handle THEN [aborted EXCEPT ![r] = TRUE] ELSE aborted
     ELSE /\ down' = [down EXCEPT !.todo = @ \ {r}]
          /\ UNCHANGED aborted
  /\ UNCHANGED <<slots, order, caller, called, work, finisher, row, phase, sub, retention>>

\* Mutant: the senders say Errored, the trail does not.
AbortNoRow ==
  /\ down.pc = "row"
  /\ Publish(down.chan, "Errored")
  /\ down' = [down EXCEPT !.pc = "finish", !.chan = None]
  /\ UNCHANGED <<slots, order, caller, called, work, aborted, finisher, row, sub, retention>>

\* abort_writes_errored_row, the default; then the senders say Errored.
AbortRow ==
  /\ down.pc = "row"
  /\ LogRow(down.run, "Errored")
  /\ Publish(down.chan, "Errored")
  /\ down' = [down EXCEPT !.pc = "finish", !.chan = None]
  /\ UNCHANGED <<slots, order, caller, called, work, aborted, finisher, sub, retention>>

AbortFinish ==
  /\ down.pc = "finish"
  /\ slots' = IF slots[down.run] # None
              THEN [slots EXCEPT ![down.run].finished = TRUE] ELSE slots
  /\ down' = [down EXCEPT !.pc = "next", !.run = None]
  /\ UNCHANGED <<order, caller, runVars, phase, sub, retention>>

\* runs.clear(); eviction_order keeps its entries.
ShutdownClear ==
  /\ down.pc = "next" /\ down.todo = {}
  /\ slots' = [r \in Runs |-> None]
  /\ down' = [down EXCEPT !.pc = "down"]
  /\ UNCHANGED <<order, caller, runVars, phase, sub, retention>>

(***************************************************************************)
(* run_retention: any finished run may be past its retention by now.  The  *)
(* ids are listed under the read lock and removed under the write lock;    *)
(* in between a caller may evict one of them and a subscriber may leave a  *)
(* placeholder in its place, which then goes as well.                      *)
(***************************************************************************)

RetentionList ==
  /\ retention.pc = "idle"
  /\ \E ids \in (SUBSET Finished) \ {{}} : retention' = [pc |-> "remove", ids |-> ids]
  /\ UNCHANGED <<slots, order, caller, runVars, phase, sub, down>>

RetentionRemove ==
  /\ retention.pc = "remove"
  /\ slots' = [r \in Runs |-> IF r \in retention.ids THEN None ELSE slots[r]]
  /\ retention' = [pc |-> "prune", ids |-> retention.ids]
  /\ UNCHANGED <<order, caller, runVars, phase, sub, down>>

Kept(r) == r \notin retention.ids

\* retain: at[j] is the position of what comes j-th among the entries that stay.
RetentionPrune ==
  /\ retention.pc = "prune"
  /\ \E n \in 0..Len(order) : \E at \in [1..n -> 1..Len(order)] :
       /\ \A j, k \in 1..n : j < k => at[j] < at[k]
       /\ {at[j] : j \in 1..n} = {i \in 1..Len(order) : Kept(order[i])}
       /\ order' = [j \in 1..n |-> order[at[j]]]
  /\ retention' = [pc |-> "idle", ids |-> {}]
  /\ UNCHANGED <<slots, caller, runVars, phase, sub, down>>

(***************************************************************************)
(* The specification                                                       *)
(***************************************************************************)

CallerStep(c) ==
  \/ Scan(c) \/ Refuse(c) \/ Evict(c) \/ CreateSlot(c) \/ PushOrder(c)
  \/ RunInline(c) \/ FinishSlot(c) \/ Spawn(c) \/ StoreHandle(c) \/ SpawnFinisher(c)

RunStep(r) ==
  \/ StartedRow(r) \/ DropTask(r) \/ Finisher(r)
  \/ \E res \in Results : WorkEnds(r, res)

ShutdownStep ==
  \/ \E r \in Runs : AbortTask(r)
  \/ AbortRow \/ AbortFinish \/ ShutdownClear

Next ==
  \/ \E c \in Callers, r \in Runs : CheckCapacity(c, r)
  \/ \E c \in Callers : CallerStep(c)
  \/ \E r \in Runs : RunStep(r)
  \/ \E s \in Subs : Placeholder(s) \/ \E r \in Asked : Subscribe(s, r)
  \/ ShutdownList \/ ShutdownStep
  \/ RetentionList \/ RetentionRemove \/ RetentionPrune

Spec == Init /\ [][Next]_vars

\* The runtime polls every task that can go on, work futures return, and a
\* shutdown that began goes on.  Nobody has to register, subscribe or shut down.
Fairness ==
  /\ \A c \in Callers : WF_vars(CallerStep(c))
  /\ \A r \in Runs : WF_vars(RunStep(r))
  /\ WF_vars(ShutdownStep)

FairSpec == Spec /\ Fairness
(***************************************************************************)
(* Properties                                                              *)
(***************************************************************************)

\* The table may outgrow max_in_memory_runs only by the registrations that passed
\* the capacity check together: ensure_capacity and create_slot are two lock
\* sections.  (Placeholders of subscribers are not counted and not limited; and
\* shutdown marks them finished, so afterwards one may be evicted for a run.)
Bounded == down.pc = "up" => Cardinality(Registered) <= MaxRuns + Cardinality(Callers) - 1

\* Capacity and retention drop a slot only when its run is over: the work has
\* returned, or shutdown has told it to stop.  Only shutdown clears the table of
\* runs that may still be going.
EvictsOnlyOver ==
  [][\A r \in Live : slots'[r] = None /\ down'.pc = down.pc =>
       work[r] \in Over \/ down.pc # "up"]_vars

\* When shutdown returns, every background run that had been handed to a client
\* before it was called is over or has been told to stop; and if its STARTED row
\* was written by then, a terminal row is the last one: the next start does not
\* find it in flight.  (A task that is told to stop while it writes STARTED may
\* still write it after the ERRORED row of the abort.)
ShutdownStops ==
  down.pc = "down" =>
    /\ \A r \in down.inFlight : aborted[r] \/ work[r] \in Terminal
    /\ \A r \in down.begun \ Flaky : row[r] \in Terminal

\* Somebody can still send on the channel.
Open(ch) ==
  \/ \E r \in Live : slots[r].chan = ch
  \/ \E r \in Runs : finisher[r] = ch
  \/ down.chan = ch

\* A subscriber that came before its run was over is told how it ended: also one
\* that came before the run itself, and also when shutdown stops the run; only a
\* shutdown may close the stream instead.
SubscribersServed ==
  \A s \in Subs, r \in Runs, ch \in Chans :
    (/\ sub[s] = [pc |-> "on", run |-> r, chan |-> ch]
     /\ called[r] = "yes" /\ work[r] \notin Over /\ down.pc = "up")
      ~> (phase[ch] \in Terminal \/ called[r] = "refused" \/ (down.pc = "down" /\ ~Open(ch)))

\* Until shutdown is called, ensure_capacity refuses a call only for a reason: a
\* lock section that writes the table was due in another thread and kept try_read
\* from it, or no awaited run in the table has had its end published, so there is
\* nothing to evict.  No id is lost from eviction_order on the way, neither between
\* create_slot's two sections nor among retention's three.  (Background runs are no
\* ground for eviction: register_background never marks their slots finished.  And
\* shutdown marks placeholders finished, so that retention may take the id of a run
\* that is registered later off eviction_order.)
RefusedOnlyWhenBusy ==
  [][\A c \in Callers : down.pc = "up" /\ caller[c].pc = "scan" /\ caller'[c].pc = "free" =>
       \/ WriterAbout
       \/ \A r \in Registered \cap Inline :
            ~ (work[r] \in Over /\ phase[slots[r].chan] \in Terminal)]_vars
=============================================================================
