---------------------------- MODULE DatasetLife ----------------------------
(***************************************************************************)
(* The life of datasets and data items under concurrent add(), cognify(),  *)
(* create and delete calls of one process: dataset rows and grants, links, *)
(* Data rows with their completion markers, stored files, ownership rows   *)
(* and the artifacts in the graph and vector stores.                       *)
(*                                                                         *)
(* Adds and deletes take the dataset's lock (DatasetLocks), cognify and    *)
(* create_authorized_dataset take none.  A run of cognify is seen from     *)
(* outside: what it reads first, its ownership rows, its artifacts and its *)
(* markers; CognifyRun has the rest.  The two stores are one, and so are   *)
(* the ledger's node and edge rows.  Deletes are by id and soft; the       *)
(* store-wide delete is left out.                                          *)
(***************************************************************************)
EXTENDS Naturals, FiniteSets

CONSTANTS
  Datasets,   \* dataset identities: name, owner and tenant give the id
  Items,      \* data ids, content addressed
  Slugs,      \* artifacts
  Art,        \* Art[i]: the artifacts cognify writes for an item
  Linked,     \* what has been added before the calls of the model
  Cognified,  \* and, of that, what has been cognified
  Calls,      \* concurrent calls
  Requests,   \* what a call may be asked to do
  MaxFaults,  \* bound on failed statements and crashes
  None

Request ==
  [kind: {"add", "create", "cognify", "dataset", "item"}, dataset: Datasets,
   item: Items \cup {None}, memory: BOOLEAN, ifEmpty: BOOLEAN]

ASSUME LifeAssumption ==
  /\ None \notin Datasets \cup Items \cup Calls
  /\ Art \in [Items -> SUBSET Slugs]
  /\ Linked \subseteq Datasets \X Items /\ Cognified \subseteq Linked
  /\ Requests \subseteq Request
  /\ \A q \in Requests : q.kind \in {"add", "item"} => q.item \in Items
  /\ MaxFaults \in Nat

VARIABLES
  isolated,  \* DeleteService::dataset_storage: every dataset has its own stores
  datasets,  \* rows of datasets
  granted,   \* datasets whose owner has been granted the permissions
  links,     \* rows of dataset_data
  data,      \* rows of data
  markers,   \* markers[i]: the datasets in pipeline_status of the row of i
  files,     \* items whose file, where their row says it is, is in storage
  ledger,    \* ownership rows
  store,     \* artifacts in the graph and vector stores
  lock,      \* lock[d]: the call that holds the lock of a dataset
  call,      \* call[c]: the state of a call
  faults,    \* failed statements and crashes so far
  overlaps   \* history: which calls have overlapped, see Overlapping

tables == <<datasets, granted, links, data>>
base == <<tables, markers, files, ledger, store>>
vars == <<isolated, base, lock, call, faults, overlaps>>

Deletes == {"dataset", "item"}

Idle ==
  [pc |-> "idle", req |-> None, todo |-> {}, cut |-> {}, whole |-> FALSE, part |-> "item",
   doomed |-> {}, seen |-> [i \in Items |-> {}], open |-> {}]

Over == {"ok", "failed", "dead"}
Steps == {"lookup", "make", "permit", "resolve", "insert", "grant", "get", "attach", "read",
          "own", "write", "mark", "marked", "clear", "clearing", "select", "pick", "wipe",
          "unledger", "detach", "drop", "count", "file", "row"}

Active(c) == call[c].pc \in Steps
Ds(c) == call[c].req.dataset
It(c) == call[c].req.item

\* Where the artifacts of a dataset live.
Home(d) == IF isolated THEN d ELSE None
In(d, slugs) == {Home(d)} \X slugs

LinkedTo(d) == {i \in Items : <<d, i>> \in links}
RowsOf(d) == {r \in ledger : r[1] = d}

Now(c, k) == call' = [call EXCEPT ![c] = k]
Goto(c, pc) == Now(c, [call[c] EXCEPT !.pc = pc])

\* What is left of a call that is over: for the record, the item it was to remove
\* and has only removed the file of.
Ended(c, how) ==
  [Idle EXCEPT !.pc = how, !.req = call[c].req,
               !.open = IF call[c].pc = "row" THEN call[c].open ELSE {}]

\* The call is over, and so is what its future held.
End(c, how) ==
  /\ Now(c, Ended(c, how))
  /\ lock' = [d \in Datasets |-> IF lock[d] = c THEN None ELSE lock[d]]

Free(d) == lock[d] = None

\* What no lock of the code keeps apart: a run or a create and a delete of its
\* dataset, an add of an item and a delete that is after it, an add that is late,
\* to a dataset that is being deleted, two writers of one Data row's markers.
Deleters == {c \in Calls : Active(c) /\ call[c].req.kind \in Deletes /\ lock[Ds(c)] = c}
Cognifiers == {c \in Calls : Active(c) /\ call[c].req.kind = "cognify" /\ call[c].pc # "read"}
Creators == {c \in Calls : Active(c) /\ call[c].req.kind = "create"}
Adders == {c \in Calls : Active(c) /\ call[c].req.kind = "add"}
Markers == {c \in Calls : call[c].pc \in {"marked", "clearing"}}

Overlapping ==
  {<<"run", Ds(b)>> : b \in {e \in Deleters : \E c \in Cognifiers : Ds(c) = Ds(e)}}
  \cup {<<"create", Ds(b)>> : b \in {e \in Deleters : \E c \in Creators : Ds(c) = Ds(e)}}
  \cup {<<"add", It(c)>> : c \in {e \in Adders : \E b \in Deleters :
                                                 It(e) \in call[b].todo \cup call[b].open}}
  \cup {<<"late", It(c)>> : c \in {e \in Adders : \E b \in Deleters : Ds(b) = Ds(e)}}
  \cup {<<"marks", i>> : i \in {j \in Items : \E b, c \in Markers :
                                               b # c /\ j \in call[b].open \cap call[c].open}}

Watch == overlaps' = overlaps \cup Overlapping'

-----------------------------------------------------------------------------
(* add(): the file is stored first, in a place of its own; dataset row and  *)
(* grant under the dataset lock, Data row and link under that of the data id. *)

FirstOf(q) ==
  CASE q.kind = "cognify" -> "read" [] q.kind = "create" -> "lookup" [] OTHER -> "resolve"

Begin(c, q) ==
  /\ call[c].pc = "idle"
  /\ Now(c, [Idle EXCEPT !.pc = FirstOf(q), !.req = q])
  /\ UNCHANGED <<isolated, base, lock, faults>>
  /\ Watch

\* Mutant: the lock is not kept for the insert and the grant.
AddResolveUnlocked(c) ==
  /\ call[c].pc = "resolve" /\ call[c].req.kind = "add" /\ Free(Ds(c))
  /\ Goto(c, IF Ds(c) \in datasets THEN "get" ELSE "insert")
  /\ UNCHANGED <<isolated, base, lock, faults>>
  /\ Watch

\* By name, under the dataset's lock, which is kept if there is a row to make.
AddResolve(c) ==
  /\ call[c].pc = "resolve" /\ call[c].req.kind = "add" /\ Free(Ds(c))
  /\ \/ /\ Ds(c) \in datasets
        /\ Goto(c, "get")
        /\ UNCHANGED lock
     \/ /\ Ds(c) \notin datasets
        /\ lock' = [lock EXCEPT ![Ds(c)] = c]
        /\ Goto(c, "insert")
  /\ UNCHANGED <<isolated, base, faults>>
  /\ Watch

\* create_dataset inserts; a row that has appeared meanwhile is an error.
InsertDataset(c, next) ==
  /\ datasets' = datasets \cup {Ds(c)}
  /\ \/ Ds(c) \notin datasets /\ Goto(c, next) /\ UNCHANGED lock
     \/ Ds(c) \in datasets /\ End(c, "failed")
  /\ UNCHANGED <<isolated, granted, links, data, markers, files, ledger, store, faults>>
  /\ Watch

AddInsert(c) == call[c].pc = "insert" /\ InsertDataset(c, "grant")

AddGrant(c) ==
  /\ call[c].pc = "grant"
  /\ granted' = granted \cup {Ds(c)}
  /\ lock' = [lock EXCEPT ![Ds(c)] = None]
  /\ Goto(c, "get")
  /\ UNCHANGED <<isolated, datasets, links, data, markers, files, ledger, store, faults>>
  /\ Watch

\* get_data, and create_data when there is no row, under the data id's lock.  A
\* new row names the file of this call; a row that is there keeps the file it has.
AddGet(c) ==
  /\ call[c].pc = "get"
  /\ \A e \in Calls : call[e].pc = "attach" => It(e) # It(c)
  /\ data' = data \cup {It(c)}
  /\ files' = files \cup ({It(c)} \ data)
  /\ Goto(c, "attach")
  /\ UNCHANGED <<isolated, datasets, granted, links, markers, ledger, store, lock, faults>>
  /\ Watch

\* Mutant: the link is written whether or not its two rows are there.
AttachBlind(c) ==
  /\ call[c].pc = "attach"
  /\ links' = links \cup {<<Ds(c), It(c)>>}
  /\ End(c, "ok")
  /\ UNCHANGED <<isolated, datasets, granted, data, markers, files, ledger, store, faults>>
  /\ Watch

\* attach_data_to_dataset: the foreign keys want both rows.
AddAttach(c) ==
  /\ call[c].pc = "attach"
  /\ \/ /\ Ds(c) \in datasets /\ It(c) \in data
        /\ links' = links \cup {<<Ds(c), It(c)>>}
        /\ End(c, "ok")
     \/ /\ Ds(c) \notin datasets \/ It(c) \notin data
        /\ End(c, "failed")
        /\ UNCHANGED links
  /\ UNCHANGED <<isolated, datasets, granted, data, markers, files, ledger, store, faults>>
  /\ Watch

-----------------------------------------------------------------------------
(* create_authorized_dataset: no lock, and the grant in any case.           *)

CreateLookup(c) ==
  /\ call[c].pc = "lookup"
  /\ Goto(c, IF Ds(c) \in datasets THEN "permit" ELSE "make")
  /\ UNCHANGED <<isolated, base, lock, faults>>
  /\ Watch

CreateInsert(c) == call[c].pc = "make" /\ InsertDataset(c, "permit")

CreateGrant(c) ==
  /\ call[c].pc = "permit"
  /\ granted' = granted \cup {Ds(c)}
  /\ End(c, "ok")
  /\ UNCHANGED <<isolated, datasets, links, data, markers, files, ledger, store, faults>>
  /\ Watch

-----------------------------------------------------------------------------
(* cognify(): no dataset lock; the claim keeps runs of one dataset apart.   *)

CogRead(c) ==
  LET d == Ds(c)
      todo == {i \in LinkedTo(d) : d \notin markers[i]} IN
  /\ call[c].pc = "read"
  /\ \A e \in Calls \ {c} : Active(e) /\ call[e].req.kind = "cognify" => Ds(e) # d \/ call[e].pc = "read"
  /\ \/ /\ d \in datasets /\ todo # {}
        /\ Now(c, [call[c] EXCEPT !.pc = "own", !.todo = todo])
        /\ UNCHANGED lock
     \/ d \notin datasets /\ End(c, "failed")
     \/ d \in datasets /\ todo = {} /\ End(c, "ok")
  /\ UNCHANGED <<isolated, base, faults>>
  /\ Watch

Produced(c) == UNION {Art[i] : i \in call[c].todo}

\* Rows before artifacts; the foreign key wants the dataset row.
CogOwn(c) ==
  /\ call[c].pc = "own"
  /\ \/ /\ Ds(c) \in datasets
        /\ ledger' = ledger \cup {r \in {Ds(c)} \X call[c].todo \X Slugs : r[3] \in Art[r[2]]}
        /\ Goto(c, "write")
        /\ UNCHANGED lock
     \/ Ds(c) \notin datasets /\ End(c, "failed") /\ UNCHANGED ledger
  /\ UNCHANGED <<isolated, tables, markers, files, store, faults>>
  /\ Watch

CogWrite(c) ==
  /\ call[c].pc = "write"
  /\ store' = store \cup In(Ds(c), Produced(c))
  /\ Goto(c, "mark")
  /\ UNCHANGED <<isolated, tables, markers, files, ledger, lock, faults>>
  /\ Watch

\* mark_cognify_pipeline_status_complete, item by item: the row is read ...
MarkRead(c) ==
  /\ call[c].pc = "mark"
  /\ \/ \E i \in call[c].todo :
          /\ Now(c, [call[c] EXCEPT !.pc = IF i \in data THEN "marked" ELSE "mark",
                                    !.todo = @ \ {i},
                                    !.open = {i} \cap data,
                                    !.seen = [Idle.seen EXCEPT ![i] = markers[i]]])
          /\ UNCHANGED lock
     \/ call[c].todo = {} /\ End(c, "ok")
  /\ UNCHANGED <<isolated, base, faults>>
  /\ Watch

\* ... and its pipeline_status written as a whole.  A row that is gone by then
\* is an error the run only logs.
MarkWrite(c) ==
  /\ call[c].pc = "marked"
  /\ markers' = [i \in Items |->
       IF i \in call[c].open \cap data THEN call[c].seen[i] \cup {Ds(c)} ELSE markers[i]]
  /\ Now(c, [call[c] EXCEPT !.pc = "mark", !.open = {}, !.seen = Idle.seen])
  /\ UNCHANGED <<isolated, tables, files, ledger, store, lock, faults>>
  /\ Watch

-----------------------------------------------------------------------------
(* Deletes, under the dataset's lock.                                       *)

\* cleanup_dataset for a dataset that goes, cleanup_data for an item delete.
FirstCleanup(whole) == IF whole THEN "select" ELSE "pick"

\* Mutant: markers are left to the Data rows.
FirstStepNoClear(q, whole, some) == FirstCleanup(whole)

\* Phase 0 clears markers before any artifact goes; memory-only clears them last.
FirstStep(q, whole, some) == IF q.memory \/ ~some THEN FirstCleanup(whole) ELSE "clear"

\* The targets: the dataset with all its items, or one link and, when it is the
\* last and the caller said so, its dataset.  An item without a Data row has no
\* link to detach, but stays a candidate.  The reads of the resolution are one.
Resolve(c) ==
  LET q == call[c].req
      d == q.dataset
      one == {q.item} \cap data
      whole == q.kind = "dataset" \/ (q.ifEmpty /\ LinkedTo(d) \subseteq {q.item})
      cut == IF q.kind = "dataset" THEN LinkedTo(d) ELSE one IN
  /\ call[c].pc = "resolve" /\ q.kind \in Deletes /\ Free(d)
  /\ \/ /\ d \in datasets
        /\ q.kind = "item" => one \subseteq LinkedTo(d)
        /\ lock' = [lock EXCEPT ![d] = c]
        /\ Now(c, [call[c] EXCEPT !.pc = FirstStep(q, whole, whole \/ cut # {}),
                                  !.whole = whole, !.cut = cut,
                                  !.todo = IF q.kind = "dataset" THEN cut ELSE {q.item}])
     \/ /\ d \notin datasets \/ (q.kind = "item" /\ ~ one \subseteq LinkedTo(d))
        /\ End(c, "failed")
  /\ UNCHANGED <<isolated, base, faults>>
  /\ Watch

\* The items whose markers go: all of the dataset, or in a memory-only delete of
\* one item that item alone.
ToClear(c) ==
  IF call[c].req.memory /\ call[c].req.kind = "item" THEN call[c].cut ELSE LinkedTo(Ds(c))

\* clear_pipeline_status_for_dataset reads the linked rows ...
ClearRead(c) ==
  /\ call[c].pc = "clear"
  /\ Now(c, [call[c] EXCEPT !.pc = "clearing",
                            !.open = {i \in ToClear(c) : Ds(c) \in markers[i]},
                            !.seen = markers])
  /\ UNCHANGED <<isolated, base, lock, faults>>
  /\ Watch

\* ... and writes them back one by one; a row that is gone fails the delete.
ClearWrite(c) ==
  /\ call[c].pc = "clearing"
  /\ \/ \E i \in call[c].open :
          /\ markers' = [markers EXCEPT ![i] = IF i \in data THEN call[c].seen[i] \ {Ds(c)} ELSE @]
          /\ IF i \in data THEN Now(c, [call[c] EXCEPT !.open = @ \ {i}]) /\ UNCHANGED lock
                           ELSE End(c, "failed")
     \/ /\ call[c].open = {} /\ ~call[c].req.memory
        /\ Now(c, [call[c] EXCEPT !.pc = FirstCleanup(call[c].whole), !.seen = Idle.seen])
        /\ UNCHANGED <<markers, lock>>
     \/ call[c].open = {} /\ call[c].req.memory /\ End(c, "ok") /\ UNCHANGED markers
  /\ UNCHANGED <<isolated, tables, files, ledger, store, faults>>
  /\ Watch

AfterCleanup(c) == IF call[c].req.memory THEN "clear" ELSE "detach"
AfterDataset(c) == IF call[c].req.kind = "item" THEN "pick" ELSE AfterCleanup(c)

\* cleanup_dataset begins with the dataset's rows; without rows a shared store is
\* left alone.
SelectDataset(c) ==
  /\ call[c].pc = "select"
  /\ Now(c, [call[c] EXCEPT
       !.pc = IF isolated \/ RowsOf(Ds(c)) # {} THEN "wipe" ELSE AfterDataset(c),
       !.part = "dataset",
       !.doomed = {r[3] : r \in RowsOf(Ds(c))}])
  /\ UNCHANGED <<isolated, base, lock, faults>>
  /\ Watch

\* compute_deletable_data_ids: the item has no more links than are about to go.
Deletable(i) == Cardinality({d \in Datasets : <<d, i>> \in links}) <= 1

\* get_unique_nodes_for_data looks at the other items of the same dataset.
UniqueTo(d, i) ==
  {s \in Slugs : <<d, i, s>> \in ledger /\ \A j \in Items \ {i} : <<d, j, s>> \notin ledger}

\* cleanup_data for the item's detached link, if the item itself is to go.
SelectItem(c) ==
  LET d == Ds(c)
      gone == {i \in call[c].cut : Deletable(i) /\ \E s \in Slugs : <<d, i, s>> \in ledger} IN
  /\ call[c].pc = "pick"
  /\ Now(c, [call[c] EXCEPT !.pc = IF gone # {} THEN "wipe" ELSE AfterCleanup(c),
                            !.part = "item",
                            !.doomed = UNION {UniqueTo(d, i) : i \in gone}])
  /\ UNCHANGED <<isolated, base, lock, faults>>
  /\ Watch

\* Per-dataset storage is dropped whole; otherwise slug by slug, whoever else
\* claims them.
Doomed(c) ==
  IF isolated /\ call[c].part = "dataset" THEN In(Ds(c), Slugs) ELSE In(Ds(c), call[c].doomed)

\* Mutant: what cannot be deleted is left, and its rows go all the same.
WipeSome(c) ==
  /\ call[c].pc = "wipe"
  /\ \E part \in SUBSET Doomed(c) : store' = store \ part
  /\ Goto(c, "unledger")
  /\ UNCHANGED <<isolated, tables, markers, files, ledger, lock, faults>>
  /\ Watch

Wipe(c) ==
  /\ call[c].pc = "wipe"
  /\ store' = store \ Doomed(c)
  /\ Goto(c, "unledger")
  /\ UNCHANGED <<isolated, tables, markers, files, ledger, lock, faults>>
  /\ Watch

\* The rows go last, all there are by now.
Unledger(c) ==
  /\ call[c].pc = "unledger"
  /\ ledger' = {r \in ledger : r[1] = Ds(c) => call[c].part = "item" /\ r[2] # It(c)}
  /\ Goto(c, IF call[c].part = "dataset" THEN AfterDataset(c) ELSE AfterCleanup(c))
  /\ UNCHANGED <<isolated, tables, markers, files, store, lock, faults>>
  /\ Watch

Detach(c) ==
  /\ call[c].pc = "detach"
  /\ links' = links \ ({Ds(c)} \X call[c].cut)
  /\ Goto(c, IF call[c].whole THEN "drop" ELSE "count")
  /\ UNCHANGED <<isolated, datasets, granted, data, markers, files, ledger, store, lock, faults>>
  /\ Watch

\* delete_dataset; links and ledger rows cascade.  Grants stay: the permission tables
\* are the server's (traits/acl_db.rs), and nothing revokes a grant on a delete.
DropDataset(c) ==
  /\ call[c].pc = "drop"
  /\ datasets' = datasets \ {Ds(c)}
  /\ links' = {l \in links : l[1] # Ds(c)}
  /\ ledger' = ledger \ RowsOf(Ds(c))
  /\ Goto(c, "count")
  /\ UNCHANGED <<isolated, granted, data, markers, files, store, lock, faults>>
  /\ Watch

\* Mutant: every candidate goes, also one other datasets hold.
UnlinkedAny(i) == TRUE

Unlinked(i) == \A d \in Datasets : <<d, i>> \notin links

\* Mutant: the first item that somebody else holds ends the loop.
CountBreak(c) ==
  /\ call[c].pc = "count"
  /\ \/ \E i \in call[c].todo :
          /\ Unlinked(i)
          /\ Now(c, [call[c] EXCEPT !.todo = @ \ {i}, !.pc = "file", !.open = {i}])
          /\ UNCHANGED lock
     \/ ((\A i \in call[c].todo : Unlinked(i)) => call[c].todo = {}) /\ End(c, "ok")
  /\ UNCHANGED <<isolated, base, faults>>
  /\ Watch

\* Items nothing links to any more go with their file.  A missing row is what an
\* item delete was asked to clean up.
Count(c) ==
  /\ call[c].pc = "count"
  /\ \/ \E i \in call[c].todo :
          /\ Now(c, [call[c] EXCEPT !.todo = @ \ {i},
                                    !.pc = IF Unlinked(i) THEN "file" ELSE "count",
                                    !.open = IF Unlinked(i) THEN {i} ELSE {}])
          /\ UNCHANGED lock
     \/ call[c].todo = {} /\ End(c, "ok")
  /\ UNCHANGED <<isolated, base, faults>>
  /\ Watch

DeleteFile(c) ==
  /\ call[c].pc = "file"
  /\ files' = files \ (call[c].open \cap data)
  /\ Goto(c, "row")
  /\ UNCHANGED <<isolated, tables, markers, ledger, store, lock, faults>>
  /\ Watch

\* delete_data; links cascade, markers are a column of the row.
DeleteData(c) ==
  /\ call[c].pc = "row"
  /\ data' = data \ call[c].open
  /\ links' = {l \in links : l[2] \notin call[c].open}
  /\ markers' = [i \in Items |-> IF i \in call[c].open THEN {} ELSE markers[i]]
  /\ Now(c, [call[c] EXCEPT !.pc = "count", !.open = {}])
  /\ UNCHANGED <<isolated, datasets, granted, files, ledger, store, lock, faults>>
  /\ Watch

-----------------------------------------------------------------------------
(* Faults.                                                                  *)

\* What calls that are cut off may have done of a loop of statements they are in.
CutOff(cs) ==
  /\ \E part \in SUBSET UNION {Doomed(c) : c \in {e \in cs : call[e].pc = "wipe"}} :
       store' = store \ part
  /\ \E part \in SUBSET UNION {{Ds(c)} \X call[c].cut : c \in {e \in cs : call[e].pc = "detach"}} :
       links' = links \ part

\* A statement fails and the call returns its error.  A failed sweep of cognify is
\* CognifyRun's subject.
Fail(c) ==
  /\ faults < MaxFaults
  /\ Active(c) /\ call[c].req.kind # "cognify"
  /\ faults' = faults + 1
  /\ CutOff({c})
  /\ End(c, "failed")
  /\ UNCHANGED <<isolated, datasets, granted, data, markers, files, ledger>>
  /\ Watch

\* The process dies with every call in it; the locks are in memory.
Crash ==
  /\ faults < MaxFaults
  /\ faults' = faults + 1
  /\ CutOff(Calls)
  /\ call' = [c \in Calls |->
       IF Active(c) THEN Ended(c, "dead") ELSE call[c]]
  /\ lock' = [d \in Datasets |-> None]
  /\ UNCHANGED <<isolated, datasets, granted, data, markers, files, ledger>>
  /\ Watch

-----------------------------------------------------------------------------
Step(c) ==
  \/ \E q \in Requests : Begin(c, q)
  \/ CreateLookup(c) \/ CreateInsert(c) \/ CreateGrant(c)
  \/ AddResolve(c) \/ AddInsert(c) \/ AddGrant(c) \/ AddGet(c) \/ AddAttach(c)
  \/ CogRead(c) \/ CogOwn(c) \/ CogWrite(c) \/ MarkRead(c) \/ MarkWrite(c)
  \/ Resolve(c) \/ ClearRead(c) \/ ClearWrite(c) \/ SelectDataset(c) \/ SelectItem(c)
  \/ Wipe(c) \/ Unledger(c)
  \/ Detach(c) \/ DropDataset(c) \/ Count(c) \/ DeleteFile(c) \/ DeleteData(c)
  \/ Fail(c)

\* A memory-only delete of the dataset that has not come to its end.
Forgetting(d) ==
  \E c \in Calls : /\ call[c].pc \in Steps \cup {"failed", "dead"}
                   /\ call[c].req.memory /\ Ds(c) = d

\* Every call is over: the model, not the system, has run out of work.
Quiescent == (\A c \in Calls : call[c].pc \in Over) /\ UNCHANGED vars

Next == (\E c \in Calls : Step(c)) \/ Crash \/ Quiescent

Init ==
  /\ isolated \in BOOLEAN
  /\ datasets = {l[1] : l \in Linked}
  /\ granted = {l[1] : l \in Linked}
  /\ links = Linked
  /\ data = {l[2] : l \in Linked}
  /\ markers = [i \in Items |-> {d \in Datasets : <<d, i>> \in Cognified}]
  /\ files = {l[2] : l \in Linked}
  /\ ledger = {r \in Datasets \X Items \X Slugs : <<r[1], r[2]>> \in Cognified /\ r[3] \in Art[r[2]]}
  /\ store = UNION {In(l[1], Art[l[2]]) : l \in Cognified}
  /\ lock = [d \in Datasets |-> None]
  /\ call = [c \in Calls |-> Idle]
  /\ faults = 0
  /\ overlaps = {}

Spec == Init /\ [][Next]_vars

-----------------------------------------------------------------------------
(* Properties.                                                              *)

CallType ==
  [pc: {"idle"} \cup Steps \cup Over, req: Requests \cup {None}, todo: SUBSET Items,
   cut: SUBSET Items, whole: BOOLEAN, part: {"dataset", "item"}, doomed: SUBSET Slugs,
   seen: [Items -> SUBSET Datasets], open: SUBSET Items]

\* Every variable stays in its type, and the foreign keys hold: links join rows
\* that exist, ownership rows belong to datasets that exist.
TypeOK ==
  /\ isolated \in BOOLEAN
  /\ datasets \subseteq Datasets /\ granted \subseteq Datasets
  /\ data \subseteq Items /\ files \subseteq Items
  /\ links \subseteq datasets \X data
  /\ markers \in [Items -> SUBSET Datasets]
  /\ ledger \subseteq datasets \X Items \X Slugs
  /\ store \subseteq (Datasets \cup {None}) \X Slugs
  /\ lock \in [Datasets -> Calls \cup {None}]
  /\ call \in [Calls -> CallType]
  /\ faults \in Nat

\* I1 across deletes that fail half-way, crash and are tried again, and across
\* two datasets in one store: an artifact has an ownership row, unless a run of
\* cognify and a delete of the same dataset have overlapped.
Owned ==
  \A a \in store : \/ \E r \in ledger : Home(r[1]) = a[1] /\ r[3] = a[2]
                   \/ \E d \in Datasets : Home(d) = a[1] /\ <<"run", d>> \in overlaps

\* An item whose file a delete has removed, and was cut off before its row went.
HalfGone(i) == \E c \in Calls : call[c].pc \in {"failed", "dead"} /\ i \in call[c].open

\* An item of a dataset has its file, whatever deletes of other datasets did to it,
\* unless it was added while a delete was after it; or after a delete was cut off
\* between its file and its row, which the next add finds and takes for stored.
LinkedHasFile ==
  \A l \in links : l[2] \in files \/ HalfGone(l[2]) \/ <<"add", l[2]>> \in overlaps

\* An item of a dataset that is marked, which cognify skips for good, has its
\* artifacts, where datasets have stores of their own; but for a memory-only delete
\* that is not done, and the overlaps that no lock prevents.  (An add that meets a
\* delete of its item is one: the row that a run has read to mark it may be deleted
\* and made again, and then gets the marker of a dataset it is not linked to.)
MarkerSound ==
  isolated => \A l \in links : l[1] \in markers[l[2]] =>
    \/ In(l[1], Art[l[2]]) \subseteq store
    \/ Forgetting(l[1]) \/ {<<"run", l[1]>>, <<"marks", l[2]>>, <<"add", l[2]>>} \cap overlaps # {}

\* The call that made the dataset's row was cut off before the grant, or is a create,
\* which keeps nobody from the row it has not granted yet.
HalfMade(d) ==
  \E c \in Calls : /\ \/ call[c].pc \in {"failed", "dead"} /\ call[c].req.kind \in {"add", "create"}
                      \/ call[c].pc = "permit"
                   /\ Ds(c) = d

\* Whoever finds a dataset's row through add finds its grants committed: items are
\* linked only to granted datasets, but for those that are half made.
AttachedGranted == \A l \in links : l[1] \in granted \/ HalfMade(l[1])

\* When a delete of a dataset returns, nothing of the dataset is left, unless a create
\* has come in between, and the items it has detached are gone with their files,
\* unless another dataset holds them or another call is at them or was cut off.  (Items
\* that an earlier try has detached before it failed stay for good; so do those that
\* were added to a dataset while it was being deleted, whose links cascade.)
DeletedGone ==
  [][\A c \in Calls :
       /\ call[c].pc \in Steps /\ call'[c].pc = "ok"
       /\ call[c].req.kind = "dataset" /\ ~call[c].req.memory
       => LET d == Ds(c) IN
          /\ \/ d \notin datasets' /\ \A r \in ledger' : r[1] # d
             \/ <<"create", d>> \in overlaps
          /\ isolated => (\A a \in store' : a[1] # d) \/ <<"run", d>> \in overlaps
          /\ \A i \in call[c].cut : i \in data' \cup files' =>
               \/ \E e \in Datasets : <<e, i>> \in links'
               \/ \E e \in Calls : /\ call'[e].pc \notin {"idle", "ok"}
                                   /\ call'[e].req.kind = "dataset" \/ call'[e].req.item = i
               \/ {<<"add", i>>, <<"late", i>>} \cap overlaps # {}]_vars
=============================================================================
