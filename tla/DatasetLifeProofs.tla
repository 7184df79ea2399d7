------------------------- MODULE DatasetLifeProofs -------------------------
(***************************************************************************)
(* Proofs about DatasetLife, for any number of datasets, items, calls and  *)
(* faults.                                                                 *)
(***************************************************************************)
EXTENDS DatasetLife, FiniteSetTheorems, TLAPS

AddSteps == {"insert", "grant", "get", "attach"}
CreateSteps == {"lookup", "make", "permit"}
CogSteps == {"read", "own", "write", "mark", "marked"}
DeleteSteps ==
  {"clear", "clearing", "select", "pick", "wipe", "unledger", "detach", "drop", "count",
   "file", "row"}

\* What a call is at fits what it was asked, and it holds the lock it should.
CallOK(c) ==
  /\ call[c].pc # "idle" => call[c].req \in Requests
  /\ call[c].pc = "resolve" => call[c].req.kind \notin {"cognify", "create"}
  /\ call[c].pc \in AddSteps => call[c].req.kind = "add"
  /\ call[c].pc \in CreateSteps => call[c].req.kind = "create"
  /\ call[c].pc \in CogSteps => call[c].req.kind = "cognify"
  /\ call[c].pc \in DeleteSteps => call[c].req.kind \in Deletes
  /\ call[c].pc \in DeleteSteps \cup {"insert", "grant"} => lock[call[c].req.dataset] = c

CallsOK == \A c \in Calls : CallOK(c)

\* Overlaps are on record as soon as they begin.
Watched == Overlapping \subseteq overlaps

\* A call has removed the file of an item, and its row not, or not yet.
Undone(c, i) == call[c].pc \in {"row", "failed", "dead"} /\ i \in call[c].open

\* A row without its file is one a delete is or was at, and an item a delete is about
\* to remove stays unlinked, unless an add has met it.
FilesInv ==
  /\ \A i \in data : i \in files \/ \E c \in Calls : Undone(c, i)
  /\ \A c \in Calls : call[c].pc \in {"file", "row"} =>
       \A i \in call[c].open : Unlinked(i) \/ <<"add", i>> \in overlaps

\* The dataset's grants are there, or its maker has gone without or is a create.
Settled(d) == d \in granted \/ HalfMade(d)

\* A row without grants is behind the lock of the add that made it, or half made.
GrantInv ==
  /\ \A d \in datasets : Settled(d) \/ \E c \in Calls : call[c].pc = "grant" /\ Ds(c) = d
  /\ \A c \in Calls : call[c].pc \in {"get", "attach"} => Settled(Ds(c))
  /\ AttachedGranted

\* A run and a delete of the dataset have met.
Met(d) == <<"run", d>> \in overlaps

\* A row that a delete is about to remove: its artifact is not to count on it.
Condemned(r) ==
  \E b \in Calls : /\ call[b].pc = "unledger" /\ Ds(b) = r[1]
                   /\ call[b].part = "dataset" \/ r[2] = It(b)

Claimed(a) == \E r \in ledger : Home(r[1]) = a[1] /\ r[3] = a[2] /\ ~Condemned(r)
Excused(a) == \E d \in Datasets : Home(d) = a[1] /\ Met(d)

\* A run that is about to write has its rows.
WriteOK(c) ==
  call[c].pc = "write" =>
    \/ Met(Ds(c))
    \/ \A i \in call[c].todo : \A s \in Art[i] : <<Ds(c), i, s>> \in ledger

\* A delete about to wipe has selected all it has to, and one that is past the
\* cleanup of its dataset has left no row.
DeleteOK(b) ==
  call[b].pc \in DeleteSteps =>
    /\ call[b].req.kind = "dataset" => call[b].whole
    /\ call[b].req.kind = "item" => call[b].cut \subseteq {It(b)}
    /\ call[b].pc = "pick" => call[b].req.kind = "item"
    /\ call[b].pc = "drop" => call[b].whole
    /\ call[b].pc = "wipe" /\ call[b].part = "dataset" =>
         Met(Ds(b)) \/ \A r \in RowsOf(Ds(b)) : r[3] \in call[b].doomed
    /\ call[b].pc = "wipe" /\ call[b].part = "item" =>
         \/ Met(Ds(b))
         \/ \A s \in Slugs : <<Ds(b), It(b), s>> \in ledger =>
              s \in call[b].doomed \/ \E j \in Items \ {It(b)} : <<Ds(b), j, s>> \in ledger
    /\ /\ call[b].whole
       /\ \/ call[b].pc \in {"pick", "detach", "drop"}
          \/ call[b].pc \in {"wipe", "unledger"} /\ call[b].part = "item"
       => Met(Ds(b)) \/ RowsOf(Ds(b)) = {}

OwnedInv ==
  /\ \A a \in store : Claimed(a) \/ Excused(a)
  /\ \A c \in Calls : WriteOK(c) /\ DeleteOK(c)

-----------------------------------------------------------------------------
LEMMA RequestType ==
  ASSUME NEW q \in Requests
  PROVE  /\ q \in Request /\ q.dataset \in Datasets /\ q.item \in Items \cup {None}
         /\ q.kind \in {"add", "create", "cognify", "dataset", "item"}
         /\ q.kind \in {"add", "item"} => q.item \in Items
BY LifeAssumption DEF Request

LEMMA InitType == Init => TypeOK /\ CallsOK
<1> SUFFICES ASSUME Init PROVE TypeOK /\ CallsOK
  OBVIOUS
<1>1. Idle \in CallType
  BY DEF Idle, CallType, Over, Steps
<1>2. call \in [Calls -> CallType]
  BY <1>1 DEF Init
<1>3. links \subseteq datasets \X data /\ datasets \subseteq Datasets /\ data \subseteq Items
  BY LifeAssumption DEF Init
<1>4. ledger \subseteq datasets \X Items \X Slugs
  <2> SUFFICES ASSUME NEW r \in ledger PROVE r \in datasets \X Items \X Slugs
    OBVIOUS
  <2>1. r \in Datasets \X Items \X Slugs /\ <<r[1], r[2]>> \in Linked
    BY LifeAssumption DEF Init
  <2>2. r[1] \in datasets
    <3> DEFINE l == <<r[1], r[2]>>
    <3>1. l \in Linked /\ l[1] = r[1]
      BY <2>1
    <3> QED BY <3>1 DEF Init
  <2> QED BY <2>1, <2>2
<1>5. store \subseteq (Datasets \cup {None}) \X Slugs
  <2> SUFFICES ASSUME NEW l \in Cognified PROVE In(l[1], Art[l[2]]) \subseteq (Datasets \cup {None}) \X Slugs
    BY DEF Init
  <2>1. l[1] \in Datasets /\ Art[l[2]] \subseteq Slugs
    BY LifeAssumption
  <2> QED BY <2>1 DEF In, Home
<1>6. markers \in [Items -> SUBSET Datasets] /\ lock \in [Datasets -> Calls \cup {None}]
  BY DEF Init
<1>7. TypeOK
  BY <1>2, <1>3, <1>4, <1>5, <1>6 DEF TypeOK, Init
<1>8. CallsOK
  BY DEF Init, CallsOK, CallOK, Idle, AddSteps, CreateSteps, CogSteps, DeleteSteps
<1> QED BY <1>7, <1>8

\* A call that is over keeps its request, and lets go of every lock.
LEMMA EndType ==
  ASSUME TypeOK, CallsOK, NEW c \in Calls, call[c].pc # "idle", NEW how \in Over, End(c, how)
  PROVE  /\ call' \in [Calls -> CallType]
         /\ lock' \in [Datasets -> Calls \cup {None}]
         /\ CallsOK'
         /\ call'[c].pc = how /\ call'[c].req = call[c].req
         /\ \A e \in Calls \ {c} : call'[e] = call[e]
         /\ \A d \in Datasets : lock'[d] = IF lock[d] = c THEN None ELSE lock[d]
<1>1. Ended(c, how) \in CallType
  BY DEF Ended, Idle, CallType, Over, Steps, TypeOK, CallsOK, CallOK
<1>2. call' \in [Calls -> CallType]
  BY <1>1 DEF End, Now, TypeOK
<1>3. lock' \in [Datasets -> Calls \cup {None}] /\ \A d \in Datasets : lock'[d] = IF lock[d] = c THEN None ELSE lock[d]
  BY DEF End, Now, TypeOK
<1>4. call'[c].pc = how /\ call'[c].req = call[c].req
  BY DEF End, Ended, Now, TypeOK, Idle
<1>5. \A e \in Calls \ {c} : call'[e] = call[e]
  BY DEF End, Now, TypeOK
<1>6. CallsOK'
  <2> SUFFICES ASSUME NEW e \in Calls PROVE CallOK(e)'
    BY DEF CallsOK
  <2>1. CASE e = c
    BY <2>1, <1>4 DEF CallsOK, CallOK, Over, AddSteps, CreateSteps, CogSteps, DeleteSteps
  <2>2. CASE e # c
    <3>1. call'[e] = call[e] /\ CallOK(e)
      BY <2>2, <1>5 DEF CallsOK
    <3>2. call[e].pc \in DeleteSteps \cup {"insert", "grant"} => call[e].req.dataset \in Datasets
      BY <3>1, RequestType DEF CallOK, DeleteSteps
    <3> QED BY <2>2, <3>1, <3>2, <1>3 DEF CallOK
  <2> QED BY <2>1, <2>2
<1> QED BY <1>2, <1>3, <1>4, <1>5, <1>6

\* A step of one call that leaves the locks alone.
LEMMA OthersOK ==
  ASSUME CallsOK, NEW c \in Calls, \A e \in Calls \ {c} : call'[e] = call[e], UNCHANGED lock,
         CallOK(c)'
  PROVE  CallsOK'
BY DEF CallsOK, CallOK

LEMMA NowType ==
  ASSUME TypeOK, NEW c \in Calls, NEW k \in CallType, Now(c, k)
  PROVE  /\ call' \in [Calls -> CallType]
         /\ call'[c] = k
         /\ \A e \in Calls \ {c} : call'[e] = call[e]
BY DEF TypeOK, Now

LEMMA BeginType ==
  ASSUME TypeOK, CallsOK, NEW c \in Calls, NEW q \in Requests, Begin(c, q)
  PROVE  TypeOK' /\ CallsOK'
<1> DEFINE k == [Idle EXCEPT !.pc = FirstOf(q), !.req = q]
<1>2. k \in CallType /\ k.req = q /\ k.pc = FirstOf(q)
  <2>1. FirstOf(q) \in {"read", "lookup", "resolve"}
    BY DEF FirstOf
  <2> QED BY <2>1 DEF CallType, Steps, Idle
<1>3. Now(c, k)
  BY DEF Begin
<1> HIDE DEF k
<1>4. CallOK(c)'
  BY <1>2, <1>3, NowType DEF FirstOf, CallOK, AddSteps, CreateSteps, CogSteps, DeleteSteps
<1>5. CallsOK' /\ call' \in [Calls -> CallType]
  BY <1>2, <1>3, <1>4, NowType, OthersOK DEF Begin
<1> QED BY <1>5 DEF TypeOK, Begin, base, tables

\* A step within one kind of call.
LEMMA MoveType ==
  ASSUME TypeOK, CallsOK, NEW c \in Calls, NEW k \in CallType, Now(c, k), UNCHANGED lock,
         k.req = call[c].req,
         \/ call[c].pc \in AddSteps /\ k.pc \in AddSteps \ {"insert", "grant"}
         \/ call[c].pc = "insert" /\ k.pc = "grant"
         \/ call[c].pc \in CreateSteps /\ k.pc \in CreateSteps
         \/ call[c].pc \in CogSteps /\ k.pc \in CogSteps
         \/ call[c].pc \in DeleteSteps /\ k.pc \in DeleteSteps
  PROVE  call' \in [Calls -> CallType] /\ CallsOK'
<1>1. CallOK(c)'
  BY NowType DEF CallsOK, CallOK, AddSteps, CreateSteps, CogSteps, DeleteSteps
<1> QED BY <1>1, NowType, OthersOK

\* A call that is not idle has a proper request.
LEMMA ActiveType ==
  ASSUME TypeOK, CallsOK, NEW c \in Calls, call[c].pc # "idle"
  PROVE  /\ call[c].req \in Requests /\ Ds(c) \in Datasets
         /\ call[c].req.kind \in {"add", "item"} => It(c) \in Items
BY RequestType DEF CallsOK, CallOK, Ds, It

LEMMA HomeType ==
  ASSUME NEW d \in Datasets, NEW x \in SUBSET Slugs
  PROVE  In(d, x) \subseteq (Datasets \cup {None}) \X Slugs
BY DEF In, Home

LEMMA CogWriteType ==
  ASSUME TypeOK, CallsOK, NEW c \in Calls, CogWrite(c)
  PROVE  TypeOK' /\ CallsOK'
<1> DEFINE k == [call[c] EXCEPT !.pc = "mark"]
<1>1. call[c] \in CallType /\ call[c].pc # "idle" /\ Ds(c) \in Datasets
  BY ActiveType DEF TypeOK, CogWrite
<1>2. k \in CallType /\ k.req = call[c].req /\ k.pc \in CogSteps
  BY <1>1 DEF TypeOK, CallType, Steps, CogSteps, CogWrite
<1>3. Now(c, k) /\ UNCHANGED lock /\ call[c].pc \in CogSteps
  BY DEF CogWrite, Goto, CogSteps, base
<1> HIDE DEF k
<1>4. call' \in [Calls -> CallType] /\ CallsOK'
  BY <1>2, <1>3, MoveType DEF AddSteps
<1>5. Produced(c) \subseteq Slugs
  BY <1>1, LifeAssumption DEF Produced, CallType
<1> QED BY <1>1, <1>4, <1>5, HomeType DEF TypeOK, CogWrite, tables, base

LEMMA WipeType ==
  ASSUME TypeOK, CallsOK, NEW c \in Calls, Wipe(c)
  PROVE  TypeOK' /\ CallsOK'
<1> DEFINE k == [call[c] EXCEPT !.pc = "unledger"]
<1>1. call[c] \in CallType /\ call[c].pc # "idle" /\ Ds(c) \in Datasets
  BY ActiveType DEF TypeOK, Wipe
<1>2. k \in CallType /\ k.req = call[c].req /\ k.pc \in DeleteSteps
  BY <1>1 DEF TypeOK, CallType, Steps, DeleteSteps, Wipe
<1>3. Now(c, k) /\ UNCHANGED lock /\ call[c].pc \in DeleteSteps
  BY DEF Wipe, Goto, DeleteSteps, base
<1> HIDE DEF k
<1>4. call' \in [Calls -> CallType] /\ CallsOK'
  BY <1>2, <1>3, MoveType DEF AddSteps
<1> QED BY <1>1, <1>4 DEF TypeOK, Wipe, tables, base

LEMMA DeleteFileType ==
  ASSUME TypeOK, CallsOK, NEW c \in Calls, DeleteFile(c)
  PROVE  TypeOK' /\ CallsOK'
<1> DEFINE k == [call[c] EXCEPT !.pc = "row"]
<1>1. call[c] \in CallType /\ call[c].pc # "idle" /\ Ds(c) \in Datasets
  BY ActiveType DEF TypeOK, DeleteFile
<1>2. k \in CallType /\ k.req = call[c].req /\ k.pc \in DeleteSteps
  BY <1>1 DEF TypeOK, CallType, Steps, DeleteSteps, DeleteFile
<1>3. Now(c, k) /\ UNCHANGED lock /\ call[c].pc \in DeleteSteps
  BY DEF DeleteFile, Goto, DeleteSteps, base
<1> HIDE DEF k
<1>4. call' \in [Calls -> CallType] /\ CallsOK'
  BY <1>2, <1>3, MoveType DEF AddSteps
<1> QED BY <1>1, <1>4 DEF TypeOK, DeleteFile, tables, base

LEMMA DetachType ==
  ASSUME TypeOK, CallsOK, NEW c \in Calls, Detach(c)
  PROVE  TypeOK' /\ CallsOK'
<1> DEFINE k == [call[c] EXCEPT !.pc = IF call[c].whole THEN "drop" ELSE "count"]
<1>1. call[c] \in CallType /\ call[c].pc # "idle" /\ Ds(c) \in Datasets
  BY ActiveType DEF TypeOK, Detach
<1>2. k \in CallType /\ k.req = call[c].req /\ k.pc \in DeleteSteps
  BY <1>1 DEF TypeOK, CallType, Steps, DeleteSteps, Detach
<1>3. Now(c, k) /\ UNCHANGED lock /\ call[c].pc \in DeleteSteps
  BY DEF Detach, Goto, DeleteSteps, base
<1> HIDE DEF k
<1>4. call' \in [Calls -> CallType] /\ CallsOK'
  BY <1>2, <1>3, MoveType DEF AddSteps
<1> QED BY <1>1, <1>4 DEF TypeOK, Detach, tables, base

LEMMA DropDatasetType ==
  ASSUME TypeOK, CallsOK, NEW c \in Calls, DropDataset(c)
  PROVE  TypeOK' /\ CallsOK'
<1> DEFINE k == [call[c] EXCEPT !.pc = "count"]
<1>1. call[c] \in CallType /\ call[c].pc # "idle" /\ Ds(c) \in Datasets
  BY ActiveType DEF TypeOK, DropDataset
<1>2. k \in CallType /\ k.req = call[c].req /\ k.pc \in DeleteSteps
  BY <1>1 DEF TypeOK, CallType, Steps, DeleteSteps, DropDataset
<1>3. Now(c, k) /\ UNCHANGED lock /\ call[c].pc \in DeleteSteps
  BY DEF DropDataset, Goto, DeleteSteps, base
<1> HIDE DEF k
<1>4. call' \in [Calls -> CallType] /\ CallsOK'
  BY <1>2, <1>3, MoveType DEF AddSteps
<1> QED BY <1>1, <1>4 DEF TypeOK, DropDataset, tables, base, RowsOf

LEMMA UnledgerType ==
  ASSUME TypeOK, CallsOK, NEW c \in Calls, Unledger(c)
  PROVE  TypeOK' /\ CallsOK'
<1> DEFINE k == [call[c] EXCEPT !.pc = IF call[c].part = "dataset" THEN AfterDataset(c) ELSE AfterCleanup(c)]
<1>1. call[c] \in CallType /\ call[c].pc # "idle" /\ Ds(c) \in Datasets
  BY ActiveType DEF TypeOK, Unledger
<1>2. k \in CallType /\ k.req = call[c].req /\ k.pc \in DeleteSteps
  BY <1>1 DEF TypeOK, CallType, Steps, DeleteSteps, Unledger, AfterDataset, AfterCleanup
<1>3. Now(c, k) /\ UNCHANGED lock /\ call[c].pc \in DeleteSteps
  BY DEF Unledger, Goto, DeleteSteps, base
<1> HIDE DEF k
<1>4. call' \in [Calls -> CallType] /\ CallsOK'
  BY <1>2, <1>3, MoveType DEF AddSteps
<1> QED BY <1>1, <1>4 DEF TypeOK, Unledger, tables, base

LEMMA SelectDatasetType ==
  ASSUME TypeOK, CallsOK, NEW c \in Calls, SelectDataset(c)
  PROVE  TypeOK' /\ CallsOK'
<1> DEFINE k == [call[c] EXCEPT
       !.pc = IF isolated \/ RowsOf(Ds(c)) # {} THEN "wipe" ELSE AfterDataset(c),
       !.part = "dataset",
       !.doomed = {r[3] : r \in RowsOf(Ds(c))}]
<1>1. call[c] \in CallType /\ call[c].pc # "idle" /\ Ds(c) \in Datasets
  BY ActiveType DEF TypeOK, SelectDataset
<1>0. {r[3] : r \in RowsOf(Ds(c))} \in SUBSET Slugs
  BY DEF TypeOK, RowsOf
<1>2. k \in CallType /\ k.req = call[c].req /\ k.pc \in DeleteSteps
  BY <1>0, <1>1 DEF CallType, Steps, DeleteSteps, AfterDataset, AfterCleanup
<1>3. Now(c, k) /\ UNCHANGED lock /\ call[c].pc \in DeleteSteps
  BY DEF SelectDataset, Goto, DeleteSteps, base
<1> HIDE DEF k
<1>4. call' \in [Calls -> CallType] /\ CallsOK'
  BY <1>2, <1>3, MoveType DEF AddSteps
<1> QED BY <1>1, <1>4 DEF TypeOK, SelectDataset, tables, base

LEMMA ClearReadType ==
  ASSUME TypeOK, CallsOK, NEW c \in Calls, ClearRead(c)
  PROVE  TypeOK' /\ CallsOK'
<1> DEFINE k == [call[c] EXCEPT !.pc = "clearing",
                            !.open = {i \in ToClear(c) : Ds(c) \in markers[i]},
                            !.seen = markers]
<1>1. call[c] \in CallType /\ call[c].pc # "idle" /\ Ds(c) \in Datasets
  BY ActiveType DEF TypeOK, ClearRead
<1>2. k \in CallType /\ k.req = call[c].req /\ k.pc \in DeleteSteps
  BY <1>1 DEF TypeOK, CallType, Steps, DeleteSteps, ClearRead, ToClear, LinkedTo
<1>3. Now(c, k) /\ UNCHANGED lock /\ call[c].pc \in DeleteSteps
  BY DEF ClearRead, Goto, DeleteSteps, base
<1> HIDE DEF k
<1>4. call' \in [Calls -> CallType] /\ CallsOK'
  BY <1>2, <1>3, MoveType DEF AddSteps
<1> QED BY <1>1, <1>4 DEF TypeOK, ClearRead, tables, base

LEMMA DeleteDataType ==
  ASSUME TypeOK, CallsOK, NEW c \in Calls, DeleteData(c)
  PROVE  TypeOK' /\ CallsOK'
<1> DEFINE k == [call[c] EXCEPT !.pc = "count", !.open = {}]
<1>1. call[c] \in CallType /\ call[c].pc # "idle" /\ Ds(c) \in Datasets
  BY ActiveType DEF TypeOK, DeleteData
<1>2. k \in CallType /\ k.req = call[c].req /\ k.pc \in DeleteSteps
  BY <1>1 DEF TypeOK, CallType, Steps, DeleteSteps, DeleteData
<1>3. Now(c, k) /\ UNCHANGED lock /\ call[c].pc \in DeleteSteps
  BY DEF DeleteData, Goto, DeleteSteps, base
<1> HIDE DEF k
<1>4. call' \in [Calls -> CallType] /\ CallsOK'
  BY <1>2, <1>3, MoveType DEF AddSteps
<1> QED BY <1>1, <1>4 DEF TypeOK, DeleteData, tables, base

LEMMA MarkWriteType ==
  ASSUME TypeOK, CallsOK, NEW c \in Calls, MarkWrite(c)
  PROVE  TypeOK' /\ CallsOK'
<1> DEFINE k == [call[c] EXCEPT !.pc = "mark", !.open = {}, !.seen = Idle.seen]
<1>1. call[c] \in CallType /\ call[c].pc # "idle" /\ Ds(c) \in Datasets
  BY ActiveType DEF TypeOK, MarkWrite
<1>2. k \in CallType /\ k.req = call[c].req /\ k.pc \in CogSteps
  BY <1>1 DEF TypeOK, CallType, Steps, CogSteps, MarkWrite, Idle
<1>3. Now(c, k) /\ UNCHANGED lock /\ call[c].pc \in CogSteps
  BY DEF MarkWrite, Goto, CogSteps, base
<1> HIDE DEF k
<1>4. call' \in [Calls -> CallType] /\ CallsOK'
  BY <1>2, <1>3, MoveType DEF AddSteps
<1> QED BY <1>1, <1>4 DEF TypeOK, MarkWrite, tables, base, CallType


LEMMA SelectItemType ==
  ASSUME TypeOK, CallsOK, NEW c \in Calls, SelectItem(c)
  PROVE  TypeOK' /\ CallsOK'
<1> DEFINE gone == {i \in call[c].cut : Deletable(i) /\ \E s \in Slugs : <<Ds(c), i, s>> \in ledger}
           doomed == UNION {UniqueTo(Ds(c), i) : i \in gone}
           k == [call[c] EXCEPT !.pc = IF gone # {} THEN "wipe" ELSE AfterCleanup(c),
                                !.part = "item", !.doomed = doomed]
<1>1. call[c] \in CallType /\ call[c].pc # "idle" /\ Ds(c) \in Datasets
  BY ActiveType DEF TypeOK, SelectItem
<1>0. doomed \in SUBSET Slugs
  BY DEF UniqueTo
<1>3. Now(c, k) /\ UNCHANGED lock /\ call[c].pc \in DeleteSteps
  BY DEF SelectItem, DeleteSteps
<1> HIDE DEF gone, doomed
<1>2. k \in CallType /\ k.req = call[c].req /\ k.pc \in DeleteSteps
  BY <1>0, <1>1 DEF CallType, Steps, DeleteSteps, AfterCleanup
<1> HIDE DEF k
<1>4. call' \in [Calls -> CallType] /\ CallsOK'
  BY <1>2, <1>3, MoveType
<1> QED BY <1>1, <1>4 DEF TypeOK, SelectItem, tables, base

LEMMA AddGetType ==
  ASSUME TypeOK, CallsOK, NEW c \in Calls, AddGet(c)
  PROVE  TypeOK' /\ CallsOK'
<1> DEFINE k == [call[c] EXCEPT !.pc = "attach"]
<1>1. call[c] \in CallType /\ call[c].pc # "idle" /\ It(c) \in Items
  BY ActiveType DEF TypeOK, AddGet, CallsOK, CallOK, AddSteps
<1>2. k \in CallType /\ k.req = call[c].req /\ k.pc = "attach"
  BY <1>1 DEF CallType, Steps
<1>3. Now(c, k) /\ UNCHANGED lock /\ call[c].pc \in AddSteps
  BY DEF AddGet, Goto, AddSteps
<1> HIDE DEF k
<1>4. call' \in [Calls -> CallType] /\ CallsOK'
  BY <1>2, <1>3, MoveType DEF AddSteps
<1> QED BY <1>1, <1>4 DEF TypeOK, AddGet

LEMMA AddAttachType ==
  ASSUME TypeOK, CallsOK, NEW c \in Calls, AddAttach(c)
  PROVE  TypeOK' /\ CallsOK'
<1>1. PICK how \in Over : End(c, how)
  BY DEF AddAttach, Over
<1>2. call[c].pc # "idle"
  BY DEF AddAttach
<1>3. /\ call' \in [Calls -> CallType] /\ lock' \in [Datasets -> Calls \cup {None}] /\ CallsOK'
  BY <1>1, <1>2, EndType
<1> QED BY <1>3 DEF TypeOK, AddAttach

LEMMA AddGrantType ==
  ASSUME TypeOK, CallsOK, NEW c \in Calls, AddGrant(c)
  PROVE  TypeOK' /\ CallsOK'
<1> DEFINE k == [call[c] EXCEPT !.pc = "get"]
<1>1. /\ call[c] \in CallType /\ call[c].pc = "grant" /\ Ds(c) \in Datasets
      /\ lock[Ds(c)] = c /\ call[c].req.kind = "add" /\ call[c].req \in Requests
  BY ActiveType DEF TypeOK, AddGrant, CallsOK, CallOK, AddSteps, Ds
<1>2. k \in CallType /\ k.req = call[c].req /\ k.pc = "get"
  BY <1>1 DEF CallType, Steps
<1>3. Now(c, k)
  BY DEF AddGrant, Goto
<1> HIDE DEF k
<1>4. call' \in [Calls -> CallType] /\ call'[c] = k /\ \A e \in Calls \ {c} : call'[e] = call[e]
  BY <1>2, <1>3, NowType
<1>5. lock' \in [Datasets -> Calls \cup {None}] /\ \A d \in Datasets \ {Ds(c)} : lock'[d] = lock[d]
  BY <1>1 DEF AddGrant, TypeOK
<1>6. CallsOK'
  <2> SUFFICES ASSUME NEW e \in Calls PROVE CallOK(e)'
    BY DEF CallsOK
  <2>1. CASE e = c
    BY <2>1, <1>1, <1>2, <1>4 DEF CallOK, AddSteps, CreateSteps, CogSteps, DeleteSteps
  <2>2. CASE e # c
    <3>1. call'[e] = call[e] /\ CallOK(e)
      BY <2>2, <1>4 DEF CallsOK
    <3>2. call[e].pc \in DeleteSteps \cup {"insert", "grant"} => /\ call[e].req.dataset \in Datasets
                                                     /\ call[e].req.dataset # Ds(c)
      BY <1>1, <2>2, <3>1, RequestType DEF CallOK, DeleteSteps
    <3> QED BY <3>1, <3>2, <1>5 DEF CallOK
  <2> QED BY <2>1, <2>2
<1> QED BY <1>1, <1>4, <1>5, <1>6 DEF TypeOK, AddGrant

\* A lock is taken only when it is free.
LEMMA LockType ==
  ASSUME TypeOK, CallsOK, NEW c \in Calls, NEW k \in CallType, Now(c, k), k.req = call[c].req,
         call[c].pc # "idle", Free(Ds(c)), lock' = [lock EXCEPT ![Ds(c)] = c],
         \/ call[c].req.kind = "add" /\ k.pc = "insert"
         \/ call[c].req.kind \in Deletes /\ k.pc \in DeleteSteps
  PROVE  /\ call' \in [Calls -> CallType] /\ CallsOK'
         /\ lock' \in [Datasets -> Calls \cup {None}]
<1>1. call[c].req \in Requests /\ Ds(c) \in Datasets
  BY ActiveType
<1>2. call' \in [Calls -> CallType] /\ call'[c] = k /\ \A e \in Calls \ {c} : call'[e] = call[e]
  BY NowType
<1>3. lock' \in [Datasets -> Calls \cup {None}] /\ \A d \in Datasets : lock[d] # None => lock'[d] = lock[d]
  BY <1>1 DEF TypeOK, Free
<1>4. CallsOK'
  <2> SUFFICES ASSUME NEW e \in Calls PROVE CallOK(e)'
    BY DEF CallsOK
  <2>1. CASE e = c
    <3>1. lock'[Ds(c)] = c
      BY <1>1 DEF TypeOK
    <3> QED BY <2>1, <3>1, <1>1, <1>2 DEF CallOK, AddSteps, CreateSteps, CogSteps, DeleteSteps, Ds, Deletes
  <2>2. CASE e # c
    <3>1. call'[e] = call[e] /\ CallOK(e) /\ e # None
      BY <2>2, <1>2, LifeAssumption DEF CallsOK
    <3>2. call[e].pc \in DeleteSteps \cup {"insert", "grant"} => call[e].req.dataset \in Datasets
      BY <3>1, RequestType DEF CallOK, DeleteSteps
    <3> QED BY <3>1, <3>2, <1>3 DEF CallOK
  <2> QED BY <2>1, <2>2
<1> QED BY <1>2, <1>3, <1>4

LEMMA AddResolveType ==
  ASSUME TypeOK, CallsOK, NEW c \in Calls, AddResolve(c)
  PROVE  TypeOK' /\ CallsOK'
<1>1. call[c] \in CallType /\ call[c].pc = "resolve" /\ Ds(c) \in Datasets /\ call[c].req.kind = "add"
  BY ActiveType DEF TypeOK, AddResolve
<1>2. CASE Ds(c) \in datasets
  <2> DEFINE k == [call[c] EXCEPT !.pc = "get"]
  <2>1. k \in CallType /\ k.req = call[c].req /\ k.pc = "get"
    BY <1>1 DEF CallType, Steps
  <2>2. Now(c, k) /\ UNCHANGED lock
    BY <1>2 DEF AddResolve, Goto
  <2> HIDE DEF k
  <2>3. CallOK(c)'
    BY <1>1, <2>1, <2>2, NowType, ActiveType DEF CallOK, AddSteps, CreateSteps, CogSteps, DeleteSteps
  <2>4. call' \in [Calls -> CallType] /\ CallsOK'
    BY <2>1, <2>2, <2>3, NowType, OthersOK
  <2> QED BY <2>2, <2>4 DEF TypeOK, AddResolve, base, tables
<1>3. CASE Ds(c) \notin datasets
  <2> DEFINE k == [call[c] EXCEPT !.pc = "insert"]
  <2>1. k \in CallType /\ k.req = call[c].req /\ k.pc = "insert"
    BY <1>1 DEF CallType, Steps
  <2>2. /\ Now(c, k) /\ lock' = [lock EXCEPT ![Ds(c)] = c] /\ Free(Ds(c))
    BY <1>3 DEF AddResolve, Goto
  <2> HIDE DEF k
  <2>3. /\ call' \in [Calls -> CallType] /\ CallsOK'
        /\ lock' \in [Datasets -> Calls \cup {None}]
    BY <1>1, <2>1, <2>2, LockType
  <2> QED BY <2>3 DEF TypeOK, AddResolve, base, tables
<1> QED BY <1>2, <1>3 DEF AddResolve

\* A row is made, by the add that holds the lock or by a create.
LEMMA InsertType ==
  ASSUME TypeOK, CallsOK, NEW c \in Calls, NEW next, InsertDataset(c, next),
         \/ call[c].pc = "insert" /\ next = "grant"
         \/ call[c].pc = "make" /\ next = "permit"
  PROVE  TypeOK' /\ CallsOK'
<1> DEFINE k == [call[c] EXCEPT !.pc = next]
<1>1. call[c] \in CallType /\ call[c].pc # "idle" /\ Ds(c) \in Datasets
  BY ActiveType DEF TypeOK
<1>2. k \in CallType /\ k.req = call[c].req /\ k.pc = next
  BY <1>1 DEF CallType, Steps
<1>3. (Now(c, k) /\ UNCHANGED lock) \/ End(c, "failed")
  BY DEF InsertDataset, Goto
<1> HIDE DEF k
<1>4. /\ call' \in [Calls -> CallType] /\ CallsOK'
      /\ lock' \in [Datasets -> Calls \cup {None}]
  <2>1. CASE Now(c, k) /\ UNCHANGED lock
    BY <1>2, <2>1, MoveType DEF CreateSteps, TypeOK
  <2>2. CASE End(c, "failed")
    BY <1>1, <2>2, EndType DEF Over
  <2> QED BY <1>3, <2>1, <2>2
<1>5. datasets' = datasets \cup {Ds(c)}
  BY DEF InsertDataset
<1> QED BY <1>1, <1>4, <1>5 DEF TypeOK, InsertDataset

LEMMA CreateLookupType ==
  ASSUME TypeOK, CallsOK, NEW c \in Calls, CreateLookup(c)
  PROVE  TypeOK' /\ CallsOK'
<1> DEFINE k == [call[c] EXCEPT !.pc = IF Ds(c) \in datasets THEN "permit" ELSE "make"]
<1>1. call[c] \in CallType /\ call[c].pc = "lookup"
  BY DEF TypeOK, CreateLookup
<1>2. k \in CallType /\ k.req = call[c].req /\ k.pc \in CreateSteps
  BY <1>1 DEF CallType, Steps, CreateSteps
<1>3. Now(c, k) /\ UNCHANGED lock
  BY DEF CreateLookup, Goto
<1> HIDE DEF k
<1>4. call' \in [Calls -> CallType] /\ CallsOK'
  BY <1>1, <1>2, <1>3, MoveType DEF CreateSteps
<1> QED BY <1>4 DEF TypeOK, CreateLookup, base, tables

LEMMA CreateGrantType ==
  ASSUME TypeOK, CallsOK, NEW c \in Calls, CreateGrant(c)
  PROVE  TypeOK' /\ CallsOK'
<1>1. call[c].pc # "idle" /\ End(c, "ok") /\ Ds(c) \in Datasets
  BY ActiveType DEF CreateGrant
<1>2. /\ call' \in [Calls -> CallType] /\ lock' \in [Datasets -> Calls \cup {None}] /\ CallsOK'
  BY <1>1, EndType DEF Over
<1> QED BY <1>1, <1>2 DEF TypeOK, CreateGrant

\* The next step of a delete that has resolved its targets.
LEMMA FirstStepType ==
  ASSUME NEW q, NEW whole, NEW some
  PROVE  FirstStep(q, whole, some) \in DeleteSteps
BY DEF FirstStep, FirstCleanup, DeleteSteps

LEMMA ResolveType ==
  ASSUME TypeOK, CallsOK, NEW c \in Calls, Resolve(c)
  PROVE  TypeOK' /\ CallsOK'
<1> DEFINE q == call[c].req
           one == {q.item} \cap data
           whole == q.kind = "dataset" \/ (q.ifEmpty /\ LinkedTo(q.dataset) \subseteq {q.item})
           cut == IF q.kind = "dataset" THEN LinkedTo(q.dataset) ELSE one
           todo == IF q.kind = "dataset" THEN cut ELSE {q.item}
           k == [call[c] EXCEPT !.pc = FirstStep(q, whole, whole \/ cut # {}),
                                !.whole = whole, !.cut = cut, !.todo = todo]
<1>1. /\ call[c] \in CallType /\ call[c].pc = "resolve" /\ Ds(c) \in Datasets
      /\ q.kind \in Deletes /\ q \in Requests /\ (q.kind = "item" => q.item \in Items)
  BY ActiveType, RequestType DEF TypeOK, Resolve
<1>2. cut \in SUBSET Items /\ todo \in SUBSET Items /\ whole \in BOOLEAN
  <2>1. LinkedTo(q.dataset) \in SUBSET Items /\ one \in SUBSET Items /\ (q.kind # "dataset" => {q.item} \in SUBSET Items)
    BY <1>1 DEF LinkedTo, TypeOK, Deletes
  <2>2. whole \in BOOLEAN
    OBVIOUS
  <2> QED BY <2>1, <2>2
<1>3. k \in CallType /\ k.req = q /\ k.pc \in DeleteSteps
  <2>1. FirstStep(q, whole, whole \/ cut # {}) \in DeleteSteps
    BY FirstStepType
  <2>2. DeleteSteps \subseteq Steps
    BY DEF DeleteSteps, Steps
  <2> HIDE DEF whole, cut, todo
  <2> QED BY <1>1, <1>2, <2>1, <2>2 DEF CallType
<1>4. \/ Now(c, k) /\ lock' = [lock EXCEPT ![Ds(c)] = c]
      \/ End(c, "failed")
  BY DEF Resolve, Ds
<1>5. Free(Ds(c))
  BY DEF Resolve, Ds
<1>6. /\ call' \in [Calls -> CallType] /\ CallsOK'
      /\ lock' \in [Datasets -> Calls \cup {None}]
  <2> HIDE DEF k, q
  <2>1. CASE Now(c, k) /\ lock' = [lock EXCEPT ![Ds(c)] = c]
    BY <1>1, <1>3, <1>5, <2>1, LockType DEF q
  <2>2. CASE End(c, "failed")
    BY <1>1, <2>2, EndType DEF Over
  <2> QED BY <1>4, <2>1, <2>2
<1> QED BY <1>6 DEF TypeOK, Resolve, base, tables

LEMMA CogReadType ==
  ASSUME TypeOK, CallsOK, NEW c \in Calls, CogRead(c)
  PROVE  TypeOK' /\ CallsOK'
<1> DEFINE todo == {i \in LinkedTo(Ds(c)) : Ds(c) \notin markers[i]}
           k == [call[c] EXCEPT !.pc = "own", !.todo = todo]
<1>1. call[c] \in CallType /\ call[c].pc = "read"
  BY DEF TypeOK, CogRead
<1>2. k \in CallType /\ k.req = call[c].req /\ k.pc = "own"
  <2>1. todo \in SUBSET Items
    BY DEF LinkedTo
  <2> HIDE DEF todo
  <2> QED BY <1>1, <2>1 DEF CallType, Steps
<1>3. (Now(c, k) /\ UNCHANGED lock) \/ End(c, "failed") \/ End(c, "ok")
  BY DEF CogRead
<1> HIDE DEF k
<1>4. /\ call' \in [Calls -> CallType] /\ CallsOK'
      /\ lock' \in [Datasets -> Calls \cup {None}]
  <2>1. CASE Now(c, k) /\ UNCHANGED lock
    BY <1>1, <1>2, <2>1, MoveType DEF CogSteps, TypeOK
  <2>2. CASE End(c, "failed") \/ End(c, "ok")
    BY <1>1, <2>2, EndType DEF Over
  <2> QED BY <1>3, <2>1, <2>2
<1> QED BY <1>4 DEF TypeOK, CogRead, base, tables

LEMMA CogOwnType ==
  ASSUME TypeOK, CallsOK, NEW c \in Calls, CogOwn(c)
  PROVE  TypeOK' /\ CallsOK'
<1> DEFINE k == [call[c] EXCEPT !.pc = "write"]
<1>1. call[c] \in CallType /\ call[c].pc = "own"
  BY DEF TypeOK, CogOwn
<1>2. k \in CallType /\ k.req = call[c].req /\ k.pc = "write"
  BY <1>1 DEF CallType, Steps
<1>3. (Now(c, k) /\ UNCHANGED lock) \/ End(c, "failed")
  BY DEF CogOwn, Goto
<1> HIDE DEF k
<1>4. /\ call' \in [Calls -> CallType] /\ CallsOK'
      /\ lock' \in [Datasets -> Calls \cup {None}]
  <2>1. CASE Now(c, k) /\ UNCHANGED lock
    BY <1>1, <1>2, <2>1, MoveType DEF CogSteps, TypeOK
  <2>2. CASE End(c, "failed")
    BY <1>1, <2>2, EndType DEF Over
  <2> QED BY <1>3, <2>1, <2>2
<1>5. ledger' \subseteq datasets \X Items \X Slugs
  <2>1. call[c].todo \subseteq Items
    BY <1>1 DEF CallType
  <2>2. ledger \subseteq datasets \X Items \X Slugs
    BY DEF TypeOK
  <2>3. CASE Ds(c) \in datasets
    <3>1. ledger' = ledger \cup {r \in {Ds(c)} \X call[c].todo \X Slugs : r[3] \in Art[r[2]]}
      BY <2>3 DEF CogOwn
    <3> QED BY <2>1, <2>2, <2>3, <3>1
  <2>4. CASE Ds(c) \notin datasets
    BY <2>2, <2>4 DEF CogOwn
  <2> QED BY <2>3, <2>4
<1> QED BY <1>4, <1>5 DEF TypeOK, CogOwn, tables

LEMMA MarkReadType ==
  ASSUME TypeOK, CallsOK, NEW c \in Calls, MarkRead(c)
  PROVE  TypeOK' /\ CallsOK'
<1> DEFINE k(i) == [call[c] EXCEPT !.pc = IF i \in data THEN "marked" ELSE "mark",
                                   !.todo = @ \ {i}, !.open = {i} \cap data,
                                   !.seen = [Idle.seen EXCEPT ![i] = markers[i]]]
<1>1. call[c] \in CallType /\ call[c].pc = "mark"
  BY DEF TypeOK, MarkRead
<1>2. ASSUME NEW i \in call[c].todo PROVE k(i) \in CallType /\ k(i).req = call[c].req /\ k(i).pc \in CogSteps
  <2>1. i \in Items /\ {i} \cap data \in SUBSET Items
    BY <1>1 DEF CallType
  <2>2. [Idle.seen EXCEPT ![i] = markers[i]] \in [Items -> SUBSET Datasets]
    BY <2>1 DEF TypeOK, Idle
  <2> QED BY <1>1, <2>1, <2>2 DEF CallType, Steps, CogSteps
<1>3. (\E i \in call[c].todo : Now(c, k(i)) /\ UNCHANGED lock) \/ End(c, "ok")
  BY DEF MarkRead
<1> HIDE DEF k
<1>4. /\ call' \in [Calls -> CallType] /\ CallsOK'
      /\ lock' \in [Datasets -> Calls \cup {None}]
  <2>1. ASSUME NEW i \in call[c].todo, Now(c, k(i)), UNCHANGED lock
        PROVE  /\ call' \in [Calls -> CallType] /\ CallsOK'
               /\ lock' \in [Datasets -> Calls \cup {None}]
    BY <1>1, <1>2, <2>1, MoveType DEF CogSteps, TypeOK
  <2>2. CASE End(c, "ok")
    BY <1>1, <2>2, EndType DEF Over
  <2> QED BY <1>3, <2>1, <2>2
<1> QED BY <1>4 DEF TypeOK, MarkRead, base, tables

LEMMA ClearWriteType ==
  ASSUME TypeOK, CallsOK, NEW c \in Calls, ClearWrite(c)
  PROVE  TypeOK' /\ CallsOK'
<1> DEFINE k1(i) == [call[c] EXCEPT !.open = @ \ {i}]
           k2 == [call[c] EXCEPT !.pc = FirstCleanup(call[c].whole), !.seen = Idle.seen]
<1>1. call[c] \in CallType /\ call[c].pc = "clearing"
  BY DEF TypeOK, ClearWrite
<1>2. \A i \in Items : k1(i) \in CallType /\ k1(i).req = call[c].req /\ k1(i).pc = "clearing"
  BY <1>1 DEF CallType
<1>3. k2 \in CallType /\ k2.req = call[c].req /\ k2.pc \in DeleteSteps
  BY <1>1 DEF CallType, FirstCleanup, DeleteSteps, Steps, Idle
<1>4. \/ \E i \in Items : Now(c, k1(i)) /\ UNCHANGED lock
      \/ Now(c, k2) /\ UNCHANGED lock
      \/ End(c, "failed") \/ End(c, "ok")
  BY <1>1 DEF ClearWrite, CallType
<1>5. markers' \in [Items -> SUBSET Datasets]
  <2>1. markers \in [Items -> SUBSET Datasets] /\ call[c].seen \in [Items -> SUBSET Datasets]
    BY <1>1 DEF TypeOK, CallType
  <2>2. \/ markers' = markers
        \/ \E i \in call[c].open : markers' = [markers EXCEPT ![i] =
                                        IF i \in data THEN call[c].seen[i] \ {Ds(c)} ELSE @]
    BY DEF ClearWrite
  <2> QED BY <1>1, <2>1, <2>2 DEF CallType
<1> HIDE DEF k1, k2
<1>6. /\ call' \in [Calls -> CallType] /\ CallsOK'
      /\ lock' \in [Datasets -> Calls \cup {None}]
  <2>1. ASSUME NEW i \in Items, Now(c, k1(i)), UNCHANGED lock
        PROVE  /\ call' \in [Calls -> CallType] /\ CallsOK'
               /\ lock' \in [Datasets -> Calls \cup {None}]
    BY <1>1, <1>2, <2>1, MoveType DEF DeleteSteps, TypeOK
  <2>2. CASE Now(c, k2) /\ UNCHANGED lock
    BY <1>1, <1>3, <2>2, MoveType DEF DeleteSteps, TypeOK
  <2>3. CASE End(c, "failed") \/ End(c, "ok")
    BY <1>1, <2>3, EndType DEF Over
  <2> QED BY <1>4, <2>1, <2>2, <2>3
<1> QED BY <1>5, <1>6 DEF TypeOK, ClearWrite, tables

LEMMA CountType ==
  ASSUME TypeOK, CallsOK, NEW c \in Calls, Count(c)
  PROVE  TypeOK' /\ CallsOK'
<1> DEFINE k(i) == [call[c] EXCEPT !.todo = @ \ {i},
                                   !.pc = IF Unlinked(i) THEN "file" ELSE "count",
                                   !.open = IF Unlinked(i) THEN {i} ELSE {}]
<1>1. call[c] \in CallType /\ call[c].pc = "count"
  BY DEF TypeOK, Count
<1>2. \A i \in Items : k(i) \in CallType /\ k(i).req = call[c].req /\ k(i).pc \in DeleteSteps
  BY <1>1 DEF CallType, DeleteSteps, Steps
<1>3. (\E i \in Items : Now(c, k(i)) /\ UNCHANGED lock) \/ End(c, "ok")
  BY <1>1 DEF Count, CallType
<1> HIDE DEF k
<1>4. /\ call' \in [Calls -> CallType] /\ CallsOK'
      /\ lock' \in [Datasets -> Calls \cup {None}]
  <2>1. ASSUME NEW i \in Items, Now(c, k(i)), UNCHANGED lock
        PROVE  /\ call' \in [Calls -> CallType] /\ CallsOK'
               /\ lock' \in [Datasets -> Calls \cup {None}]
    BY <1>1, <1>2, <2>1, MoveType DEF DeleteSteps, TypeOK
  <2>2. CASE End(c, "ok")
    BY <1>1, <2>2, EndType DEF Over
  <2> QED BY <1>3, <2>1, <2>2
<1> QED BY <1>4 DEF TypeOK, Count, base, tables

LEMMA CutOffShrinks ==
  ASSUME NEW cs, CutOff(cs)
  PROVE  store' \subseteq store /\ links' \subseteq links
BY DEF CutOff

LEMMA FailType ==
  ASSUME TypeOK, CallsOK, NEW c \in Calls, Fail(c)
  PROVE  TypeOK' /\ CallsOK'
<1>1. call[c].pc # "idle" /\ End(c, "failed") /\ faults' \in Nat
  BY DEF Fail, Active, Steps, TypeOK
<1>2. store' \subseteq store /\ links' \subseteq links
  BY CutOffShrinks DEF Fail
<1>3. /\ call' \in [Calls -> CallType] /\ lock' \in [Datasets -> Calls \cup {None}] /\ CallsOK'
  BY <1>1, EndType DEF Over
<1> QED BY <1>1, <1>2, <1>3 DEF TypeOK, Fail

LEMMA CrashType ==
  ASSUME TypeOK, CallsOK, Crash
  PROVE  TypeOK' /\ CallsOK'
<1> DEFINE k(c) == Ended(c, "dead")
<1>1. \A c \in Calls : k(c) \in CallType /\ k(c).pc = "dead" /\ k(c).req = call[c].req
  BY DEF TypeOK, CallType, Ended, Idle, Over
<1>2. call' = [c \in Calls |-> IF Active(c) THEN k(c) ELSE call[c]]
  BY DEF Crash
<1> HIDE DEF k
<1>3. call' \in [Calls -> CallType]
  BY <1>1, <1>2 DEF TypeOK
<1>4. CallsOK'
  <2> SUFFICES ASSUME NEW c \in Calls PROVE CallOK(c)'
    BY DEF CallsOK
  <2>1. CASE Active(c)
    BY <1>1, <1>2, <2>1 DEF CallsOK, CallOK, Active, Steps, AddSteps, CreateSteps, CogSteps, DeleteSteps
  <2>2. CASE ~Active(c)
    BY <1>2, <2>2 DEF CallsOK, CallOK, Active, Steps, AddSteps, CreateSteps, CogSteps, DeleteSteps
  <2> QED BY <2>1, <2>2
<1>5. lock' \in [Datasets -> Calls \cup {None}]
  BY DEF Crash
<1>6. faults' \in Nat
  <2>1. faults' = faults + 1
    BY DEF Crash
  <2>2. faults \in Nat
    BY DEF TypeOK
  <2> QED BY <2>1, <2>2
<1>7. store' \subseteq store /\ links' \subseteq links
  BY CutOffShrinks DEF Crash
<1> QED BY <1>3, <1>4, <1>5, <1>6, <1>7 DEF TypeOK, Crash

LEMMA NextType == TypeOK /\ CallsOK /\ [Next]_vars => TypeOK' /\ CallsOK'
<1> SUFFICES ASSUME TypeOK, CallsOK, [Next]_vars PROVE TypeOK' /\ CallsOK'
  OBVIOUS
<1>1. ASSUME NEW c \in Calls, Step(c) PROVE TypeOK' /\ CallsOK'
  BY <1>1, BeginType, AddResolveType, InsertType, CreateLookupType, CreateGrantType, AddGrantType, AddGetType, AddAttachType, CogReadType,
     CogOwnType, CogWriteType, MarkReadType, MarkWriteType, ResolveType, ClearReadType,
     ClearWriteType, SelectDatasetType, SelectItemType, WipeType, UnledgerType, DetachType,
     DropDatasetType, CountType, DeleteFileType, DeleteDataType, FailType
     DEF Step, AddInsert, CreateInsert
<1>2. ASSUME UNCHANGED vars PROVE TypeOK' /\ CallsOK'
  BY <1>2 DEF vars, base, tables, TypeOK, CallsOK, CallOK
<1> QED BY <1>1, <1>2, CrashType DEF Next, Quiescent

\* Every variable stays in its type, and the database's foreign keys hold, whatever
\* the interleaving of adds, runs, deletes, failures and crashes.
THEOREM TypeSafety == Spec => []TypeOK
<1>1. Init => TypeOK /\ CallsOK
  BY InitType
<1>2. TypeOK /\ CallsOK /\ [Next]_vars => (TypeOK /\ CallsOK)'
  BY NextType
<1> QED BY <1>1, <1>2, PTL DEF Spec

-----------------------------------------------------------------------------
(* Overlaps.                                                               *)

LEMMA NextWatched == Watched /\ [Next]_vars => Watched' /\ overlaps \subseteq overlaps'
<1> SUFFICES ASSUME Watched, [Next]_vars PROVE Watched' /\ overlaps \subseteq overlaps'
  OBVIOUS
<1>1. CASE Watch
  BY <1>1 DEF Watch, Watched
<1>2. CASE UNCHANGED vars
  BY <1>2 DEF vars, base, tables, Watched, Overlapping, Deleters, Cognifiers, Creators, Adders, Markers,
              Active, Ds, It
<1>3. ASSUME NEW c \in Calls, Step(c) PROVE Watch
  BY <1>3 DEF Step, Begin, CreateLookup, CreateInsert, CreateGrant, InsertDataset, AddResolve, AddInsert, AddGrant, AddGet, AddAttach, CogRead, CogOwn, CogWrite,
     MarkRead, MarkWrite, Resolve, ClearRead, ClearWrite, SelectDataset, SelectItem, Wipe,
     Unledger, Detach, DropDataset, Count, DeleteFile, DeleteData, Fail
<1>4. Crash => Watch
  BY DEF Crash
<1> QED BY <1>1, <1>2, <1>3, <1>4 DEF Next, Quiescent

LEMMA InitWatched == Init => Watched
<1> SUFFICES ASSUME Init PROVE Overlapping = {}
  BY DEF Watched
<1>1. \A c \in Calls : call[c].pc = "idle"
  BY DEF Init, Idle
<1>2. Deleters = {} /\ Adders = {} /\ Markers = {}
  BY <1>1 DEF Deleters, Adders, Markers, Active, Steps
<1> QED BY <1>2 DEF Overlapping

\* Whoever deletes is on the list of deleters, and so on.
LEMMA Roles ==
  ASSUME TypeOK, CallsOK, NEW c \in Calls
  PROVE  /\ call[c].pc \in DeleteSteps => c \in Deleters
         /\ call[c].pc \in AddSteps => c \in Adders
         /\ call[c].pc \in CogSteps \ {"read"} => c \in Cognifiers
BY DEF CallsOK, CallOK, Deleters, Adders, Cognifiers, Active, AddSteps, CreateSteps, CogSteps, DeleteSteps,
       Steps, Ds

LEMMA MetAdd ==
  ASSUME Watched, NEW b \in Deleters, NEW c \in Adders, It(c) \in call[b].todo \cup call[b].open
  PROVE  <<"add", It(c)>> \in overlaps
BY DEF Watched, Overlapping

LEMMA MetRun ==
  ASSUME Watched, NEW b \in Deleters, NEW c \in Cognifiers, Ds(c) = Ds(b)
  PROVE  Met(Ds(b))
BY DEF Watched, Overlapping, Met

\* A step is one call's: the others stay as they are, and it keeps its request.
LEMMA StepShape ==
  ASSUME TypeOK, NEW c \in Calls, Step(c)
  PROVE  /\ \A e \in Calls \ {c} : call'[e] = call[e]
         /\ \/ \E q \in Requests : Begin(c, q)
            \/ call[c].pc \in Steps /\ call'[c].req = call[c].req
<1> DEFINE Same == /\ \A e \in Calls \ {c} : call'[e] = call[e]
                   /\ call[c].pc \in Steps /\ call'[c].req = call[c].req
<1>0. call \in [Calls -> CallType] /\ call[c] \in CallType
  BY DEF TypeOK
<1>1. ASSUME NEW q \in Requests, Begin(c, q) PROVE \A e \in Calls \ {c} : call'[e] = call[e]
  BY <1>0, <1>1 DEF Begin, Now
<1>2. ASSUME NEW k \in CallType, Now(c, k), k.req = call[c].req, call[c].pc \in Steps PROVE Same
  BY <1>0, <1>2 DEF Now
<1>3. ASSUME NEW how, End(c, how), call[c].pc \in Steps PROVE Same
  BY <1>0, <1>3 DEF End, Ended, Now, Idle
<1>4. ASSUME AddResolve(c) PROVE Same
  BY <1>0, <1>3, <1>4 DEF AddResolve, Now, Goto, CallType, Steps
<1>26. ASSUME NEW next, InsertDataset(c, next), call[c].pc \in Steps PROVE Same
  BY <1>0, <1>3, <1>26 DEF InsertDataset, Now, Goto, CallType
<1>27. ASSUME AddInsert(c) \/ CreateInsert(c) PROVE Same
  BY <1>26, <1>27 DEF AddInsert, CreateInsert, Steps
<1>28. ASSUME CreateLookup(c) PROVE Same
  BY <1>0, <1>28 DEF CreateLookup, Now, Goto, CallType, Steps
<1>29. ASSUME CreateGrant(c) PROVE Same
  BY <1>3, <1>29 DEF CreateGrant, Steps
<1>5. ASSUME AddGrant(c) PROVE Same
  BY <1>0, <1>3, <1>5 DEF AddGrant, Now, Goto, CallType, Steps
<1>6. ASSUME AddGet(c) PROVE Same
  BY <1>0, <1>3, <1>6 DEF AddGet, Now, Goto, CallType, Steps
<1>7. ASSUME AddAttach(c) PROVE Same
  BY <1>0, <1>3, <1>7 DEF AddAttach, Now, Goto, CallType, Steps
<1>8. ASSUME CogRead(c) PROVE Same
  <2> DEFINE k == [call[c] EXCEPT !.pc = "own",
                                 !.todo = {i \in LinkedTo(Ds(c)) : Ds(c) \notin markers[i]}]
  <2>1. k.req = call[c].req /\ call[c].pc \in Steps
    BY <1>0, <1>8 DEF CallType, CogRead, Steps
  <2> HIDE DEF k
  <2>2. ASSUME Now(c, k) PROVE Same
    BY <1>0, <2>1, <2>2 DEF Now
  <2>3. ASSUME NEW how, End(c, how) PROVE Same
    BY <1>3, <1>8, <2>3 DEF CogRead, Steps
  <2> QED BY <1>8, <2>2, <2>3 DEF CogRead, k
<1>9. ASSUME CogOwn(c) PROVE Same
  BY <1>0, <1>3, <1>9 DEF CogOwn, Now, Goto, CallType, Steps
<1>10. ASSUME CogWrite(c) PROVE Same
  BY <1>0, <1>3, <1>10 DEF CogWrite, Now, Goto, CallType, Steps
<1>11. ASSUME MarkRead(c) PROVE Same
  <2> DEFINE k(i) == [call[c] EXCEPT !.pc = IF i \in data THEN "marked" ELSE "mark",
                                     !.todo = @ \ {i}, !.open = {i} \cap data,
                                     !.seen = [Idle.seen EXCEPT ![i] = markers[i]]]
  <2>1. (\A i : k(i).req = call[c].req) /\ call[c].pc \in Steps
    BY <1>0, <1>11 DEF CallType, MarkRead, Steps
  <2> HIDE DEF k
  <2>2. ASSUME NEW i, Now(c, k(i)) PROVE Same
    BY <1>0, <2>1, <2>2 DEF Now
  <2>3. ASSUME NEW how, End(c, how) PROVE Same
    BY <1>3, <1>11, <2>3 DEF MarkRead, Steps
  <2> QED BY <1>11, <2>2, <2>3 DEF MarkRead, k
<1>12. ASSUME MarkWrite(c) PROVE Same
  BY <1>0, <1>3, <1>12 DEF MarkWrite, Now, Goto, CallType, Steps
<1>13. ASSUME Resolve(c) PROVE Same
  <2> DEFINE k(pc, w, x, y) == [call[c] EXCEPT !.pc = pc, !.whole = w, !.cut = x, !.todo = y]
  <2>1. (\A pc, w, x, y : k(pc, w, x, y).req = call[c].req) /\ call[c].pc \in Steps
    BY <1>0, <1>13 DEF CallType, Resolve, Steps
  <2> HIDE DEF k
  <2>2. ASSUME NEW pc, NEW w, NEW x, NEW y, Now(c, k(pc, w, x, y)) PROVE Same
    BY <1>0, <2>1, <2>2 DEF Now
  <2>3. ASSUME NEW how, End(c, how) PROVE Same
    BY <1>3, <1>13, <2>3 DEF Resolve, Steps
  <2> QED BY <1>13, <2>2, <2>3 DEF Resolve, k
<1>14. ASSUME ClearRead(c) PROVE Same
  BY <1>0, <1>3, <1>14 DEF ClearRead, Now, Goto, CallType, Steps
<1>15. ASSUME ClearWrite(c) PROVE Same
  <2> DEFINE k1(i) == [call[c] EXCEPT !.open = @ \ {i}]
             k2 == [call[c] EXCEPT !.pc = FirstCleanup(call[c].whole), !.seen = Idle.seen]
  <2>1. (\A i : k1(i).req = call[c].req) /\ k2.req = call[c].req /\ call[c].pc \in Steps
    BY <1>0, <1>15 DEF CallType, ClearWrite, Steps
  <2> HIDE DEF k1, k2
  <2>2. ASSUME NEW i, Now(c, k1(i)) \/ Now(c, k2) PROVE Same
    BY <1>0, <2>1, <2>2 DEF Now
  <2>3. ASSUME NEW how, End(c, how) PROVE Same
    BY <1>3, <1>15, <2>3 DEF ClearWrite, Steps
  <2> QED BY <1>15, <2>2, <2>3 DEF ClearWrite, k1, k2
<1>16. ASSUME SelectDataset(c) PROVE Same
  BY <1>0, <1>3, <1>16 DEF SelectDataset, Now, Goto, CallType, Steps
<1>17. ASSUME SelectItem(c) PROVE Same
  BY <1>0, <1>3, <1>17 DEF SelectItem, Now, Goto, CallType, Steps
<1>18. ASSUME Wipe(c) PROVE Same
  BY <1>0, <1>3, <1>18 DEF Wipe, Now, Goto, CallType, Steps
<1>19. ASSUME Unledger(c) PROVE Same
  BY <1>0, <1>3, <1>19 DEF Unledger, Now, Goto, CallType, Steps
<1>20. ASSUME Detach(c) PROVE Same
  BY <1>0, <1>3, <1>20 DEF Detach, Now, Goto, CallType, Steps
<1>21. ASSUME DropDataset(c) PROVE Same
  BY <1>0, <1>3, <1>21 DEF DropDataset, Now, Goto, CallType, Steps
<1>22. ASSUME Count(c) PROVE Same
  <2> DEFINE k(i) == [call[c] EXCEPT !.todo = @ \ {i},
                                     !.pc = IF Unlinked(i) THEN "file" ELSE "count",
                                     !.open = IF Unlinked(i) THEN {i} ELSE {}]
  <2>1. (\A i : k(i).req = call[c].req) /\ call[c].pc \in Steps
    BY <1>0, <1>22 DEF CallType, Count, Steps
  <2> HIDE DEF k
  <2>2. ASSUME NEW i, Now(c, k(i)) PROVE Same
    BY <1>0, <2>1, <2>2 DEF Now
  <2>3. ASSUME NEW how, End(c, how) PROVE Same
    BY <1>3, <1>22, <2>3 DEF Count, Steps
  <2> QED BY <1>22, <2>2, <2>3 DEF Count, k
<1>23. ASSUME DeleteFile(c) PROVE Same
  BY <1>0, <1>3, <1>23 DEF DeleteFile, Now, Goto, CallType, Steps
<1>24. ASSUME DeleteData(c) PROVE Same
  BY <1>0, <1>3, <1>24 DEF DeleteData, Now, Goto, CallType, Steps
<1>25. ASSUME Fail(c) PROVE Same
  BY <1>0, <1>3, <1>25 DEF Fail, Active
<1> QED BY <1>1, <1>4, <1>5, <1>6, <1>7, <1>8, <1>9, <1>10, <1>11, <1>12, <1>13, <1>14, <1>15, <1>16, <1>17, <1>18, <1>19, <1>20, <1>21, <1>22, <1>23, <1>24, <1>25, <1>27, <1>28, <1>29 DEF Step

\* Where a step takes its call, and what it keeps of it.
Keeps(c, pcs) ==
  /\ call'[c].pc \in pcs
  /\ call'[c].whole = call[c].whole /\ call'[c].cut = call[c].cut
  /\ call'[c].part = call[c].part /\ call'[c].doomed = call[c].doomed

LEMMA EndPc ==
  ASSUME TypeOK, NEW c \in Calls, NEW how, End(c, how)
  PROVE  /\ call'[c].pc = how
         /\ call'[c].open = IF call[c].pc = "row" THEN call[c].open ELSE {}
BY DEF TypeOK, End, Ended, Now, Idle

LEMMA InsertPc ==
  ASSUME TypeOK, NEW c \in Calls, NEW next, InsertDataset(c, next)
  PROVE  \/ Ds(c) \in datasets /\ call'[c].pc = "failed"
         \/ Ds(c) \notin datasets /\ call'[c].pc = next
<1>1. Goto(c, next) => call'[c].pc = next
  BY DEF TypeOK, Goto, Now, CallType
<1> QED BY <1>1, EndPc DEF InsertDataset

LEMMA MovePc ==
  ASSUME TypeOK, NEW c \in Calls
  PROVE  /\ \A q : Begin(c, q) => /\ call'[c].pc \in {"read", "lookup", "resolve"} /\ call'[c].req = q
         /\ AddResolve(c) => call'[c].pc = IF Ds(c) \in datasets THEN "get" ELSE "insert"
         /\ CreateLookup(c) => call'[c].pc = IF Ds(c) \in datasets THEN "permit" ELSE "make"
         /\ AddGrant(c) => call'[c].pc = "get"
         /\ AddGet(c) => call'[c].pc = "attach"
         /\ CogWrite(c) => call'[c].pc = "mark"
         /\ MarkWrite(c) => call'[c].pc = "mark"
         /\ ClearRead(c) => Keeps(c, {"clearing"})
         /\ Wipe(c) => Keeps(c, {"unledger"})
         /\ Detach(c) => Keeps(c, {IF call[c].whole THEN "drop" ELSE "count"})
         /\ DropDataset(c) => Keeps(c, {"count"})
         /\ DeleteFile(c) => Keeps(c, {"row"}) /\ call'[c].open = call[c].open
         /\ DeleteData(c) => Keeps(c, {"count"})
         /\ Unledger(c) => Keeps(c, {IF call[c].part = "dataset" THEN AfterDataset(c)
                                                                ELSE AfterCleanup(c)})
<1>0. call \in [Calls -> CallType] /\ call[c] \in CallType
  BY DEF TypeOK
<1>1. ASSUME NEW q, Begin(c, q) PROVE call'[c].pc \in {"read", "lookup", "resolve"} /\ call'[c].req = q
  BY <1>0, <1>1 DEF Begin, FirstOf, Now, Idle
<1>14. ASSUME CreateLookup(c) PROVE call'[c].pc = IF Ds(c) \in datasets THEN "permit" ELSE "make"
  BY <1>0, <1>14 DEF CreateLookup, Now, Goto, CallType
<1>2. ASSUME AddResolve(c) PROVE call'[c].pc = IF Ds(c) \in datasets THEN "get" ELSE "insert"
  BY <1>0, <1>2 DEF AddResolve, Now, Goto, CallType, Keeps
<1>3. ASSUME AddGrant(c) PROVE call'[c].pc = "get"
  BY <1>0, <1>3 DEF AddGrant, Now, Goto, CallType, Keeps
<1>4. ASSUME AddGet(c) PROVE call'[c].pc = "attach"
  BY <1>0, <1>4 DEF AddGet, Now, Goto, CallType, Keeps
<1>5. ASSUME CogWrite(c) PROVE call'[c].pc = "mark"
  BY <1>0, <1>5 DEF CogWrite, Now, Goto, CallType, Keeps
<1>6. ASSUME MarkWrite(c) PROVE call'[c].pc = "mark"
  BY <1>0, <1>6 DEF MarkWrite, Now, Goto, CallType, Keeps
<1>7. ASSUME ClearRead(c) PROVE Keeps(c, {"clearing"})
  BY <1>0, <1>7 DEF ClearRead, Now, Goto, CallType, Keeps
<1>8. ASSUME Wipe(c) PROVE Keeps(c, {"unledger"})
  BY <1>0, <1>8 DEF Wipe, Now, Goto, CallType, Keeps
<1>9. ASSUME Detach(c) PROVE Keeps(c, {IF call[c].whole THEN "drop" ELSE "count"})
  BY <1>0, <1>9 DEF Detach, Now, Goto, CallType, Keeps
<1>10. ASSUME DropDataset(c) PROVE Keeps(c, {"count"})
  BY <1>0, <1>10 DEF DropDataset, Now, Goto, CallType, Keeps
<1>11. ASSUME DeleteFile(c) PROVE Keeps(c, {"row"}) /\ call'[c].open = call[c].open
  BY <1>0, <1>11 DEF DeleteFile, Now, Goto, CallType, Keeps
<1>12. ASSUME DeleteData(c) PROVE Keeps(c, {"count"})
  BY <1>0, <1>12 DEF DeleteData, Now, Goto, CallType, Keeps
<1>13. ASSUME Unledger(c) PROVE Keeps(c, {IF call[c].part = "dataset" THEN AfterDataset(c)
                                                                ELSE AfterCleanup(c)})
  BY <1>0, <1>13 DEF Unledger, Now, Goto, CallType, Keeps
<1> QED BY <1>1, <1>2, <1>3, <1>4, <1>5, <1>6, <1>7, <1>8, <1>9, <1>10, <1>11, <1>12, <1>13, <1>14

LEMMA MixedPc ==
  ASSUME TypeOK, NEW c \in Calls
  PROVE  /\ AddAttach(c) => call'[c].pc \in Over
         /\ CreateGrant(c) => call'[c].pc = "ok"
         /\ Fail(c) => call'[c].pc = "failed"
         /\ CogRead(c) => call'[c].pc \in {"own"} \cup Over
         /\ CogOwn(c) => call'[c].pc \in Over \/ (call'[c].pc = "write" /\ call'[c].todo = call[c].todo)
         /\ MarkRead(c) => call'[c].pc \in {"mark", "marked"} \cup Over
<1>0. call \in [Calls -> CallType] /\ call[c] \in CallType
  BY DEF TypeOK
<1>1. ASSUME AddAttach(c) PROVE call'[c].pc \in Over
  BY <1>1, EndPc DEF AddAttach, Over
<1>6. ASSUME CreateGrant(c) PROVE call'[c].pc = "ok"
  BY <1>6, EndPc DEF CreateGrant
<1>2. ASSUME Fail(c) PROVE call'[c].pc = "failed"
  BY <1>2, EndPc DEF Fail
<1>3. ASSUME CogRead(c) PROVE call'[c].pc \in {"own"} \cup Over
  <2> DEFINE k == [call[c] EXCEPT !.pc = "own",
                                 !.todo = {i \in LinkedTo(Ds(c)) : Ds(c) \notin markers[i]}]
  <2>1. k.pc = "own"
    BY <1>0 DEF CallType
  <2>2. Now(c, k) \/ End(c, "failed") \/ End(c, "ok")
    BY <1>3 DEF CogRead
  <2> HIDE DEF k
  <2> QED BY <1>0, <2>1, <2>2, EndPc DEF Now, Over
<1>4. ASSUME CogOwn(c) PROVE call'[c].pc \in Over \/ (call'[c].pc = "write" /\ call'[c].todo = call[c].todo)
  <2> DEFINE k == [call[c] EXCEPT !.pc = "write"]
  <2>1. k.pc = "write" /\ k.todo = call[c].todo
    BY <1>0 DEF CallType
  <2>2. Now(c, k) \/ End(c, "failed")
    BY <1>4 DEF CogOwn, Goto
  <2> HIDE DEF k
  <2> QED BY <1>0, <2>1, <2>2, EndPc DEF Now, Over
<1>5. ASSUME MarkRead(c) PROVE call'[c].pc \in {"mark", "marked"} \cup Over
  <2> DEFINE k(i) == [call[c] EXCEPT !.pc = IF i \in data THEN "marked" ELSE "mark",
                                     !.todo = @ \ {i}, !.open = {i} \cap data,
                                     !.seen = [Idle.seen EXCEPT ![i] = markers[i]]]
  <2>1. \A i : k(i).pc \in {"mark", "marked"}
    BY <1>0 DEF CallType
  <2>2. (\E i : Now(c, k(i))) \/ End(c, "ok")
    BY <1>5 DEF MarkRead
  <2> HIDE DEF k
  <2> QED BY <1>0, <2>1, <2>2, EndPc DEF Now, Over
<1> QED BY <1>1, <1>2, <1>3, <1>4, <1>5, <1>6

LEMMA MixedDelete ==
  ASSUME TypeOK, NEW c \in Calls
  PROVE  /\ ClearWrite(c) => \/ call'[c].pc \in Over
                             \/ Keeps(c, {"clearing", FirstCleanup(call[c].whole)})
         /\ Count(c) => \/ call'[c].pc \in Over
                        \/ Keeps(c, {"count"})
                        \/ \E i \in call[c].todo : /\ Keeps(c, {"file"}) /\ Unlinked(i)
                                                   /\ call'[c].open = {i}
<1>0. call \in [Calls -> CallType] /\ call[c] \in CallType
  BY DEF TypeOK
<1>1. ASSUME ClearWrite(c) PROVE \/ call'[c].pc \in Over
                                \/ Keeps(c, {"clearing", FirstCleanup(call[c].whole)})
  <2> DEFINE k1(i) == [call[c] EXCEPT !.open = @ \ {i}]
             k2 == [call[c] EXCEPT !.pc = FirstCleanup(call[c].whole), !.seen = Idle.seen]
             Alike(k, pc) == /\ k.pc = pc /\ k.whole = call[c].whole /\ k.cut = call[c].cut
                             /\ k.part = call[c].part /\ k.doomed = call[c].doomed
  <2>1. (\A i : Alike(k1(i), "clearing")) /\ Alike(k2, FirstCleanup(call[c].whole))
    BY <1>0, <1>1 DEF CallType, ClearWrite
  <2>2. (\E i : Now(c, k1(i))) \/ Now(c, k2) \/ End(c, "failed") \/ End(c, "ok")
    BY <1>1 DEF ClearWrite
  <2> HIDE DEF k1, k2
  <2> QED BY <1>0, <2>1, <2>2, EndPc DEF Now, Over, Keeps
<1>2. ASSUME Count(c) PROVE \/ call'[c].pc \in Over
                           \/ Keeps(c, {"count"})
                           \/ \E i \in call[c].todo : /\ Keeps(c, {"file"}) /\ Unlinked(i)
                                                      /\ call'[c].open = {i}
  <2> DEFINE k(i) == [call[c] EXCEPT !.todo = @ \ {i},
                                     !.pc = IF Unlinked(i) THEN "file" ELSE "count",
                                     !.open = IF Unlinked(i) THEN {i} ELSE {}]
             Alike(x) == /\ x.whole = call[c].whole /\ x.cut = call[c].cut
                         /\ x.part = call[c].part /\ x.doomed = call[c].doomed
  <2>1. \A i : /\ Alike(k(i))
               /\ Unlinked(i) => k(i).pc = "file" /\ k(i).open = {i}
               /\ ~Unlinked(i) => k(i).pc = "count"
    BY <1>0 DEF CallType
  <2>2. (\E i \in call[c].todo : Now(c, k(i))) \/ End(c, "ok")
    BY <1>2 DEF Count
  <2> HIDE DEF k
  <2>3. ASSUME NEW i \in call[c].todo, Now(c, k(i))
        PROVE  Keeps(c, {"count"}) \/ (Keeps(c, {"file"}) /\ Unlinked(i) /\ call'[c].open = {i})
    BY <1>0, <2>1, <2>3 DEF Now, Keeps
  <2> QED BY <2>2, <2>3, EndPc DEF Over
<1> QED BY <1>1, <1>2

-----------------------------------------------------------------------------
(* Linked items have their files.                                          *)

LEMMA InitFiles == Init => FilesInv
<1> SUFFICES ASSUME Init PROVE FilesInv
  OBVIOUS
<1>1. \A c \in Calls : call[c].pc = "idle"
  BY DEF Init, Idle
<1> QED BY <1>1 DEF FilesInv, Init

\* A link joins a row, and a row has its file or a delete that is or was at it.
LEMMA FilesSuffice ==
  ASSUME TypeOK, FilesInv
  PROVE  LinkedHasFile
<1> SUFFICES ASSUME NEW l \in links
             PROVE  l[2] \in files \/ HalfGone(l[2]) \/ <<"add", l[2]>> \in overlaps
  BY DEF LinkedHasFile
<1>1. l[2] \in data /\ l[1] \in Datasets /\ l = <<l[1], l[2]>>
  BY DEF TypeOK
<1>2. ~Unlinked(l[2])
  BY <1>1 DEF Unlinked
<1>3. CASE \E c \in Calls : Undone(c, l[2])
  BY <1>2, <1>3 DEF FilesInv, Undone, HalfGone
<1> QED BY <1>1, <1>3 DEF FilesInv

\* Steps that neither link nor unfile, and put nothing up for removal.
LEMMA FilesFrame ==
  ASSUME TypeOK, FilesInv, NEW c \in Calls, \A e \in Calls \ {c} : call'[e] = call[e],
         overlaps \subseteq overlaps', files' = files, links' \subseteq links, data' \subseteq data,
         \A i \in data' : ~Undone(c, i) \/ Undone(c, i)',
         call'[c].pc \in {"file", "row"} => \A i \in call'[c].open : Unlinked(i) \/ <<"add", i>> \in overlaps
  PROVE  FilesInv'
<1>1. ASSUME NEW i \in data' PROVE (i \in files \/ \E e \in Calls : Undone(e, i))'
  <2>1. i \in files \/ \E e \in Calls : Undone(e, i)
    BY DEF FilesInv
  <2>2. ASSUME NEW e \in Calls, Undone(e, i) PROVE Undone(e, i)'
    BY <2>2 DEF Undone
  <2> QED BY <2>1, <2>2
<1>2. ASSUME NEW e \in Calls, call'[e].pc \in {"file", "row"}, NEW i \in call'[e].open
      PROVE  (Unlinked(i) \/ <<"add", i>> \in overlaps)'
  <2>1. Unlinked(i) \/ <<"add", i>> \in overlaps
    BY <1>2 DEF FilesInv
  <2> QED BY <2>1 DEF Unlinked
<1> QED BY <1>1, <1>2 DEF FilesInv

LEMMA BeginFiles ==
  ASSUME TypeOK, FilesInv, NEW c \in Calls, NEW q \in Requests, Begin(c, q),
         \A e \in Calls \ {c} : call'[e] = call[e], overlaps \subseteq overlaps'
  PROVE  FilesInv'
<1>1. /\ call'[c].pc \in {"read", "lookup", "resolve"} /\ call[c].pc = "idle"
      /\ files' = files /\ data' = data /\ links' = links
  BY MovePc DEF Begin, base, tables
<1>2. \A i \in data' : ~Undone(c, i)
  BY <1>1 DEF Undone
<1> QED BY <1>1, <1>2, FilesFrame

\* A new row names a file that is there.
LEMMA GetFiles ==
  ASSUME TypeOK, FilesInv, NEW c \in Calls, AddGet(c),
         \A e \in Calls \ {c} : call'[e] = call[e], overlaps \subseteq overlaps'
  PROVE  FilesInv'
<1>1. /\ call[c].pc = "get" /\ call'[c].pc = "attach" /\ links' = links
      /\ data' = data \cup {It(c)} /\ files' = files \cup ({It(c)} \ data)
  BY MovePc DEF AddGet
<1>2. ASSUME NEW i \in data' PROVE (i \in files \/ \E e \in Calls : Undone(e, i))'
  <2>1. CASE i \notin data
    BY <1>1, <2>1
  <2>2. CASE i \in data
    <3>1. i \in files \/ \E e \in Calls : Undone(e, i)
      BY <2>2 DEF FilesInv
    <3>2. ASSUME NEW e \in Calls, Undone(e, i) PROVE Undone(e, i)'
      BY <1>1, <3>2 DEF Undone
    <3> QED BY <1>1, <3>1, <3>2
  <2> QED BY <2>1, <2>2
<1>3. ASSUME NEW e \in Calls, call'[e].pc \in {"file", "row"}, NEW i \in call'[e].open
      PROVE  (Unlinked(i) \/ <<"add", i>> \in overlaps)'
  <2>1. Unlinked(i) \/ <<"add", i>> \in overlaps
    BY <1>1, <1>3 DEF FilesInv
  <2> QED BY <1>1, <2>1 DEF Unlinked
<1> QED BY <1>2, <1>3 DEF FilesInv

\* A new link is of an item no delete is after, or has met one.
LEMMA AttachFiles ==
  ASSUME TypeOK, CallsOK, Watched, FilesInv, NEW c \in Calls, AddAttach(c),
         \A e \in Calls \ {c} : call'[e] = call[e], overlaps \subseteq overlaps'
  PROVE  FilesInv'
<1>1. /\ call[c].pc = "attach" /\ call'[c].pc \in Over
      /\ files' = files /\ data' = data /\ links' \subseteq links \cup {<<Ds(c), It(c)>>}
  BY MixedPc DEF AddAttach
<1>2. c \in Adders
  BY <1>1, Roles DEF AddSteps
<1>3. ASSUME NEW i \in data' PROVE (i \in files \/ \E e \in Calls : Undone(e, i))'
  <2>1. i \in files \/ \E e \in Calls : Undone(e, i)
    BY <1>1 DEF FilesInv
  <2>2. ASSUME NEW e \in Calls, Undone(e, i) PROVE Undone(e, i)'
    BY <1>1, <2>2 DEF Undone
  <2> QED BY <1>1, <2>1, <2>2
<1>4. ASSUME NEW e \in Calls, call'[e].pc \in {"file", "row"}, NEW i \in call'[e].open
      PROVE  (Unlinked(i) \/ <<"add", i>> \in overlaps)'
  <2>1. e # c /\ call'[e] = call[e]
    BY <1>1, <1>4 DEF Over
  <2>2. CASE i = It(c)
    <3>1. e \in Deleters
      BY <1>4, <2>1, Roles DEF DeleteSteps
    <3> QED BY <1>2, <1>4, <2>1, <2>2, <3>1, MetAdd
  <2>3. CASE i # It(c)
    <3>1. Unlinked(i) \/ <<"add", i>> \in overlaps
      BY <1>4, <2>1 DEF FilesInv
    <3>2. \A d \in Datasets : <<d, i>> \in links' => <<d, i>> \in links
      BY <1>1, <2>3
    <3> QED BY <3>1, <3>2 DEF Unlinked
  <2> QED BY <2>2, <2>3
<1> QED BY <1>3, <1>4 DEF FilesInv

\* A file goes when the call is about to remove the row.
LEMMA UnfileFiles ==
  ASSUME TypeOK, FilesInv, NEW c \in Calls, DeleteFile(c),
         \A e \in Calls \ {c} : call'[e] = call[e], overlaps \subseteq overlaps'
  PROVE  FilesInv'
<1>1. /\ call[c].pc = "file" /\ call'[c].pc = "row" /\ call'[c].open = call[c].open
      /\ files' = files \ (call[c].open \cap data) /\ data' = data /\ links' = links
  BY MovePc DEF DeleteFile, Keeps, tables
<1>2. ASSUME NEW i \in data' PROVE (i \in files \/ \E e \in Calls : Undone(e, i))'
  <2>1. CASE i \in call[c].open
    BY <1>1, <2>1 DEF Undone
  <2>2. CASE i \notin call[c].open
    <3>1. i \in files \/ \E e \in Calls : Undone(e, i)
      BY <1>1 DEF FilesInv
    <3>2. ASSUME NEW e \in Calls, Undone(e, i) PROVE Undone(e, i)'
      BY <1>1, <3>2 DEF Undone
    <3> QED BY <1>1, <2>2, <3>1, <3>2
  <2> QED BY <2>1, <2>2
<1>3. ASSUME NEW e \in Calls, call'[e].pc \in {"file", "row"}, NEW i \in call'[e].open
      PROVE  (Unlinked(i) \/ <<"add", i>> \in overlaps)'
  <2>1. call[e].pc \in {"file", "row"} /\ i \in call[e].open
    BY <1>1, <1>3
  <2>2. Unlinked(i) \/ <<"add", i>> \in overlaps
    BY <2>1 DEF FilesInv
  <2> QED BY <1>1, <2>2 DEF Unlinked
<1> QED BY <1>2, <1>3 DEF FilesInv

\* A call that is cut off leaves on record what it has half removed.
LEMMA FailFiles ==
  ASSUME TypeOK, FilesInv, NEW c \in Calls, Fail(c),
         \A e \in Calls \ {c} : call'[e] = call[e], overlaps \subseteq overlaps'
  PROVE  FilesInv'
<1>1. files' = files /\ data' = data /\ links' \subseteq links /\ call[c].pc \in Steps
  BY CutOffShrinks DEF Fail, Active
<1>2. /\ call'[c].pc = "failed"
      /\ call'[c].open = IF call[c].pc = "row" THEN call[c].open ELSE {}
  BY EndPc DEF Fail
<1>3. \A i \in data' : ~Undone(c, i) \/ Undone(c, i)'
  BY <1>1, <1>2 DEF Undone, Steps
<1> QED BY <1>1, <1>2, <1>3, FilesFrame

\* What a delete has chosen when it begins, and when it selects.
LEMMA ResolveMoves ==
  ASSUME TypeOK, CallsOK, NEW c \in Calls, Resolve(c)
  PROVE  \/ call'[c].pc \in Over
         \/ /\ call'[c].pc \in {"clear", "select", "pick"}
            /\ call'[c].pc = "pick" => ~call'[c].whole
            /\ call[c].req.kind = "dataset" => call'[c].whole
            /\ call[c].req.kind = "item" => call'[c].cut \subseteq {It(c)}
<1> DEFINE q == call[c].req
           whole == q.kind = "dataset" \/ (q.ifEmpty /\ LinkedTo(q.dataset) \subseteq {q.item})
           cut == IF q.kind = "dataset" THEN LinkedTo(q.dataset) ELSE {q.item} \cap data
           todo == IF q.kind = "dataset" THEN cut ELSE {q.item}
           pc == FirstStep(q, whole, whole \/ cut # {})
           k == [call[c] EXCEPT !.pc = pc, !.whole = whole, !.cut = cut, !.todo = todo]
<1>0. call \in [Calls -> CallType] /\ call[c] \in CallType
  BY DEF TypeOK
<1>1. Now(c, k) \/ End(c, "failed")
  BY DEF Resolve
<1>2. pc \in {"clear", "select", "pick"} /\ (pc = "pick" => ~whole)
  BY DEF FirstStep, FirstCleanup
<1>3. (q.kind = "dataset" => whole) /\ (q.kind = "item" => cut \subseteq {It(c)})
  BY DEF It
<1> HIDE DEF whole, cut, todo, pc
<1>4. k.pc = pc /\ k.whole = whole /\ k.cut = cut
  BY <1>0 DEF CallType
<1> HIDE DEF k, q
<1>5. CASE Now(c, k)
  <2>1. call'[c] = k
    BY <1>0, <1>5 DEF Now
  <2> QED BY <1>2, <1>3, <1>4, <2>1 DEF q
<1> QED BY <1>1, <1>5, EndPc DEF Over

LEMMA SelectDatasetMoves ==
  ASSUME TypeOK, NEW c \in Calls, SelectDataset(c)
  PROVE  /\ call'[c].pc = IF isolated \/ RowsOf(Ds(c)) # {} THEN "wipe" ELSE AfterDataset(c)
         /\ call'[c].part = "dataset" /\ call'[c].doomed = {r[3] : r \in RowsOf(Ds(c))}
         /\ call'[c].whole = call[c].whole /\ call'[c].cut = call[c].cut
<1> DEFINE doomed == {r[3] : r \in RowsOf(Ds(c))}
           pc == IF isolated \/ RowsOf(Ds(c)) # {} THEN "wipe" ELSE AfterDataset(c)
           k == [call[c] EXCEPT !.pc = pc, !.part = "dataset", !.doomed = doomed]
<1>0. call \in [Calls -> CallType] /\ call[c] \in CallType
  BY DEF TypeOK
<1>1. Now(c, k)
  BY DEF SelectDataset
<1> HIDE DEF doomed, pc
<1>2. /\ k.pc = pc /\ k.part = "dataset" /\ k.doomed = doomed
      /\ k.whole = call[c].whole /\ k.cut = call[c].cut
  BY <1>0 DEF CallType
<1> HIDE DEF k
<1>3. call'[c] = k
  BY <1>0, <1>1 DEF Now
<1> QED BY <1>2, <1>3 DEF pc, doomed

LEMMA SelectItemMoves ==
  ASSUME TypeOK, NEW c \in Calls, SelectItem(c)
  PROVE  /\ \/ call'[c].pc = AfterCleanup(c)
            \/ /\ call'[c].pc = "wipe"
               /\ call[c].cut \subseteq {It(c)} => call'[c].doomed = UniqueTo(Ds(c), It(c))
         /\ call'[c].part = "item"
         /\ call'[c].whole = call[c].whole /\ call'[c].cut = call[c].cut
<1> DEFINE gone == {i \in call[c].cut : Deletable(i) /\ \E s \in Slugs : <<Ds(c), i, s>> \in ledger}
           doomed == UNION {UniqueTo(Ds(c), i) : i \in gone}
           pc == IF gone # {} THEN "wipe" ELSE AfterCleanup(c)
           k == [call[c] EXCEPT !.pc = pc, !.part = "item", !.doomed = doomed]
<1>0. call \in [Calls -> CallType] /\ call[c] \in CallType
  BY DEF TypeOK
<1>1. Now(c, k)
  BY DEF SelectItem
<1>2. gone \subseteq call[c].cut
  OBVIOUS
<1> HIDE DEF gone
<1>3. call[c].cut \subseteq {It(c)} /\ gone # {} => doomed = UniqueTo(Ds(c), It(c))
  <2> SUFFICES ASSUME call[c].cut \subseteq {It(c)}, gone # {} PROVE doomed = UniqueTo(Ds(c), It(c))
    OBVIOUS
  <2>1. gone = {It(c)}
    BY <1>2
  <2> QED BY <2>1
<1> HIDE DEF doomed, pc
<1>4. /\ k.pc = pc /\ k.part = "item" /\ k.doomed = doomed
      /\ k.whole = call[c].whole /\ k.cut = call[c].cut
  BY <1>0 DEF CallType
<1> HIDE DEF k
<1>5. call'[c] = k
  BY <1>0, <1>1 DEF Now
<1> QED BY <1>3, <1>4, <1>5 DEF pc

LEMMA StepFiles ==
  ASSUME TypeOK, CallsOK, Watched, FilesInv, NEW c \in Calls, Step(c), overlaps \subseteq overlaps'
  PROVE  FilesInv'
<1>0. \A e \in Calls \ {c} : call'[e] = call[e]
  BY StepShape
<1>1. ASSUME NEW q \in Requests, Begin(c, q) PROVE FilesInv'
  BY <1>0, <1>1, BeginFiles
<1>2. CASE call[c].pc \in Steps /\ call'[c].req = call[c].req
  <2> DEFINE Quiet == call'[c].pc \notin {"file", "row"}
             Mild == files' = files /\ data' = data /\ links' \subseteq links /\ call[c].pc # "row"
  <2>0. ASSUME call[c].pc # "row" PROVE \A i \in data' : ~Undone(c, i)
    BY <1>2, <2>0 DEF Undone, Steps
  <2>1. ASSUME Quiet, Mild PROVE FilesInv'
    BY <1>0, <2>0, <2>1, FilesFrame
  <2>2. CASE AddAttach(c)
    BY <1>0, <1>2, <2>2, AttachFiles
  <2>3. CASE DeleteFile(c)
    BY <1>0, <1>2, <2>3, UnfileFiles
  <2>4. CASE Count(c)
    <3>1. Mild
      BY <2>4 DEF Count, base, tables
    <3>2. CASE \E i \in call[c].todo : Keeps(c, {"file"}) /\ Unlinked(i) /\ call'[c].open = {i}
      BY <1>0, <2>0, <3>1, <3>2, FilesFrame
    <3>3. CASE call'[c].pc \in Over \/ Keeps(c, {"count"})
      BY <2>1, <3>1, <3>3 DEF Over, Keeps
    <3> QED BY <2>4, <3>2, <3>3, MixedDelete
  <2>5. CASE AddResolve(c) \/ AddGrant(c) \/ CreateLookup(c) \/ CogWrite(c) \/ MarkWrite(c)
    <3>1. Mild
      BY <2>5 DEF AddResolve, AddGrant, CreateLookup, CogWrite, MarkWrite, base, tables
    <3>2. Quiet
      BY <2>5, MovePc
    <3> QED BY <2>1, <3>1, <3>2
  <2>6. CASE CogRead(c) \/ CogOwn(c) \/ MarkRead(c)
    <3>1. Mild
      BY <2>6 DEF CogRead, CogOwn, MarkRead, base, tables
    <3>2. Quiet
      BY <2>6, MixedPc DEF Over
    <3> QED BY <2>1, <3>1, <3>2
  <2>7. CASE Resolve(c) \/ ClearRead(c) \/ ClearWrite(c) \/ SelectDataset(c) \/ SelectItem(c)
    <3>1. Mild
      BY <2>7 DEF Resolve, ClearRead, ClearWrite, SelectDataset, SelectItem, base, tables
    <3>2. Quiet
      BY <2>7, ResolveMoves, MovePc, MixedDelete, SelectDatasetMoves, SelectItemMoves
         DEF Over, Keeps, FirstCleanup, AfterDataset, AfterCleanup
    <3> QED BY <2>1, <3>1, <3>2
  <2>8. CASE Wipe(c) \/ Unledger(c) \/ Detach(c) \/ DropDataset(c)
    <3>1. Mild
      BY <2>8 DEF Wipe, Unledger, Detach, DropDataset, tables
    <3>2. Quiet
      BY <2>8, MovePc DEF Keeps, AfterDataset, AfterCleanup
    <3> QED BY <2>1, <3>1, <3>2
  <2>9. CASE \E q \in Requests : Begin(c, q)
    BY <1>1, <2>9
  <2>10. CASE AddGet(c)
    BY <1>0, <2>10, GetFiles
  <2>11. CASE Fail(c)
    BY <1>0, <2>11, FailFiles
  <2>12. CASE DeleteData(c)
    <3>1. /\ files' = files /\ data' = data \ call[c].open /\ links' \subseteq links
          /\ \A i \in data' : ~Undone(c, i)
      BY <2>12 DEF DeleteData, Undone
    <3>2. call'[c].pc = "count"
      BY <2>12, MovePc DEF Keeps
    <3> QED BY <1>0, <3>1, <3>2, FilesFrame
  <2>13. CASE AddInsert(c) \/ CreateInsert(c) \/ CreateGrant(c)
    <3>1. Mild
      BY <2>13 DEF AddInsert, CreateInsert, CreateGrant, InsertDataset
    <3>2. Quiet
      BY <2>13, MixedPc, InsertPc DEF AddInsert, CreateInsert
    <3> QED BY <2>1, <3>1, <3>2
  <2> QED BY <2>2, <2>3, <2>4, <2>5, <2>6, <2>7, <2>8, <2>9, <2>10, <2>11, <2>12, <2>13 DEF Step
<1> QED BY <1>1, <1>2, StepShape

LEMMA CrashFiles ==
  ASSUME TypeOK, FilesInv, Crash, overlaps \subseteq overlaps'
  PROVE  FilesInv'
<1>1. files' = files /\ data' = data /\ links' \subseteq links
  BY CutOffShrinks DEF Crash
<1>2. \A c \in Calls : call'[c].pc \notin Steps
  BY DEF Crash, Active, Ended, Idle, Steps
<1>3. ASSUME NEW i \in data', NEW c \in Calls, Undone(c, i) PROVE Undone(c, i)'
  <2>1. CASE Active(c)
    <3>1. call[c].pc = "row"
      BY <1>3, <2>1 DEF Active, Undone, Steps
    <3>2. call'[c].pc = "dead" /\ call'[c].open = call[c].open
      BY <2>1, <3>1 DEF Crash, Ended, Idle
    <3> QED BY <1>3, <3>2 DEF Undone
  <2>2. CASE ~Active(c)
    BY <1>3, <2>2 DEF Crash, Undone
  <2> QED BY <2>1, <2>2
<1> QED BY <1>1, <1>2, <1>3 DEF FilesInv, Steps

\* An item that is linked has its file: no delete of another dataset takes it,
\* unless the item was being added while a delete was after it, or a delete was
\* cut off between its file and its row.
THEOREM FilesSafety == Spec => []LinkedHasFile
<1> DEFINE IInv == TypeOK /\ CallsOK /\ Watched /\ FilesInv
<1>1. Init => IInv
  BY InitType, InitWatched, InitFiles
<1>2. IInv /\ [Next]_vars => IInv'
  <2> SUFFICES ASSUME IInv, [Next]_vars PROVE IInv'
    OBVIOUS
  <2>1. TypeOK' /\ CallsOK' /\ Watched' /\ overlaps \subseteq overlaps'
    BY NextType, NextWatched
  <2>2. ASSUME UNCHANGED vars PROVE FilesInv'
    BY <2>2 DEF vars, base, tables, FilesInv, Undone, Unlinked
  <2>3. FilesInv'
    BY <2>1, <2>2, StepFiles, CrashFiles DEF Next, Quiescent
  <2> QED BY <2>1, <2>3
<1>3. IInv => LinkedHasFile
  BY FilesSuffice
<1> QED BY <1>1, <1>2, <1>3, PTL DEF Spec

-----------------------------------------------------------------------------
(* Linked items are in granted datasets.                                   *)

LEMMA InitGrants == Init => GrantInv
<1> SUFFICES ASSUME Init PROVE GrantInv
  OBVIOUS
<1>1. \A c \in Calls : call[c].pc = "idle"
  BY DEF Init, Idle
<1>2. AttachedGranted
  BY DEF Init, AttachedGranted
<1> QED BY <1>1, <1>2 DEF GrantInv, Settled, Init

\* What is settled stays so: a create that has not granted yet does or is cut off.
LEMMA SettledStays ==
  ASSUME NEW c \in Calls, \A e \in Calls \ {c} : call'[e] = call[e], granted \subseteq granted',
         call[c].pc \notin {"failed", "dead"},
         \A d : call[c].pc \in {"grant", "permit"} /\ Ds(c) = d => Settled(d)',
         NEW d, Settled(d)
  PROVE  Settled(d)'
<1>1. CASE d \in granted
  BY <1>1 DEF Settled
<1>2. CASE HalfMade(d)
  <2>1. PICK e \in Calls : /\ \/ call[e].pc \in {"failed", "dead"} /\ call[e].req.kind \in {"add", "create"}
                              \/ call[e].pc = "permit"
                           /\ Ds(e) = d
    BY <1>2 DEF HalfMade
  <2>2. CASE e = c
    BY <2>1, <2>2
  <2>3. CASE e # c
    <3>1. call'[e] = call[e] /\ Ds(e)' = d
      BY <2>1, <2>3 DEF Ds
    <3>2. HalfMade(d)'
      BY <2>1, <3>1 DEF HalfMade
    <3> QED BY <3>2 DEF Settled
  <2> QED BY <2>2, <2>3
<1> QED BY <1>1, <1>2 DEF Settled

\* A step that grants what it makes, or leaves it half made or behind its lock, and
\* goes on only with what is settled.
LEMMA GrantFrame ==
  ASSUME GrantInv, NEW c \in Calls, \A e \in Calls \ {c} : call'[e] = call[e],
         granted \subseteq granted', call[c].pc \notin {"failed", "dead"},
         \A d : call[c].pc \in {"grant", "permit"} /\ Ds(c) = d => Settled(d)',
         \A d \in datasets' : d \in datasets \/ Settled(d)' \/ (call'[c].pc = "grant" /\ Ds(c)' = d),
         \A l \in links' : l \in links \/ Settled(l[1]),
         call'[c].pc \in {"get", "attach"} => Settled(Ds(c))'
  PROVE  GrantInv'
<1>0. \A d : Settled(d) => Settled(d)'
  BY SettledStays
<1>1. ASSUME NEW d \in datasets'
      PROVE  (Settled(d) \/ \E e \in Calls : call[e].pc = "grant" /\ Ds(e) = d)'
  <2>1. CASE d \in datasets
    <3>1. Settled(d) \/ \E e \in Calls : call[e].pc = "grant" /\ Ds(e) = d
      BY <2>1 DEF GrantInv
    <3>2. ASSUME NEW e \in Calls, call[e].pc = "grant", Ds(e) = d
          PROVE  (Settled(d) \/ \E x \in Calls : call[x].pc = "grant" /\ Ds(x) = d)'
      <4>1. CASE e = c
        BY <3>2, <4>1
      <4>2. CASE e # c
        BY <3>2, <4>2 DEF Ds
      <4> QED BY <4>1, <4>2
    <3> QED BY <1>0, <3>1, <3>2
  <2> QED BY <2>1
<1>2. ASSUME NEW e \in Calls, call'[e].pc \in {"get", "attach"}
      PROVE  Settled(Ds(e))'
  <2>1. CASE e = c
    BY <1>2, <2>1
  <2>2. CASE e # c
    <3>1. Settled(Ds(e)) /\ Ds(e)' = Ds(e)
      BY <1>2, <2>2 DEF GrantInv, Ds
    <3>2. \A d : d = Ds(e) => Settled(d)'
      BY <1>0, <3>1
    <3> QED BY <3>1, <3>2 DEF Settled, HalfMade
  <2> QED BY <2>1, <2>2
<1>3. AttachedGranted'
  <2> SUFFICES ASSUME NEW l \in links' PROVE Settled(l[1])'
    BY DEF AttachedGranted, Settled
  <2>1. Settled(l[1])
    BY DEF GrantInv, AttachedGranted, Settled
  <2> QED BY <1>0, <2>1
<1> QED BY <1>1, <1>2, <1>3 DEF GrantInv

LEMMA StepGrants ==
  ASSUME TypeOK, CallsOK, GrantInv, NEW c \in Calls, Step(c)
  PROVE  GrantInv'
<1>0. (\A e \in Calls \ {c} : call'[e] = call[e]) /\ call[c].pc \notin {"failed", "dead"}
  BY StepShape DEF Begin, Steps
<1> DEFINE Quiet == call'[c].pc \notin {"get", "attach"}
           Plain == call[c].pc \notin {"grant", "permit"}
<1>1. ASSUME Quiet, Plain, datasets' \subseteq datasets, granted' = granted, links' \subseteq links
      PROVE  GrantInv'
  BY <1>0, <1>1, GrantFrame
<1>2. ASSUME NEW q \in Requests, Begin(c, q) PROVE GrantInv'
  <2>1. Quiet /\ call[c].pc = "idle" /\ datasets' = datasets /\ granted' = granted /\ links' = links
    BY <1>2, MovePc DEF Begin, base, tables
  <2> QED BY <1>1, <2>1
<1>3. CASE call[c].pc \in Steps /\ call'[c].req = call[c].req
  <2>0. Ds(c)' = Ds(c)
    BY <1>3 DEF Ds
  <2>1. CASE AddResolve(c)
    <3>1. /\ call[c].pc = "resolve" /\ datasets' = datasets /\ granted' = granted /\ links' = links
          /\ lock[Ds(c)] = None
      BY <2>1 DEF AddResolve, Free, base, tables
    <3>2. CASE Ds(c) \notin datasets
      <4>1. Quiet
        BY <2>1, <3>2, MovePc
      <4> QED BY <1>1, <3>1, <4>1
    <3>3. CASE Ds(c) \in datasets
      <4>1. \A e \in Calls : call[e].pc = "grant" => lock[Ds(e)] = e /\ e # None
        BY LifeAssumption DEF CallsOK, CallOK, Ds
      <4>2. Settled(Ds(c))
        BY <3>1, <3>3, <4>1 DEF GrantInv
      <4>3. \A d : Settled(d) => Settled(d)'
        BY <1>0, <3>1, SettledStays
      <4>4. Settled(Ds(c))'
        BY <2>0, <4>2, <4>3 DEF Settled, HalfMade
      <4> QED BY <1>0, <3>1, <4>4, GrantFrame
    <3> QED BY <3>2, <3>3
  <2>2. CASE AddGrant(c)
    <3>1. /\ call[c].pc = "grant" /\ datasets' = datasets /\ granted' = granted \cup {Ds(c)} /\ links' = links
      BY <2>2 DEF AddGrant
    <3>2. (\A d : Ds(c) = d => Settled(d)') /\ Settled(Ds(c))'
      BY <2>0, <3>1 DEF Settled
    <3> QED BY <1>0, <3>1, <3>2, GrantFrame
  <2>3. CASE AddGet(c)
    <3>1. call[c].pc = "get" /\ datasets' = datasets /\ granted' = granted /\ links' = links
      BY <2>3 DEF AddGet
    <3>2. Settled(Ds(c))
      BY <3>1 DEF GrantInv
    <3>3. \A d : Settled(d) => Settled(d)'
      BY <1>0, <3>1, SettledStays
    <3>4. Settled(Ds(c))'
      BY <2>0, <3>2, <3>3 DEF Settled, HalfMade
    <3> QED BY <1>0, <3>1, <3>4, GrantFrame
  <2>4. CASE AddAttach(c)
    <3>1. /\ call[c].pc = "attach" /\ datasets' = datasets /\ granted' = granted
          /\ links' \subseteq links \cup {<<Ds(c), It(c)>>} /\ call'[c].pc \in Over
      BY <2>4, MixedPc DEF AddAttach
    <3>2. Settled(Ds(c))
      BY <3>1 DEF GrantInv
    <3>3. \A l \in links' : l \in links \/ l[1] = Ds(c)
      BY <3>1
    <3>4. \A l \in links' : l \in links \/ Settled(l[1])
      BY <3>2, <3>3
    <3> QED BY <1>0, <3>1, <3>4, GrantFrame DEF Over
  <2>5. CASE Fail(c)
    <3>1. datasets' = datasets /\ granted' = granted /\ links' \subseteq links /\ call'[c].pc = "failed"
      BY <2>5, MixedPc, CutOffShrinks DEF Fail
    <3>2. ASSUME NEW d, call[c].pc \in {"grant", "permit"}, Ds(c) = d PROVE Settled(d)'
      <4>1. call'[c].req.kind \in {"add", "create"}
        BY <1>3, <3>2 DEF CallsOK, CallOK, AddSteps, CreateSteps
      <4>2. Ds(c)' = d
        BY <2>0, <3>2
      <4>3. HalfMade(d)'
        BY <3>1, <4>1, <4>2 DEF HalfMade
      <4> QED BY <4>3 DEF Settled
    <3> QED BY <1>0, <3>1, <3>2, GrantFrame
  <2>6. CASE CogRead(c) \/ CogOwn(c) \/ CogWrite(c) \/ MarkRead(c) \/ MarkWrite(c)
    <3>1. Plain /\ datasets' = datasets /\ granted' = granted /\ links' = links
      BY <2>6 DEF CogRead, CogOwn, CogWrite, MarkRead, MarkWrite, base, tables
    <3>2. Quiet
      BY <2>6, MixedPc, MovePc DEF Over
    <3> QED BY <1>1, <3>1, <3>2
  <2>7. CASE Resolve(c) \/ ClearRead(c) \/ ClearWrite(c) \/ SelectDataset(c) \/ SelectItem(c) \/ Count(c)
    <3>1. Plain /\ datasets' = datasets /\ granted' = granted /\ links' = links
      BY <2>7 DEF Resolve, ClearRead, ClearWrite, SelectDataset, SelectItem, Count, base, tables
    <3>2. Quiet
      BY <2>7, ResolveMoves, MovePc, MixedDelete, SelectDatasetMoves, SelectItemMoves
         DEF Over, Keeps, FirstCleanup, AfterDataset, AfterCleanup
    <3> QED BY <1>1, <3>1, <3>2
  <2>8. CASE Wipe(c) \/ Unledger(c) \/ Detach(c) \/ DropDataset(c) \/ DeleteFile(c) \/ DeleteData(c)
    <3>1. Plain /\ datasets' \subseteq datasets /\ granted' = granted /\ links' \subseteq links
      BY <2>8 DEF Wipe, Unledger, Detach, DropDataset, DeleteFile, DeleteData, tables
    <3>2. Quiet
      BY <2>8, MovePc DEF Keeps, AfterDataset, AfterCleanup
    <3> QED BY <1>1, <3>1, <3>2
  <2>9. CASE \E q \in Requests : Begin(c, q)
    BY <1>2, <2>9
  <2>10. CASE CreateLookup(c)
    <3>1. Plain /\ datasets' = datasets /\ granted' = granted /\ links' = links
      BY <2>10 DEF CreateLookup, base, tables
    <3>2. Quiet
      BY <2>10, MovePc
    <3> QED BY <1>1, <3>1, <3>2
  <2>11. CASE AddInsert(c)
    <3>1. Plain /\ datasets' = datasets \cup {Ds(c)} /\ granted' = granted /\ links' = links
      BY <2>11 DEF AddInsert, InsertDataset
    <3>2. Quiet /\ (call'[c].pc = "grant" \/ Ds(c) \in datasets)
      BY <2>11, InsertPc DEF AddInsert
    <3>3. \A d \in datasets' : d \in datasets \/ (call'[c].pc = "grant" /\ Ds(c)' = d)
      BY <2>0, <3>1, <3>2
    <3> QED BY <1>0, <3>1, <3>2, <3>3, GrantFrame
  <2>12. CASE CreateInsert(c)
    <3>1. Plain /\ datasets' = datasets \cup {Ds(c)} /\ granted' = granted /\ links' = links
      BY <2>12 DEF CreateInsert, InsertDataset
    <3>2. Quiet /\ (call'[c].pc = "permit" \/ Ds(c) \in datasets)
      BY <2>12, InsertPc DEF CreateInsert
    <3>3. ASSUME call'[c].pc = "permit" PROVE \A d : Ds(c)' = d => Settled(d)'
      BY <3>3 DEF Settled, HalfMade
    <3>4. \A d \in datasets' : d \in datasets \/ Settled(d)'
      BY <2>0, <3>1, <3>2, <3>3
    <3> QED BY <1>0, <3>1, <3>2, <3>4, GrantFrame
  <2>13. CASE CreateGrant(c)
    <3>1. datasets' = datasets /\ granted' = granted \cup {Ds(c)} /\ links' = links /\ call'[c].pc = "ok"
      BY <2>13, MixedPc DEF CreateGrant
    <3>2. \A d : Ds(c) = d => Settled(d)'
      BY <3>1 DEF Settled
    <3> QED BY <1>0, <3>1, <3>2, GrantFrame
  <2> QED BY <2>1, <2>2, <2>3, <2>4, <2>5, <2>6, <2>7, <2>8, <2>9, <2>10, <2>11, <2>12, <2>13 DEF Step
<1> QED BY <1>2, <1>3, StepShape

LEMMA CrashGrants ==
  ASSUME TypeOK, CallsOK, GrantInv, Crash
  PROVE  GrantInv'
<1>1. datasets' = datasets /\ granted' = granted /\ links' \subseteq links
  BY CutOffShrinks DEF Crash
<1>2. \A c \in Calls : /\ call'[c].req = call[c].req
                       /\ call[c].pc \in Steps => call'[c].pc = "dead"
                       /\ call[c].pc \notin Steps => call'[c] = call[c]
  BY DEF Crash, Active, Ended, Idle
<1>3. ASSUME NEW c \in Calls, NEW d, Ds(c) = d,
             \/ call[c].pc \in {"failed", "dead"} /\ call[c].req.kind \in {"add", "create"}
             \/ call[c].pc \in {"grant", "permit"}
      PROVE  HalfMade(d)'
  <2>1. Ds(c)' = d
    BY <1>2, <1>3 DEF Ds
  <2>2. call'[c].pc \in {"failed", "dead"}
    BY <1>2, <1>3 DEF Steps
  <2>3. call'[c].req.kind \in {"add", "create"}
    BY <1>2, <1>3 DEF CallsOK, CallOK, AddSteps, CreateSteps
  <2> QED BY <2>1, <2>2, <2>3 DEF HalfMade
<1>4. ASSUME NEW d, Settled(d) \/ \E c \in Calls : call[c].pc = "grant" /\ Ds(c) = d
      PROVE  Settled(d)'
  BY <1>1, <1>3, <1>4 DEF Settled, HalfMade
<1>5. \A c \in Calls : call'[c].pc \notin {"get", "attach"}
  BY <1>2 DEF Steps
<1>6. AttachedGranted'
  <2> SUFFICES ASSUME NEW l \in links' PROVE Settled(l[1])'
    BY DEF AttachedGranted, Settled
  <2>1. Settled(l[1])
    BY <1>1 DEF GrantInv, AttachedGranted, Settled
  <2> QED BY <1>4, <2>1
<1> QED BY <1>1, <1>4, <1>5, <1>6 DEF GrantInv

\* Nobody attaches an item to a dataset whose grants are not committed, unless the
\* call that made the dataset was cut off between row and grants or is a create.
THEOREM GrantSafety == Spec => []AttachedGranted
<1> DEFINE IInv == TypeOK /\ CallsOK /\ GrantInv
<1>1. Init => IInv
  BY InitType, InitGrants
<1>2. IInv /\ [Next]_vars => IInv'
  <2> SUFFICES ASSUME IInv, [Next]_vars PROVE IInv'
    OBVIOUS
  <2>1. TypeOK' /\ CallsOK'
    BY NextType
  <2>2. ASSUME UNCHANGED vars PROVE GrantInv'
    BY <2>2 DEF vars, base, tables, GrantInv, AttachedGranted, Settled, HalfMade, Ds
  <2>3. GrantInv'
    BY <2>2, StepGrants, CrashGrants DEF Next, Quiescent
  <2> QED BY <2>1, <2>3
<1>3. IInv => AttachedGranted
  BY DEF GrantInv
<1> QED BY <1>1, <1>2, <1>3, PTL DEF Spec

-----------------------------------------------------------------------------
(* Artifacts are owned.                                                    *)

LEMMA InitOwned == Init => OwnedInv
<1> SUFFICES ASSUME Init PROVE OwnedInv
  OBVIOUS
<1>1. \A c \in Calls : call[c].pc = "idle"
  BY DEF Init, Idle
<1>2. ASSUME NEW a \in store PROVE Claimed(a)
  <2>1. PICK l \in Cognified : a \in In(l[1], Art[l[2]])
    BY DEF Init
  <2>2. /\ l = <<l[1], l[2]>> /\ l[1] \in Datasets /\ l[2] \in Items
        /\ Art[l[2]] \subseteq Slugs
    BY LifeAssumption
  <2>3. a[1] = Home(l[1]) /\ a[2] \in Art[l[2]]
    BY <2>1 DEF In
  <2> DEFINE r == <<l[1], l[2], a[2]>>
  <2>4. r \in ledger /\ r[1] = l[1] /\ r[3] = a[2]
    BY <2>2, <2>3 DEF Init
  <2>5. ~Condemned(r)
    BY <1>1 DEF Condemned
  <2> QED BY <2>3, <2>4, <2>5 DEF Claimed
<1> QED BY <1>1, <1>2 DEF OwnedInv, WriteOK, DeleteOK, DeleteSteps

\* A call that sits still keeps what it counts on, unless the rows of its dataset
\* change: then a run and a delete have met.
LEMMA OthersOwned ==
  ASSUME OwnedInv, NEW e \in Calls, call'[e] = call[e], overlaps \subseteq overlaps',
         \/ Met(Ds(e))
         \/ \A r : r[1] = Ds(e) => (r \in ledger' <=> r \in ledger)
  PROVE  WriteOK(e)' /\ DeleteOK(e)'
<1>1. Ds(e)' = Ds(e) /\ It(e)' = It(e) /\ WriteOK(e) /\ DeleteOK(e)
  BY DEF Ds, It, OwnedInv
<1>2. Met(Ds(e)) => Met(Ds(e))'
  BY <1>1 DEF Met
<1>3. CASE Met(Ds(e))
  BY <1>1, <1>2, <1>3 DEF WriteOK, DeleteOK
<1>4. CASE \A r : r[1] = Ds(e) => (r \in ledger' <=> r \in ledger)
  <2>1. \A i, s : <<Ds(e), i, s>> \in ledger' <=> <<Ds(e), i, s>> \in ledger
    BY <1>4
  <2>2. RowsOf(Ds(e))' = RowsOf(Ds(e))
    BY <1>1, <1>4 DEF RowsOf
  <2>3. WriteOK(e)'
    BY <1>1, <1>2, <2>1 DEF WriteOK
  <2>4. DeleteOK(e)'
    BY <1>1, <1>2, <2>1, <2>2 DEF DeleteOK
  <2> QED BY <2>3, <2>4
<1> QED BY <1>3, <1>4

\* A step of a call that condemns nothing.
LEMMA ClaimsStay ==
  ASSUME NEW c \in Calls, \A e \in Calls \ {c} : call'[e] = call[e], call'[c].pc # "unledger",
         isolated' = isolated, NEW a, NEW r \in ledger, r \in ledger', Home(r[1]) = a[1], r[3] = a[2],
         ~Condemned(r)
  PROVE  Claimed(a)'
<1>1. ~Condemned(r)'
  BY DEF Condemned, Ds, It
<1> QED BY <1>1 DEF Claimed, Home

LEMMA ExcuseStays ==
  ASSUME isolated' = isolated, overlaps \subseteq overlaps', NEW a, Excused(a)
  PROVE  Excused(a)'
BY DEF Excused, Met, Home

\* Steps that leave the rows alone and write no artifact.
LEMMA OwnedFrame ==
  ASSUME OwnedInv, NEW c \in Calls, \A e \in Calls \ {c} : call'[e] = call[e],
         isolated' = isolated, ledger' = ledger, store' \subseteq store, overlaps \subseteq overlaps',
         call'[c].pc # "unledger", WriteOK(c)', DeleteOK(c)'
  PROVE  OwnedInv'
<1>1. ASSUME NEW e \in Calls PROVE WriteOK(e)' /\ DeleteOK(e)'
  BY OthersOwned
<1>2. ASSUME NEW a \in store' PROVE Claimed(a)' \/ Excused(a)'
  <2>1. Claimed(a) \/ Excused(a)
    BY DEF OwnedInv
  <2>2. CASE Claimed(a)
    <3>1. PICK r \in ledger : Home(r[1]) = a[1] /\ r[3] = a[2] /\ ~Condemned(r)
      BY <2>2 DEF Claimed
    <3> QED BY <3>1, ClaimsStay
  <2> QED BY <2>1, <2>2, ExcuseStays
<1> QED BY <1>1, <1>2 DEF OwnedInv

\* Two deletes of one dataset exclude each other.
LEMMA OneDelete ==
  ASSUME CallsOK, NEW b \in Calls, NEW c \in Calls, call[b].pc \in DeleteSteps,
         call[c].pc \in DeleteSteps, Ds(b) = Ds(c)
  PROVE  b = c
BY DEF CallsOK, CallOK, Ds

\* A run on the dataset of a delete has met it.
LEMMA RunMet ==
  ASSUME TypeOK, CallsOK, Watched, NEW b \in Calls, NEW c \in Calls, call[b].pc \in DeleteSteps,
         call[c].pc \in CogSteps \ {"read"}, Ds(b) = Ds(c)
  PROVE  Met(Ds(c))
BY Roles, MetRun

LEMMA CogOwnOwned ==
  ASSUME TypeOK, CallsOK, Watched, OwnedInv, NEW c \in Calls, CogOwn(c),
         call'[c].req = call[c].req, \A e \in Calls \ {c} : call'[e] = call[e],
         overlaps \subseteq overlaps'
  PROVE  OwnedInv'
<1> DEFINE new == {r \in {Ds(c)} \X call[c].todo \X Slugs : r[3] \in Art[r[2]]}
<1>0. /\ call[c].pc = "own" /\ isolated' = isolated /\ store' = store
      /\ call[c].todo \subseteq Items
  BY DEF CogOwn, TypeOK, CallType
<1>1. CASE call'[c].pc \in Over
  <2>1. \/ ledger' = ledger
        \/ ledger' = ledger \cup new /\ Goto(c, "write")
    BY DEF CogOwn
  <2>2. Goto(c, "write") => call'[c].pc = "write"
    BY DEF Goto, Now, TypeOK, CallType
  <2>3. ledger' = ledger
    BY <1>1, <2>1, <2>2 DEF Over
  <2> QED BY <1>0, <1>1, <2>3, OwnedFrame DEF Over, WriteOK, DeleteOK, DeleteSteps
<1>2. CASE call'[c].pc = "write" /\ call'[c].todo = call[c].todo
  <2>1. ledger' = ledger \cup new
    <3>1. End(c, "failed") => call'[c].pc = "failed"
      BY EndPc
    <3> QED BY <1>2, <3>1 DEF CogOwn
  <2>2. \A r \in new : r[1] = Ds(c)
    OBVIOUS
  <2>3. WriteOK(c)'
    <3> SUFFICES ASSUME NEW i \in call[c].todo, NEW s \in Art[i] PROVE <<Ds(c), i, s>> \in new
      BY <1>2, <2>1 DEF WriteOK, Ds
    <3>1. s \in Slugs
      BY <1>0, LifeAssumption
    <3> QED BY <3>1
  <2>4. DeleteOK(c)'
    BY <1>2 DEF DeleteOK, DeleteSteps
  <2>5. ASSUME NEW e \in Calls, e # c PROVE WriteOK(e)' /\ DeleteOK(e)'
    <3>1. CASE Ds(e) # Ds(c)
      <4>1. \A r : r[1] = Ds(e) => (r \in ledger' <=> r \in ledger)
        BY <2>1, <2>2, <3>1
      <4> QED BY <2>5, <4>1, OthersOwned
    <3>2. CASE Ds(e) = Ds(c) /\ call[e].pc \in DeleteSteps
      <4>1. Met(Ds(e))
        BY <1>0, <3>2, RunMet DEF CogSteps
      <4> QED BY <2>5, <4>1, OthersOwned
    <3>3. CASE call[e].pc \notin DeleteSteps
      <4>1. DeleteOK(e)'
        BY <2>5, <3>3 DEF DeleteOK
      <4>2. WriteOK(e) /\ Ds(e)' = Ds(e)
        BY <2>5 DEF OwnedInv, Ds
      <4>3. WriteOK(e)'
        BY <2>1, <2>5, <4>2 DEF WriteOK, Met
      <4> QED BY <4>1, <4>3
    <3> QED BY <3>1, <3>2, <3>3
  <2>6. ASSUME NEW a \in store' PROVE Claimed(a)' \/ Excused(a)'
    <3>1. Claimed(a) \/ Excused(a)
      BY <1>0 DEF OwnedInv
    <3>2. CASE Claimed(a)
      <4>1. PICK r \in ledger : Home(r[1]) = a[1] /\ r[3] = a[2] /\ ~Condemned(r)
        BY <3>2 DEF Claimed
      <4> QED BY <1>0, <1>2, <2>1, <4>1, ClaimsStay
    <3> QED BY <1>0, <3>1, <3>2, ExcuseStays
  <2> QED BY <2>3, <2>4, <2>5, <2>6 DEF OwnedInv
<1> QED BY <1>1, <1>2, MixedPc

LEMMA CogWriteOwned ==
  ASSUME TypeOK, CallsOK, Watched, OwnedInv, NEW c \in Calls, CogWrite(c),
         \A e \in Calls \ {c} : call'[e] = call[e], overlaps \subseteq overlaps'
  PROVE  OwnedInv'
<1>0. /\ call[c].pc = "write" /\ call'[c].pc = "mark" /\ isolated' = isolated
      /\ ledger' = ledger /\ store' = store \cup In(Ds(c), Produced(c)) /\ Ds(c) \in Datasets
  BY MovePc, ActiveType DEF CogWrite
<1>1. ASSUME NEW e \in Calls PROVE WriteOK(e)' /\ DeleteOK(e)'
  <2>1. CASE e = c
    BY <1>0, <2>1 DEF WriteOK, DeleteOK, DeleteSteps
  <2>2. CASE e # c
    BY <1>0, <2>2, OthersOwned
  <2> QED BY <2>1, <2>2
<1>2. ASSUME NEW a \in In(Ds(c), Produced(c)) PROVE Claimed(a) \/ Excused(a)
  <2>1. PICK i \in call[c].todo : a[1] = Home(Ds(c)) /\ a[2] \in Art[i]
    BY DEF In, Produced
  <2>2. CASE Met(Ds(c))
    BY <1>0, <2>1, <2>2 DEF Excused
  <2>3. CASE ~Met(Ds(c))
    <3> DEFINE r == <<Ds(c), i, a[2]>>
    <3>1. r \in ledger /\ r[1] = Ds(c) /\ r[3] = a[2]
      BY <1>0, <2>1, <2>3 DEF OwnedInv, WriteOK
    <3>2. ~Condemned(r)
      BY <1>0, <2>3, <3>1, RunMet DEF Condemned, CogSteps, DeleteSteps
    <3> QED BY <2>1, <3>1, <3>2 DEF Claimed
  <2> QED BY <2>2, <2>3
<1>3. ASSUME NEW a \in store' PROVE Claimed(a)' \/ Excused(a)'
  <2>1. Claimed(a) \/ Excused(a)
    BY <1>0, <1>2 DEF OwnedInv
  <2>2. CASE Claimed(a)
    <3>1. PICK r \in ledger : Home(r[1]) = a[1] /\ r[3] = a[2] /\ ~Condemned(r)
      BY <2>2 DEF Claimed
    <3> QED BY <1>0, <3>1, ClaimsStay
  <2> QED BY <1>0, <2>1, <2>2, ExcuseStays
<1> QED BY <1>1, <1>3 DEF OwnedInv

LEMMA WipeOwned ==
  ASSUME TypeOK, CallsOK, OwnedInv, NEW c \in Calls, Wipe(c), call'[c].req = call[c].req,
         \A e \in Calls \ {c} : call'[e] = call[e], overlaps \subseteq overlaps'
  PROVE  OwnedInv'
<1>0. /\ call[c].pc = "wipe" /\ Keeps(c, {"unledger"}) /\ isolated' = isolated
      /\ ledger' = ledger /\ store' = store \ Doomed(c) /\ Ds(c) \in Datasets
      /\ Ds(c)' = Ds(c) /\ It(c)' = It(c) /\ call[c].part \in {"dataset", "item"}
  BY MovePc, ActiveType DEF Wipe, Ds, It, TypeOK, CallType
<1>1. DeleteOK(c)
  BY DEF OwnedInv
<1>2. ASSUME NEW e \in Calls PROVE WriteOK(e)' /\ DeleteOK(e)'
  <2>1. CASE e = c
    <3>1. RowsOf(Ds(c))' = RowsOf(Ds(c)) /\ (Met(Ds(c)) => Met(Ds(c))')
      BY <1>0 DEF RowsOf, Met
    <3>2. call[c].whole /\ call[c].part = "item" => (Met(Ds(c)) \/ RowsOf(Ds(c)) = {})'
      BY <1>0, <1>1, <3>1 DEF DeleteOK, DeleteSteps
    <3>3. DeleteOK(c)'
      BY <1>0, <1>1, <3>2 DEF DeleteOK, DeleteSteps, Keeps
    <3>4. WriteOK(c)'
      BY <1>0 DEF WriteOK, Keeps
    <3> QED BY <2>1, <3>3, <3>4
  <2>2. CASE e # c
    BY <1>0, <2>2, OthersOwned
  <2> QED BY <2>1, <2>2
\* A row that only this step condemns has gone with its artifact, or shares it.
<1>3. ASSUME NEW a \in store', NEW r \in ledger, Home(r[1]) = a[1], r[3] = a[2], ~Condemned(r)
      PROVE  Excused(a) \/ Claimed(a)'
  <2>1. a \in store /\ a \notin Doomed(c) /\ a = <<a[1], a[2]>> /\ a[2] \in Slugs
    BY <1>0 DEF TypeOK
  <2>2. r = <<r[1], r[2], r[3]>> /\ r[2] \in Items
    BY DEF TypeOK
  <2>3. CASE ~Condemned(r)'
    BY <1>0, <1>3, <2>3 DEF Claimed, Home
  <2>4. CASE Condemned(r)'
    <3>1. r[1] = Ds(c) /\ (call[c].part = "dataset" \/ r[2] = It(c))
      BY <1>0, <1>3, <2>4 DEF Condemned, Keeps, Ds, It
    <3>2. CASE Met(Ds(c))
      BY <1>0, <1>3, <3>1, <3>2 DEF Excused
    <3>3. CASE ~Met(Ds(c)) /\ call[c].part = "dataset"
      <4>1. a[2] \in call[c].doomed
        BY <1>0, <1>1, <1>3, <3>1, <3>3 DEF DeleteOK, DeleteSteps, RowsOf
      <4>2. a \in Doomed(c)
        BY <1>3, <2>1, <3>1, <3>3, <4>1 DEF Doomed, In
      <4> QED BY <2>1, <4>2
    <3>4. CASE ~Met(Ds(c)) /\ call[c].part = "item"
      <4>1. <<Ds(c), It(c), a[2]>> \in ledger
        BY <1>3, <2>2, <3>1, <3>4
      <4>2. a[2] \in call[c].doomed => a \in Doomed(c)
        BY <1>3, <2>1, <3>1, <3>4 DEF Doomed, In
      <4>3. PICK j \in Items \ {It(c)} : <<Ds(c), j, a[2]>> \in ledger
        BY <1>0, <1>1, <2>1, <3>4, <4>1, <4>2 DEF DeleteOK, DeleteSteps
      <4>4. PICK o \in ledger : o[1] = r[1] /\ o[2] = j /\ o[3] = a[2]
        BY <3>1, <4>3
      <4>5. ~Condemned(o)'
        <5> SUFFICES ASSUME NEW b \in Calls, call'[b].pc = "unledger", Ds(b)' = Ds(c),
                            (call'[b].part = "dataset") \/ j = It(b)'
                     PROVE  FALSE
          BY <3>1, <4>4 DEF Condemned
        <5>1. CASE b = c
          BY <1>0, <3>4, <5>1 DEF Keeps
        <5>2. CASE b # c
          <6>1. call[b].pc = "unledger" /\ Ds(b) = Ds(c)
            BY <5>2 DEF Ds
          <6> QED BY <1>0, <5>2, <6>1, OneDelete DEF DeleteSteps
        <5> QED BY <5>1, <5>2
      <4> QED BY <1>0, <1>3, <4>4, <4>5 DEF Claimed, Home
    <3> QED BY <1>0, <3>2, <3>3, <3>4
  <2> QED BY <2>3, <2>4
<1>4. ASSUME NEW a \in store' PROVE Claimed(a)' \/ Excused(a)'
  <2>1. Claimed(a) \/ Excused(a)
    BY <1>0 DEF OwnedInv
  <2>2. Claimed(a) => Excused(a) \/ Claimed(a)'
    BY <1>3 DEF Claimed
  <2> QED BY <1>0, <2>1, <2>2, ExcuseStays
<1> QED BY <1>2, <1>4 DEF OwnedInv

\* Rows that go, of a dataset that only the deleting call is deleting.
LEMMA OthersRowsGone ==
  ASSUME TypeOK, CallsOK, Watched, OwnedInv, NEW c \in Calls, call[c].pc \in DeleteSteps,
         NEW e \in Calls, e # c, call'[e] = call[e], overlaps \subseteq overlaps',
         \A r : r[1] # Ds(c) => (r \in ledger' <=> r \in ledger)
  PROVE  WriteOK(e)' /\ DeleteOK(e)'
<1>1. CASE Ds(e) # Ds(c)
  BY <1>1, OthersOwned
<1>2. CASE Ds(e) = Ds(c)
  <2>1. call[e].pc \notin DeleteSteps
    BY <1>2, OneDelete
  <2>2. DeleteOK(e)'
    BY <2>1 DEF DeleteOK
  <2>3. call[e].pc = "write" => Met(Ds(e))
    BY <1>2, RunMet DEF CogSteps
  <2>4. WriteOK(e)'
    BY <2>3 DEF WriteOK, Met, Ds
  <2> QED BY <2>2, <2>4
<1> QED BY <1>1, <1>2

LEMMA UnledgerOwned ==
  ASSUME TypeOK, CallsOK, Watched, OwnedInv, NEW c \in Calls, Unledger(c),
         call'[c].req = call[c].req, \A e \in Calls \ {c} : call'[e] = call[e],
         overlaps \subseteq overlaps'
  PROVE  OwnedInv'
<1>0. /\ call[c].pc = "unledger" /\ isolated' = isolated /\ store' = store
      /\ ledger' = {r \in ledger : r[1] = Ds(c) => call[c].part = "item" /\ r[2] # It(c)}
      /\ Keeps(c, {IF call[c].part = "dataset" THEN AfterDataset(c) ELSE AfterCleanup(c)})
      /\ Ds(c)' = Ds(c) /\ It(c)' = It(c)
      /\ call[c].part \in {"dataset", "item"} /\ call[c].req.kind \in Deletes
  BY MovePc DEF Unledger, Ds, It, TypeOK, CallType, CallsOK, CallOK, DeleteSteps
<1>1. DeleteOK(c)
  BY DEF OwnedInv
<1>2. DeleteOK(c)' /\ WriteOK(c)' /\ call'[c].pc # "unledger"
  <2>1. call'[c].pc \in {"pick", "clear", "detach"} /\ (call'[c].pc = "pick" => call[c].req.kind = "item")
    BY <1>0 DEF Keeps, AfterDataset, AfterCleanup
  <2>2. Met(Ds(c)) => Met(Ds(c))'
    BY <1>0 DEF Met
  <2>3. call[c].part = "dataset" => RowsOf(Ds(c))' = {}
    BY <1>0 DEF RowsOf
  <2>4. RowsOf(Ds(c)) = {} => RowsOf(Ds(c))' = {}
    BY <1>0 DEF RowsOf
  <2>5. call[c].whole => Met(Ds(c))' \/ RowsOf(Ds(c))' = {}
    BY <1>0, <1>1, <2>2, <2>3, <2>4 DEF DeleteOK, DeleteSteps
  <2> QED BY <1>0, <1>1, <2>1, <2>5 DEF DeleteOK, WriteOK, DeleteSteps, Keeps
<1>3. ASSUME NEW e \in Calls, e # c PROVE WriteOK(e)' /\ DeleteOK(e)'
  BY <1>0, <1>3, OthersRowsGone DEF DeleteSteps
<1>4. ASSUME NEW a \in store' PROVE Claimed(a)' \/ Excused(a)'
  <2>1. Claimed(a) \/ Excused(a)
    BY <1>0 DEF OwnedInv
  <2>2. CASE Claimed(a)
    <3>1. PICK r \in ledger : Home(r[1]) = a[1] /\ r[3] = a[2] /\ ~Condemned(r)
      BY <2>2 DEF Claimed
    <3>2. r \in ledger'
      BY <1>0, <3>1 DEF Condemned
    <3> QED BY <1>0, <1>2, <3>1, <3>2, ClaimsStay
  <2> QED BY <1>0, <2>1, <2>2, ExcuseStays
<1> QED BY <1>2, <1>3, <1>4 DEF OwnedInv

LEMMA DropOwned ==
  ASSUME TypeOK, CallsOK, Watched, OwnedInv, NEW c \in Calls, DropDataset(c),
         call'[c].req = call[c].req, \A e \in Calls \ {c} : call'[e] = call[e],
         overlaps \subseteq overlaps'
  PROVE  OwnedInv'
<1>0. /\ call[c].pc = "drop" /\ isolated' = isolated /\ store' = store
      /\ ledger' = ledger \ RowsOf(Ds(c)) /\ Keeps(c, {"count"})
      /\ Ds(c) \in Datasets /\ It(c)' = It(c)
  BY MovePc, ActiveType DEF DropDataset, It
<1>1. DeleteOK(c)
  BY DEF OwnedInv
<1>2. Met(Ds(c)) \/ RowsOf(Ds(c)) = {}
  BY <1>0, <1>1 DEF DeleteOK, DeleteSteps
<1>3. DeleteOK(c)' /\ WriteOK(c)'
  BY <1>0, <1>1 DEF DeleteOK, WriteOK, DeleteSteps, Keeps
<1>4. ASSUME NEW e \in Calls, e # c PROVE WriteOK(e)' /\ DeleteOK(e)'
  BY <1>0, <1>4, OthersRowsGone DEF DeleteSteps, RowsOf
<1>5. ASSUME NEW a \in store' PROVE Claimed(a)' \/ Excused(a)'
  <2>1. Claimed(a) \/ Excused(a)
    BY <1>0 DEF OwnedInv
  <2>2. CASE Claimed(a)
    <3>1. PICK r \in ledger : Home(r[1]) = a[1] /\ r[3] = a[2] /\ ~Condemned(r)
      BY <2>2 DEF Claimed
    <3>2. CASE r[1] # Ds(c)
      <4>1. r \in ledger' /\ call'[c].pc # "unledger"
        BY <1>0, <3>2 DEF RowsOf, Keeps
      <4> QED BY <1>0, <3>1, <4>1, ClaimsStay
    <3>3. CASE r[1] = Ds(c)
      <4>1. Excused(a)
        BY <1>0, <1>2, <3>1, <3>3 DEF RowsOf, Excused
      <4> QED BY <1>0, <4>1, ExcuseStays
    <3> QED BY <3>2, <3>3
  <2> QED BY <1>0, <2>1, <2>2, ExcuseStays
<1> QED BY <1>3, <1>4, <1>5 DEF OwnedInv

\* Steps of a delete that touch neither rows nor artifacts.
LEMMA QuietDelete ==
  ASSUME TypeOK, CallsOK, OwnedInv, NEW c \in Calls, call'[c].req = call[c].req,
         overlaps \subseteq overlaps', ledger' = ledger
  PROVE  /\ Resolve(c) \/ ClearRead(c) \/ ClearWrite(c) \/ SelectDataset(c) \/ SelectItem(c) => DeleteOK(c)'
         /\ Detach(c) \/ Count(c) \/ DeleteFile(c) \/ DeleteData(c) => DeleteOK(c)'
<1>0. DeleteOK(c) /\ Ds(c)' = Ds(c) /\ It(c)' = It(c) /\ RowsOf(Ds(c))' = RowsOf(Ds(c))
  BY DEF OwnedInv, Ds, It, RowsOf
<1>1. Met(Ds(c)) => Met(Ds(c))'
  BY <1>0 DEF Met
<1>2. call'[c].pc \in Over => DeleteOK(c)'
  BY DEF DeleteOK, DeleteSteps, Over
<1>3. call[c].pc \in DeleteSteps => call[c].req.kind \in Deletes
  BY DEF CallsOK, CallOK
<1>4. ASSUME Resolve(c) PROVE DeleteOK(c)'
  <2>1. call[c].req.kind \in Deletes
    BY <1>4 DEF Resolve
  <2> QED BY <1>0, <1>2, <1>4, <2>1, ResolveMoves DEF DeleteOK, DeleteSteps, Deletes
<1>5. ASSUME ClearRead(c) PROVE DeleteOK(c)'
  <2>1. Keeps(c, {"clearing"}) /\ call[c].pc = "clear"
    BY <1>5, MovePc DEF ClearRead
  <2> QED BY <1>0, <2>1 DEF DeleteOK, DeleteSteps, Keeps
<1>6. ASSUME ClearWrite(c) PROVE DeleteOK(c)'
  <2>1. call[c].pc = "clearing"
    BY <1>6 DEF ClearWrite
  <2>2. CASE Keeps(c, {"clearing", FirstCleanup(call[c].whole)})
    <3>1. call'[c].pc \in {"clearing", "select", "pick"} /\ (call'[c].pc = "pick" => ~call[c].whole)
      BY <2>2 DEF Keeps, FirstCleanup
    <3> QED BY <1>0, <1>3, <2>1, <2>2, <3>1 DEF DeleteOK, DeleteSteps, Keeps, Deletes
  <2> QED BY <1>2, <1>6, <2>2, MixedDelete
<1>7. ASSUME SelectDataset(c) PROVE DeleteOK(c)'
  <2>1. /\ call[c].pc = "select"
        /\ call'[c].pc = IF isolated \/ RowsOf(Ds(c)) # {} THEN "wipe" ELSE AfterDataset(c)
        /\ call'[c].part = "dataset" /\ call'[c].doomed = {r[3] : r \in RowsOf(Ds(c))}
        /\ call'[c].whole = call[c].whole /\ call'[c].cut = call[c].cut
    BY <1>7, SelectDatasetMoves DEF SelectDataset
  <2>2. \A r \in RowsOf(Ds(c)) : r[3] \in call'[c].doomed
    BY <2>1
  <2>3. CASE call'[c].pc = "wipe"
    BY <1>0, <2>1, <2>2, <2>3 DEF DeleteOK, DeleteSteps
  <2>4. CASE call'[c].pc = AfterDataset(c) /\ RowsOf(Ds(c)) = {}
    <3>1. call'[c].pc \in {"pick", "clear", "detach"} /\ (call'[c].pc = "pick" => call[c].req.kind = "item")
      BY <2>4 DEF AfterDataset, AfterCleanup
    <3> QED BY <1>0, <2>1, <2>4, <3>1 DEF DeleteOK, DeleteSteps
  <2> QED BY <2>1, <2>3, <2>4
<1>8. ASSUME SelectItem(c) PROVE DeleteOK(c)'
  <2>1. /\ call[c].pc = "pick" /\ call[c].req.kind = "item" /\ call[c].cut \subseteq {It(c)}
        /\ call'[c].part = "item"
        /\ call'[c].whole = call[c].whole /\ call'[c].cut = call[c].cut
        /\ \/ call'[c].pc = AfterCleanup(c)
           \/ call'[c].pc = "wipe" /\ call'[c].doomed = UniqueTo(Ds(c), It(c))
    BY <1>0, <1>8, SelectItemMoves DEF SelectItem, DeleteOK, DeleteSteps
  <2>2. call[c].whole => (Met(Ds(c)) \/ RowsOf(Ds(c)) = {})'
    BY <1>0, <1>1, <2>1 DEF DeleteOK, DeleteSteps
  <2>3. CASE call'[c].pc = AfterCleanup(c)
    <3>1. call'[c].pc \in {"clear", "detach"}
      BY <2>3 DEF AfterCleanup
    <3> QED BY <1>0, <2>1, <2>2, <3>1 DEF DeleteOK, DeleteSteps
  <2>4. CASE call'[c].pc = "wipe" /\ call'[c].doomed = UniqueTo(Ds(c), It(c))
    <3>1. \A s \in Slugs : <<Ds(c), It(c), s>> \in ledger =>
            s \in call'[c].doomed \/ \E j \in Items \ {It(c)} : <<Ds(c), j, s>> \in ledger
      BY <2>4 DEF UniqueTo
    <3> QED BY <1>0, <2>1, <2>2, <2>4, <3>1 DEF DeleteOK, DeleteSteps
  <2> QED BY <2>1, <2>3, <2>4
<1>9. ASSUME Detach(c) PROVE DeleteOK(c)'
  <2>1. call[c].pc = "detach" /\ Keeps(c, {IF call[c].whole THEN "drop" ELSE "count"})
    BY <1>9, MovePc DEF Detach
  <2>2. call[c].whole => (Met(Ds(c)) \/ RowsOf(Ds(c)) = {})'
    BY <1>0, <1>1, <2>1 DEF DeleteOK, DeleteSteps
  <2> QED BY <1>0, <2>1, <2>2 DEF DeleteOK, DeleteSteps, Keeps
<1>10. ASSUME Count(c) \/ DeleteFile(c) \/ DeleteData(c) PROVE DeleteOK(c)'
  <2>1. call[c].pc \in {"count", "file", "row"}
    BY <1>10 DEF Count, DeleteFile, DeleteData
  <2>2. call'[c].pc \in Over \/ Keeps(c, {"count", "file", "row"})
    BY <1>10, MovePc, MixedDelete DEF Keeps
  <2>3. CASE Keeps(c, {"count", "file", "row"})
    BY <1>0, <2>1, <2>3 DEF DeleteOK, DeleteSteps, Keeps
  <2> QED BY <1>2, <2>2, <2>3
<1> QED BY <1>4, <1>5, <1>6, <1>7, <1>8, <1>9, <1>10

LEMMA StepOwned ==
  ASSUME TypeOK, CallsOK, Watched, OwnedInv, NEW c \in Calls, Step(c), overlaps \subseteq overlaps'
  PROVE  OwnedInv'
<1>0. \A e \in Calls \ {c} : call'[e] = call[e]
  BY StepShape
<1>1. ASSUME call'[c].pc \notin DeleteSteps \cup {"write"}, isolated' = isolated, ledger' = ledger,
             store' \subseteq store
      PROVE  OwnedInv'
  <2>1. WriteOK(c)' /\ DeleteOK(c)' /\ call'[c].pc # "unledger"
    BY <1>1 DEF WriteOK, DeleteOK, DeleteSteps
  <2> QED BY <1>0, <1>1, <2>1, OwnedFrame
<1>2. ASSUME NEW q \in Requests, Begin(c, q) PROVE OwnedInv'
  <2>1. isolated' = isolated /\ ledger' = ledger /\ store' = store
    BY <1>2 DEF Begin, base
  <2>2. call'[c].pc \notin DeleteSteps \cup {"write"}
    BY <1>2, MovePc DEF DeleteSteps
  <2> QED BY <1>1, <2>1, <2>2
<1>3. CASE call[c].pc \in Steps /\ call'[c].req = call[c].req
  <2>1. CASE AddResolve(c) \/ AddGrant(c) \/ AddGet(c) \/ AddAttach(c) \/ CreateLookup(c)
    <3>1. isolated' = isolated /\ ledger' = ledger /\ store' = store
      BY <2>1 DEF AddResolve, AddGrant, AddGet, AddAttach, CreateLookup, base
    <3>2. call'[c].pc \notin DeleteSteps \cup {"write"}
      BY <2>1, MovePc, MixedPc DEF DeleteSteps, Over
    <3> QED BY <1>1, <3>1, <3>2
  <2>2. CASE CogRead(c) \/ MarkRead(c) \/ MarkWrite(c)
    <3>1. isolated' = isolated /\ ledger' = ledger /\ store' = store
      BY <2>2 DEF CogRead, MarkRead, MarkWrite, base
    <3>2. call'[c].pc \notin DeleteSteps \cup {"write"}
      BY <2>2, MovePc, MixedPc DEF DeleteSteps, Over
    <3> QED BY <1>1, <3>1, <3>2
  <2>3. CASE Fail(c)
    <3>1. isolated' = isolated /\ ledger' = ledger /\ store' \subseteq store
      BY <2>3, CutOffShrinks DEF Fail
    <3>2. call'[c].pc \notin DeleteSteps \cup {"write"}
      BY <2>3, MixedPc DEF DeleteSteps
    <3> QED BY <1>1, <3>1, <3>2
  <2>4. CASE CogOwn(c)
    BY <1>0, <1>3, <2>4, CogOwnOwned
  <2>5. CASE CogWrite(c)
    BY <1>0, <2>5, CogWriteOwned
  <2>6. CASE Wipe(c)
    BY <1>0, <1>3, <2>6, WipeOwned
  <2>7. CASE Unledger(c)
    BY <1>0, <1>3, <2>7, UnledgerOwned
  <2>8. CASE DropDataset(c)
    BY <1>0, <1>3, <2>8, DropOwned
  <2>9. CASE \/ Resolve(c) \/ ClearRead(c) \/ ClearWrite(c) \/ SelectDataset(c) \/ SelectItem(c)
             \/ Detach(c) \/ Count(c) \/ DeleteFile(c) \/ DeleteData(c)
    <3>1. isolated' = isolated /\ ledger' = ledger /\ store' = store
      BY <2>9 DEF Resolve, ClearRead, ClearWrite, SelectDataset, SelectItem, Detach, Count,
                  DeleteFile, DeleteData, base
    <3>2. DeleteOK(c)'
      BY <1>3, <2>9, <3>1, QuietDelete
    <3>3. call'[c].pc \notin {"unledger", "write"}
      BY <2>9, ResolveMoves, MovePc, MixedDelete, SelectDatasetMoves, SelectItemMoves
         DEF Over, Keeps, FirstCleanup, AfterDataset, AfterCleanup
    <3>4. WriteOK(c)'
      BY <3>3 DEF WriteOK
    <3> QED BY <1>0, <3>1, <3>2, <3>3, <3>4, OwnedFrame
  <2>10. CASE \E q \in Requests : Begin(c, q)
    BY <1>2, <2>10
  <2>11. CASE AddInsert(c) \/ CreateInsert(c) \/ CreateGrant(c)
    <3>1. isolated' = isolated /\ ledger' = ledger /\ store' = store
      BY <2>11 DEF AddInsert, CreateInsert, CreateGrant, InsertDataset
    <3>2. call'[c].pc \notin DeleteSteps \cup {"write"}
      BY <2>11, MixedPc, InsertPc DEF DeleteSteps, AddInsert, CreateInsert
    <3> QED BY <1>1, <3>1, <3>2
  <2> QED BY <2>1, <2>2, <2>3, <2>4, <2>5, <2>6, <2>7, <2>8, <2>9, <2>10, <2>11 DEF Step
<1> QED BY <1>2, <1>3, StepShape

LEMMA CrashOwned ==
  ASSUME OwnedInv, Crash, overlaps \subseteq overlaps'
  PROVE  OwnedInv'
<1>1. ledger' = ledger /\ store' \subseteq store /\ isolated' = isolated
  BY CutOffShrinks DEF Crash
<1>2. \A c \in Calls : call'[c].pc \notin Steps
  BY DEF Crash, Active, Ended, Idle, Steps
<1>3. \A r : ~Condemned(r)'
  BY <1>2 DEF Condemned, Steps
<1>4. \A c \in Calls : WriteOK(c)' /\ DeleteOK(c)'
  BY <1>2 DEF WriteOK, DeleteOK, DeleteSteps, Steps
<1>5. ASSUME NEW a \in store' PROVE Claimed(a)' \/ Excused(a)'
  <2>1. Claimed(a) \/ Excused(a)
    BY <1>1 DEF OwnedInv
  <2>2. Claimed(a) => Claimed(a)'
    BY <1>1, <1>3 DEF Claimed, Home
  <2> QED BY <1>1, <2>1, <2>2, ExcuseStays
<1> QED BY <1>4, <1>5 DEF OwnedInv

\* Every artifact has an ownership row, whatever deletes fail half-way, crash or are
\* tried again and however many datasets share the store, unless a run of cognify
\* and a delete of the same dataset have overlapped.
THEOREM OwnedSafety == Spec => []Owned
<1> DEFINE IInv == TypeOK /\ CallsOK /\ Watched /\ OwnedInv
<1>1. Init => IInv
  BY InitType, InitWatched, InitOwned
<1>2. IInv /\ [Next]_vars => IInv'
  <2> SUFFICES ASSUME IInv, [Next]_vars PROVE IInv'
    OBVIOUS
  <2>1. TypeOK' /\ CallsOK' /\ Watched' /\ overlaps \subseteq overlaps'
    BY NextType, NextWatched
  <2>2. ASSUME UNCHANGED vars PROVE OwnedInv'
    <3>1. isolated' = isolated /\ ledger' = ledger /\ store' = store /\ call' = call /\ overlaps' = overlaps
      BY <2>2 DEF vars, base, tables
    <3>2. ASSUME NEW c \in Calls PROVE WriteOK(c)' /\ DeleteOK(c)'
      BY <3>1, OthersOwned
    <3>3. ASSUME NEW a PROVE Claimed(a)' = Claimed(a)
      BY <3>1 DEF Claimed, Condemned, Ds, It, Home
    <3>4. ASSUME NEW a, Excused(a) PROVE Excused(a)'
      BY <3>1, <3>4, ExcuseStays
    <3> QED BY <3>1, <3>2, <3>3, <3>4 DEF OwnedInv
  <2>3. OwnedInv'
    BY <2>1, <2>2, StepOwned, CrashOwned DEF Next, Quiescent
  <2> QED BY <2>1, <2>3
<1>3. IInv => Owned
  BY DEF OwnedInv, Owned, Claimed, Excused, Met
<1> QED BY <1>1, <1>2, <1>3, PTL DEF Spec

-----------------------------------------------------------------------------
(* What steps write, and what calls go on with.                            *)

LEMMA NowIs ==
  ASSUME TypeOK, NEW c \in Calls, NEW k, Now(c, k)
  PROVE  call'[c] = k
BY DEF TypeOK, Now

\* Which steps write what.
LEMMA Effects ==
  ASSUME NEW c \in Calls, Step(c)
  PROVE  /\ isolated' = isolated
         /\ markers' = markers \/ MarkWrite(c) \/ ClearWrite(c) \/ DeleteData(c)
         /\ links' = links \/ AddAttach(c) \/ Detach(c) \/ DropDataset(c) \/ DeleteData(c) \/ Fail(c)
         /\ store' = store \/ CogWrite(c) \/ Wipe(c) \/ Fail(c)
         /\ ledger' = ledger \/ CogOwn(c) \/ Unledger(c) \/ DropDataset(c)
         /\ data' = data \/ AddGet(c) \/ DeleteData(c)
         /\ files' = files \/ AddGet(c) \/ DeleteFile(c)
         /\ datasets' = datasets \/ AddInsert(c) \/ CreateInsert(c) \/ DropDataset(c)
<1> DEFINE Rest == /\ markers' = markers /\ links' = links /\ store' = store /\ ledger' = ledger
                   /\ data' = data /\ files' = files /\ datasets' = datasets
<1>1. ASSUME \/ \E q \in Requests : Begin(c, q)
             \/ CreateLookup(c) \/ CreateGrant(c) \/ AddResolve(c) \/ AddGrant(c)
             \/ CogRead(c) \/ MarkRead(c)
      PROVE  isolated' = isolated /\ Rest
  BY <1>1 DEF Begin, CreateLookup, CreateGrant, AddResolve, AddGrant, CogRead, MarkRead, base, tables
<1>2. ASSUME Resolve(c) \/ ClearRead(c) \/ SelectDataset(c) \/ SelectItem(c) \/ Count(c)
      PROVE  isolated' = isolated /\ Rest
  BY <1>2 DEF Resolve, ClearRead, SelectDataset, SelectItem, Count, base, tables
<1>3. ASSUME AddInsert(c) \/ CreateInsert(c)
      PROVE  /\ isolated' = isolated /\ markers' = markers /\ links' = links /\ store' = store
             /\ ledger' = ledger /\ data' = data /\ files' = files
  BY <1>3 DEF AddInsert, CreateInsert, InsertDataset
<1>4. ASSUME AddGet(c) \/ AddAttach(c)
      PROVE  /\ isolated' = isolated /\ markers' = markers /\ store' = store /\ ledger' = ledger
             /\ datasets' = datasets
             /\ AddGet(c) => links' = links
             /\ AddAttach(c) => data' = data /\ files' = files
  BY <1>4 DEF AddGet, AddAttach
<1>5. ASSUME CogOwn(c) \/ CogWrite(c) \/ MarkWrite(c)
      PROVE  /\ isolated' = isolated /\ links' = links /\ data' = data /\ files' = files
             /\ datasets' = datasets
             /\ CogOwn(c) => markers' = markers /\ store' = store
             /\ CogWrite(c) => markers' = markers /\ ledger' = ledger
             /\ MarkWrite(c) => store' = store /\ ledger' = ledger
  BY <1>5 DEF CogOwn, CogWrite, MarkWrite, tables
<1>6. ASSUME ClearWrite(c) \/ Wipe(c) \/ Unledger(c)
      PROVE  /\ isolated' = isolated /\ links' = links /\ data' = data /\ files' = files
             /\ datasets' = datasets
             /\ ClearWrite(c) => store' = store /\ ledger' = ledger
             /\ Wipe(c) => markers' = markers /\ ledger' = ledger
             /\ Unledger(c) => markers' = markers /\ store' = store
  BY <1>6 DEF ClearWrite, Wipe, Unledger, tables
<1>7. ASSUME Detach(c) \/ DropDataset(c) \/ DeleteFile(c) \/ DeleteData(c)
      PROVE  /\ isolated' = isolated /\ store' = store
             /\ Detach(c) => markers' = markers /\ ledger' = ledger /\ data' = data /\ files' = files /\ datasets' = datasets
             /\ DropDataset(c) => markers' = markers /\ data' = data /\ files' = files
             /\ DeleteFile(c) => markers' = markers /\ links' = links /\ ledger' = ledger /\ data' = data /\ datasets' = datasets
             /\ DeleteData(c) => ledger' = ledger /\ files' = files /\ datasets' = datasets
  BY <1>7 DEF Detach, DropDataset, DeleteFile, DeleteData, tables
<1>8. ASSUME Fail(c)
      PROVE  /\ isolated' = isolated /\ markers' = markers /\ ledger' = ledger /\ data' = data
             /\ files' = files /\ datasets' = datasets
  BY <1>8 DEF Fail
<1> QED BY <1>1, <1>2, <1>3, <1>4, <1>5, <1>6, <1>7, <1>8 DEF Step

\* Only a run or a delete is at the steps of a run or a delete.
LEMMA RunCases ==
  ASSUME TypeOK, CallsOK, NEW c \in Calls, Step(c), call'[c].pc \in CogSteps \ {"read"}
  PROVE  CogRead(c) \/ CogOwn(c) \/ CogWrite(c) \/ MarkRead(c) \/ MarkWrite(c)
<1>1. ASSUME \/ \E q \in Requests : Begin(c, q)
             \/ CreateLookup(c) \/ CreateGrant(c) \/ AddResolve(c) \/ AddGrant(c) \/ AddGet(c)
             \/ AddAttach(c) \/ Fail(c)
      PROVE  FALSE
  BY <1>1, MovePc, MixedPc DEF CogSteps, Over
<1>2. ASSUME AddInsert(c) \/ CreateInsert(c) PROVE FALSE
  BY <1>2, InsertPc DEF AddInsert, CreateInsert, CogSteps
<1>3. ASSUME Resolve(c) \/ ClearRead(c) \/ ClearWrite(c) \/ SelectDataset(c) \/ SelectItem(c) PROVE FALSE
  BY <1>3, ResolveMoves, MovePc, MixedDelete, SelectDatasetMoves, SelectItemMoves
     DEF Over, Keeps, FirstCleanup, AfterDataset, AfterCleanup, CogSteps
<1>4. ASSUME Wipe(c) \/ Unledger(c) \/ Detach(c) \/ DropDataset(c) \/ DeleteFile(c) \/ DeleteData(c) PROVE FALSE
  BY <1>4, MovePc DEF Keeps, AfterDataset, AfterCleanup, CogSteps
<1>5. ASSUME Count(c) PROVE FALSE
  BY <1>5, MixedDelete DEF Keeps, CogSteps, Over
<1> QED BY <1>1, <1>2, <1>3, <1>4, <1>5 DEF Step

LEMMA DeleteCases ==
  ASSUME TypeOK, CallsOK, NEW c \in Calls, Step(c), call'[c].pc \in DeleteSteps
  PROVE  \/ Resolve(c) \/ ClearRead(c) \/ ClearWrite(c) \/ SelectDataset(c) \/ SelectItem(c)
         \/ Wipe(c) \/ Unledger(c) \/ Detach(c) \/ DropDataset(c) \/ Count(c) \/ DeleteFile(c)
         \/ DeleteData(c)
<1>1. ASSUME \/ \E q \in Requests : Begin(c, q)
             \/ CreateLookup(c) \/ CreateGrant(c) \/ AddResolve(c) \/ AddGrant(c) \/ AddGet(c)
             \/ AddAttach(c) \/ Fail(c)
      PROVE  FALSE
  BY <1>1, MovePc, MixedPc DEF DeleteSteps, Over
<1>2. ASSUME AddInsert(c) \/ CreateInsert(c) PROVE FALSE
  BY <1>2, InsertPc DEF AddInsert, CreateInsert, DeleteSteps
<1>3. ASSUME CogRead(c) \/ CogOwn(c) \/ CogWrite(c) \/ MarkRead(c) \/ MarkWrite(c) PROVE FALSE
  BY <1>3, MovePc, MixedPc DEF DeleteSteps, Over
<1> QED BY <1>1, <1>2, <1>3 DEF Step

\* What a run goes on with.
LEMMA RunMoves ==
  ASSUME TypeOK, NEW c \in Calls
  PROVE  /\ CogRead(c) => call'[c].pc \in Over \/ call'[c].todo \subseteq LinkedTo(Ds(c))
         /\ CogWrite(c) => call'[c].todo = call[c].todo
         /\ MarkWrite(c) => call'[c].todo = call[c].todo
         /\ MarkRead(c) =>
              \/ call'[c].pc \in Over
              \/ \E i \in call[c].todo :
                   /\ call'[c].todo = call[c].todo \ {i} /\ call'[c].open \subseteq {i}
                   /\ call'[c].seen[i] = markers[i]
<1>0. call \in [Calls -> CallType] /\ call[c] \in CallType
  BY DEF TypeOK
<1>1. ASSUME CogRead(c) PROVE call'[c].pc \in Over \/ call'[c].todo \subseteq LinkedTo(Ds(c))
  <2> DEFINE todo == {i \in LinkedTo(Ds(c)) : Ds(c) \notin markers[i]}
             k == [call[c] EXCEPT !.pc = "own", !.todo = todo]
  <2>1. k.todo = todo
    BY <1>0 DEF CallType
  <2>2. Now(c, k) \/ End(c, "failed") \/ End(c, "ok")
    BY <1>1 DEF CogRead
  <2> HIDE DEF k
  <2> QED BY <2>1, <2>2, EndPc, NowIs DEF Over
<1>2. ASSUME CogWrite(c) PROVE call'[c].todo = call[c].todo
  BY <1>0, <1>2 DEF CogWrite, Goto, Now, CallType
<1>3. ASSUME MarkWrite(c) PROVE call'[c].todo = call[c].todo
  BY <1>0, <1>3 DEF MarkWrite, Now, CallType
<1>4. ASSUME MarkRead(c), call'[c].pc \notin Over
      PROVE  \E i \in call[c].todo :
                   /\ call'[c].todo = call[c].todo \ {i} /\ call'[c].open \subseteq {i}
                   /\ call'[c].seen[i] = markers[i]
  <2> DEFINE k(i) == [call[c] EXCEPT !.pc = IF i \in data THEN "marked" ELSE "mark",
                                     !.todo = @ \ {i}, !.open = {i} \cap data,
                                     !.seen = [Idle.seen EXCEPT ![i] = markers[i]]]
  <2>1. ASSUME NEW i \in call[c].todo
        PROVE  k(i).todo = call[c].todo \ {i} /\ k(i).open \subseteq {i} /\ k(i).seen[i] = markers[i]
    <3>1. i \in Items
      BY <1>0 DEF CallType
    <3>2. [Idle.seen EXCEPT ![i] = markers[i]][i] = markers[i]
      BY <3>1 DEF Idle
    <3>3. k(i).seen = [Idle.seen EXCEPT ![i] = markers[i]]
      BY <1>0 DEF CallType
    <3> QED BY <1>0, <3>2, <3>3 DEF CallType
  <2>2. (\E i \in call[c].todo : Now(c, k(i))) \/ End(c, "ok")
    BY <1>4 DEF MarkRead
  <2> HIDE DEF k
  <2> QED BY <1>4, <2>1, <2>2, EndPc, NowIs DEF Over
<1> QED BY <1>1, <1>2, <1>3, <1>4

\* What a delete goes on with.
LEMMA ResolveTargets ==
  ASSUME TypeOK, CallsOK, NEW c \in Calls, Resolve(c), call'[c].pc \in DeleteSteps
  PROVE  /\ Ds(c) \in datasets /\ lock[Ds(c)] = None
         /\ call'[c].open = call[c].open
         /\ call'[c].whole = (call[c].req.kind = "dataset"
                              \/ (call[c].req.ifEmpty /\ LinkedTo(Ds(c)) \subseteq {It(c)}))
         /\ call'[c].cut = IF call[c].req.kind = "dataset" THEN LinkedTo(Ds(c)) ELSE {It(c)} \cap data
         /\ call'[c].todo = IF call[c].req.kind = "dataset" THEN call'[c].cut ELSE {It(c)}
         /\ call'[c].pc = FirstStep(call[c].req, call'[c].whole, call'[c].whole \/ call'[c].cut # {})
<1> DEFINE q == call[c].req
           whole == q.kind = "dataset" \/ (q.ifEmpty /\ LinkedTo(q.dataset) \subseteq {q.item})
           cut == IF q.kind = "dataset" THEN LinkedTo(q.dataset) ELSE {q.item} \cap data
           todo == IF q.kind = "dataset" THEN cut ELSE {q.item}
           pc == FirstStep(q, whole, whole \/ cut # {})
           k == [call[c] EXCEPT !.pc = pc, !.whole = whole, !.cut = cut, !.todo = todo]
<1>0. call \in [Calls -> CallType] /\ call[c] \in CallType
  BY DEF TypeOK
<1>1. (Now(c, k) /\ q.dataset \in datasets) \/ End(c, "failed")
  BY DEF Resolve
<1>2. Free(q.dataset)
  BY DEF Resolve
<1>3. Now(c, k) /\ q.dataset \in datasets
  BY <1>1, EndPc DEF DeleteSteps
<1> HIDE DEF whole, cut, todo, pc
<1>4. k.pc = pc /\ k.whole = whole /\ k.cut = cut /\ k.todo = todo /\ k.open = call[c].open
  BY <1>0 DEF CallType
<1> HIDE DEF k
<1>5. call'[c] = k
  BY <1>3, NowIs
<1>6. Ds(c) = q.dataset /\ It(c) = q.item
  BY DEF Ds, It
<1>7. /\ call'[c].whole = whole /\ call'[c].cut = cut /\ call'[c].todo = todo /\ call'[c].pc = pc
      /\ call'[c].open = call[c].open
  BY <1>4, <1>5
<1> HIDE DEF q
<1> QED BY <1>2, <1>3, <1>6, <1>7 DEF whole, cut, todo, pc, Free, q

LEMMA ClearMoves ==
  ASSUME TypeOK, NEW c \in Calls
  PROVE  /\ ClearRead(c) => /\ call'[c].open = {i \in ToClear(c) : Ds(c) \in markers[i]}
                            /\ call'[c].seen = markers /\ call'[c].todo = call[c].todo
         /\ ClearWrite(c) =>
              \/ \E i \in call[c].open :
                   /\ i \in data /\ Keeps(c, {"clearing"}) /\ call'[c].todo = call[c].todo
                   /\ call'[c].open = call[c].open \ {i} /\ call'[c].seen = call[c].seen
                   /\ markers' = [markers EXCEPT ![i] = call[c].seen[i] \ {Ds(c)}]
              \/ /\ call[c].open = {} /\ ~call[c].req.memory /\ markers' = markers
                 /\ Keeps(c, {FirstCleanup(call[c].whole)})
                 /\ call'[c].open = {} /\ call'[c].todo = call[c].todo
              \/ call'[c].pc = "failed" /\ markers' = markers
              \/ call'[c].pc = "ok" /\ call[c].open = {} /\ call[c].req.memory /\ markers' = markers
<1>0. call \in [Calls -> CallType] /\ call[c] \in CallType /\ markers \in [Items -> SUBSET Datasets]
  BY DEF TypeOK
<1>1. ASSUME ClearRead(c)
      PROVE  /\ call'[c].open = {i \in ToClear(c) : Ds(c) \in markers[i]}
             /\ call'[c].seen = markers /\ call'[c].todo = call[c].todo
  <2> DEFINE open == {i \in ToClear(c) : Ds(c) \in markers[i]}
             k == [call[c] EXCEPT !.pc = "clearing", !.open = open, !.seen = markers]
  <2>1. Now(c, k)
    BY <1>1 DEF ClearRead
  <2> HIDE DEF open
  <2>2. k.open = open /\ k.seen = markers /\ k.todo = call[c].todo
    BY <1>0 DEF CallType
  <2> HIDE DEF k
  <2> QED BY <2>1, <2>2, NowIs DEF open
<1>2. ASSUME NEW i \in call[c].open, ClearWrite(c), i \in data, Now(c, [call[c] EXCEPT !.open = @ \ {i}])
      PROVE  /\ Keeps(c, {"clearing"}) /\ call'[c].todo = call[c].todo
             /\ call'[c].open = call[c].open \ {i} /\ call'[c].seen = call[c].seen
  <2> DEFINE k == [call[c] EXCEPT !.open = @ \ {i}]
  <2>1. /\ k.pc = "clearing" /\ k.whole = call[c].whole /\ k.cut = call[c].cut
        /\ k.part = call[c].part /\ k.doomed = call[c].doomed
        /\ k.todo = call[c].todo /\ k.open = call[c].open \ {i} /\ k.seen = call[c].seen
    BY <1>0, <1>2 DEF CallType, ClearWrite
  <2>2. Now(c, k)
    BY <1>2
  <2> HIDE DEF k
  <2> QED BY <2>1, <2>2, NowIs DEF Keeps
<1>3. ASSUME call[c].open = {}, Now(c, [call[c] EXCEPT !.pc = FirstCleanup(call[c].whole), !.seen = Idle.seen])
      PROVE  /\ Keeps(c, {FirstCleanup(call[c].whole)})
             /\ call'[c].open = {} /\ call'[c].todo = call[c].todo
  <2> DEFINE pc == FirstCleanup(call[c].whole)
             k == [call[c] EXCEPT !.pc = pc, !.seen = Idle.seen]
  <2>2. Now(c, k)
    BY <1>3
  <2> HIDE DEF pc
  <2>1. /\ k.pc = pc /\ k.whole = call[c].whole /\ k.cut = call[c].cut
        /\ k.part = call[c].part /\ k.doomed = call[c].doomed
        /\ k.todo = call[c].todo /\ k.open = call[c].open
    BY <1>0 DEF CallType
  <2> HIDE DEF k
  <2> QED BY <1>3, <2>1, <2>2, NowIs DEF Keeps, pc
<1>4. ASSUME ClearWrite(c)
      PROVE  \/ \E i \in call[c].open :
                   /\ i \in data /\ Now(c, [call[c] EXCEPT !.open = @ \ {i}])
                   /\ markers' = [markers EXCEPT ![i] = call[c].seen[i] \ {Ds(c)}]
             \/ \E i \in call[c].open : End(c, "failed") /\ markers' = [markers EXCEPT ![i] = @]
             \/ /\ call[c].open = {} /\ ~call[c].req.memory /\ markers' = markers
                /\ Now(c, [call[c] EXCEPT !.pc = FirstCleanup(call[c].whole), !.seen = Idle.seen])
             \/ call[c].open = {} /\ call[c].req.memory /\ End(c, "ok") /\ markers' = markers
  BY <1>4 DEF ClearWrite
<1>5. \A i \in Items : [markers EXCEPT ![i] = @] = markers
  BY <1>0
<1>6. call[c].open \subseteq Items
  BY <1>0 DEF CallType
<1> QED BY <1>1, <1>2, <1>3, <1>4, <1>5, <1>6, EndPc

LEMMA StayMoves ==
  ASSUME TypeOK, NEW c \in Calls,
         SelectDataset(c) \/ SelectItem(c) \/ Wipe(c) \/ Unledger(c) \/ Detach(c) \/ DropDataset(c)
  PROVE  call'[c].todo = call[c].todo /\ call'[c].open = call[c].open
<1>0. call \in [Calls -> CallType] /\ call[c] \in CallType
  BY DEF TypeOK
<1>1. CASE Wipe(c) \/ Unledger(c) \/ Detach(c) \/ DropDataset(c)
  <2>1. PICK pc : Goto(c, pc)
    BY <1>1 DEF Wipe, Unledger, Detach, DropDataset
  <2> QED BY <1>0, <2>1 DEF Goto, Now, CallType
<1>2. CASE SelectDataset(c) \/ SelectItem(c)
  <2>1. PICK pc, part, doomed : Now(c, [call[c] EXCEPT !.pc = pc, !.part = part, !.doomed = doomed])
    BY <1>2 DEF SelectDataset, SelectItem
  <2> QED BY <1>0, <2>1 DEF Now, CallType
<1> QED BY <1>1, <1>2

-----------------------------------------------------------------------------
(* Markers.                                                                *)

\* The overlaps that spoil the marker of an item.
Mixed(d, i) == {<<"run", d>>, <<"marks", i>>, <<"add", i>>} \cap overlaps # {}
Marked(d, i) == d \in markers[i] /\ ~Mixed(d, i)

\* The item has its artifacts, and they their rows.
Present(d, i) == \A s \in Art[i] : <<d, s>> \in store
Rowed(d, i) == \A s \in Art[i] : <<d, i, s>> \in ledger
Sound(d, i) == Present(d, i) /\ Rowed(d, i)

\* A memory-only delete was cut off, or is at work and will clear the marker.
Forgot(d) ==
  \E c \in Calls : call[c].pc \in {"failed", "dead"} /\ call[c].req.memory /\ Ds(c) = d
Spoils(b, d, i) ==
  /\ call[b].pc \in DeleteSteps /\ call[b].req.memory /\ Ds(b) = d
  /\ call[b].req.kind = "dataset" \/ i \in call[b].cut
  /\ call[b].pc = "clearing" => i \in call[b].open
Spoiled(d, i) == \E b \in Calls : Spoils(b, d, i)

\* What a run has still to mark.
Pending(c) == call[c].todo \cup (IF call[c].pc = "marked" THEN call[c].open ELSE {})

RunOK(c) ==
  /\ call[c].pc \in CogSteps \ {"read"} =>
       \A i \in Pending(c) : <<Ds(c), i>> \in links \/ Mixed(Ds(c), i)
  /\ call[c].pc \in {"mark", "marked"} => \A i \in Pending(c) : Sound(Ds(c), i) \/ Met(Ds(c))

\* What a writer of markers writes back was there, or two have met.
SeenOK(c) ==
  call[c].pc \in {"marked", "clearing"} =>
    \A i \in call[c].open : \A d \in call[c].seen[i] : d \in markers[i] \/ Mixed(d, i)

\* The form of a delete.
FormOK(b) ==
  /\ call[b].pc = "select" => call[b].whole
  /\ call[b].pc \in {"wipe", "unledger"} /\ call[b].part = "dataset" => call[b].whole
  /\ call[b].pc \in {"wipe", "unledger"} /\ call[b].part = "item" =>
       call[b].cut = {It(b)} /\ call[b].req.kind = "item"
  /\ call[b].pc \in {"detach", "drop", "count", "file", "row"} => ~call[b].req.memory

Cleaning == {"select", "pick", "wipe", "unledger", "detach", "drop"}

\* Markers go before artifacts: nothing the delete is about to take is marked.
ClearedOK(b) ==
  /\ call[b].pc \in Cleaning /\ ~call[b].req.memory /\ (call[b].whole \/ call[b].cut # {}) =>
       \A i \in Items : ~Marked(Ds(b), i)
  /\ call[b].pc = "clearing" /\ ~call[b].req.memory =>
       \A i \in Items : Marked(Ds(b), i) => i \in call[b].open
  /\ call[b].pc \in DeleteSteps /\ call[b].req.memory /\ call[b].req.kind = "item" /\ call[b].whole =>
       \A i \in Items : Marked(Ds(b), i) => i \in call[b].cut
  /\ call[b].pc = "wipe" /\ call[b].part = "item" =>
       \A j \in Items \ call[b].cut : Marked(Ds(b), j) =>
         Art[j] \cap call[b].doomed = {} \/ Forgot(Ds(b))

MarksLinked == \A d \in Datasets, i \in Items : Marked(d, i) => <<d, i>> \in links
MarksKept ==
  \A d \in Datasets, i \in Items : Marked(d, i) => Sound(d, i) \/ Forgot(d) \/ Spoiled(d, i)

MarkInv ==
  /\ MarksLinked /\ MarksKept
  /\ \A c \in Calls : RunOK(c) /\ SeenOK(c) /\ FormOK(c) /\ ClearedOK(c)

LEMMA InitMarks == Init /\ isolated => MarkInv
<1> SUFFICES ASSUME Init, isolated PROVE MarkInv
  OBVIOUS
<1>1. \A c \in Calls : call[c].pc = "idle"
  BY DEF Init, Idle
<1>2. \A c \in Calls : RunOK(c) /\ SeenOK(c) /\ FormOK(c) /\ ClearedOK(c)
  BY <1>1 DEF RunOK, SeenOK, FormOK, ClearedOK, CogSteps, DeleteSteps, Cleaning
<1>3. ASSUME NEW d \in Datasets, NEW i \in Items, Marked(d, i)
      PROVE  <<d, i>> \in links /\ Sound(d, i)
  <2>1. <<d, i>> \in Cognified
    BY <1>3 DEF Marked, Init
  <2>2. Art[i] \subseteq Slugs
    BY LifeAssumption
  <2>3. Rowed(d, i)
    <3> SUFFICES ASSUME NEW s \in Art[i] PROVE <<d, i, s>> \in ledger
      BY DEF Rowed
    <3> QED BY <2>1, <2>2 DEF Init
  <2>4. Present(d, i)
    <3> SUFFICES ASSUME NEW s \in Art[i] PROVE <<d, s>> \in store
      BY DEF Present
    <3> DEFINE l == <<d, i>>
    <3>1. l \in Cognified /\ l[1] = d /\ l[2] = i
      BY <2>1
    <3>2. <<d, s>> \in In(l[1], Art[l[2]])
      BY <3>1 DEF In, Home
    <3> HIDE DEF l
    <3> QED BY <3>1, <3>2 DEF Init
  <2> QED BY <2>1, <2>3, <2>4, LifeAssumption DEF Sound, Init
<1> QED BY <1>2, <1>3 DEF MarkInv, MarksLinked, MarksKept

LEMMA MarksSuffice ==
  ASSUME TypeOK, CallsOK, isolated => MarkInv
  PROVE  MarkerSound
<1> SUFFICES ASSUME isolated, NEW l \in links, l[1] \in markers[l[2]]
             PROVE  \/ In(l[1], Art[l[2]]) \subseteq store
                    \/ Forgetting(l[1]) \/ {<<"run", l[1]>>, <<"marks", l[2]>>, <<"add", l[2]>>} \cap overlaps # {}
  BY DEF MarkerSound
<1>1. l[1] \in Datasets /\ l[2] \in Items
  BY DEF TypeOK
<1>2. CASE Marked(l[1], l[2])
  <2>1. Sound(l[1], l[2]) \/ Forgot(l[1]) \/ Spoiled(l[1], l[2])
    BY <1>1, <1>2 DEF MarkInv, MarksKept
  <2>2. Sound(l[1], l[2]) => In(l[1], Art[l[2]]) \subseteq store
    BY DEF Sound, Present, In, Home
  <2>3. Forgot(l[1]) \/ Spoiled(l[1], l[2]) => Forgetting(l[1])
    BY DEF Forgot, Spoiled, Spoils, Forgetting, DeleteSteps, Steps
  <2> QED BY <2>1, <2>2, <2>3
<1> QED BY <1>2 DEF Marked, Mixed

\* Overlaps and failures are there to stay.
LEMMA MixedStays ==
  ASSUME overlaps \subseteq overlaps'
  PROVE  \A d, i : (Mixed(d, i) => Mixed(d, i)') /\ (Met(d) => Met(d)') /\ (Met(d) => Mixed(d, i))
BY DEF Mixed, Met

LEMMA ForgotStays ==
  ASSUME NEW c \in Calls, \A e \in Calls \ {c} : call'[e] = call[e], call[c].pc \notin {"failed", "dead"},
         NEW d, Forgot(d)
  PROVE  Forgot(d)'
BY DEF Forgot, Ds

\* Two writers of one row's markers have met.
LEMMA MetMarks ==
  ASSUME TypeOK, Watched, NEW b \in Calls, NEW c \in Calls, b # c, NEW i,
         call[b].pc \in {"marked", "clearing"}, call[c].pc \in {"marked", "clearing"},
         i \in call[b].open, i \in call[c].open
  PROVE  <<"marks", i>> \in overlaps
<1>1. i \in Items
  BY DEF TypeOK, CallType
<1>2. b \in Markers /\ c \in Markers
  BY DEF Markers
<1>3. <<"marks", i>> \in Overlapping
  BY <1>1, <1>2 DEF Overlapping
<1> QED BY <1>3 DEF Watched

\* What a step does to links, artifacts and rows.
LEMMA LinkLoss ==
  ASSUME TypeOK, CallsOK, NEW c \in Calls, Step(c), NEW d, NEW i, <<d, i>> \in links, <<d, i>> \notin links'
  PROVE  \/ call[c].pc = "detach" /\ d = Ds(c) /\ i \in call[c].cut
         \/ call[c].pc = "drop" /\ d = Ds(c)
         \/ DeleteData(c) /\ call[c].pc = "row" /\ i \in call[c].open
<1>1. CASE AddAttach(c)
  BY <1>1 DEF AddAttach
<1>2. CASE Detach(c)
  BY <1>2 DEF Detach
<1>3. CASE DropDataset(c)
  BY <1>3 DEF DropDataset
<1>4. CASE DeleteData(c)
  BY <1>4 DEF DeleteData
<1>5. CASE Fail(c)
  <2>1. PICK part \in SUBSET UNION {{Ds(e)} \X call[e].cut : e \in {e \in {c} : call[e].pc = "detach"}} : links' = links \ part
    BY <1>5 DEF Fail, CutOff
  <2>2. <<d, i>> \in part
    BY <2>1
  <2> QED BY <2>1, <2>2
<1> QED BY <1>1, <1>2, <1>3, <1>4, <1>5, Effects

LEMMA StoreLoss ==
  ASSUME TypeOK, CallsOK, isolated, NEW c \in Calls, Step(c), NEW d, NEW i, Present(d, i), ~Present(d, i)'
  PROVE  /\ call[c].pc = "wipe" /\ d = Ds(c)
         /\ call[c].part = "item" => Art[i] \cap call[c].doomed # {}
<1>1. PICK s \in Art[i] : <<d, s>> \in store /\ <<d, s>> \notin store'
  BY DEF Present
<1>2. CASE CogWrite(c)
  BY <1>1, <1>2 DEF CogWrite
<1>3. CASE Wipe(c)
  BY <1>1, <1>3 DEF Wipe, Doomed, In, Home, TypeOK, CallType
<1>4. CASE Fail(c)
  <2>1. PICK part \in SUBSET UNION {Doomed(e) : e \in {e \in {c} : call[e].pc = "wipe"}} : store' = store \ part
    BY <1>4 DEF Fail, CutOff
  <2>2. <<d, s>> \in Doomed(c) /\ call[c].pc = "wipe"
    BY <1>1, <2>1
  <2> QED BY <1>1, <2>2 DEF Doomed, In, Home, TypeOK, CallType
<1> QED BY <1>1, <1>2, <1>3, <1>4, Effects

LEMMA RowLoss ==
  ASSUME TypeOK, CallsOK, NEW c \in Calls, Step(c), NEW d, NEW i, Rowed(d, i), ~Rowed(d, i)'
  PROVE  /\ d = Ds(c)
         /\ \/ call[c].pc = "drop"
            \/ call[c].pc = "unledger" /\ (call[c].part = "item" => i = It(c))
<1>1. PICK s \in Art[i] : <<d, i, s>> \in ledger /\ <<d, i, s>> \notin ledger'
  BY DEF Rowed
<1>2. CASE CogOwn(c)
  BY <1>1, <1>2 DEF CogOwn
<1>3. CASE Unledger(c)
  BY <1>1, <1>3 DEF Unledger
<1>4. CASE DropDataset(c)
  BY <1>1, <1>4 DEF DropDataset, RowsOf
<1> QED BY <1>1, <1>2, <1>3, <1>4, Effects

\* A marker is new only when a run writes its own.
LEMMA NewMark ==
  ASSUME TypeOK, CallsOK, MarkInv, NEW c \in Calls, Step(c), overlaps \subseteq overlaps',
         NEW d \in Datasets, NEW i \in Items, Marked(d, i)', ~Marked(d, i)
  PROVE  MarkWrite(c) /\ call[c].pc = "marked" /\ d = Ds(c) /\ i \in call[c].open
<1>1. d \in markers'[i] /\ ~Mixed(d, i) /\ d \notin markers[i]
  BY MixedStays DEF Marked
<1>2. SeenOK(c) /\ markers \in [Items -> SUBSET Datasets]
  BY DEF MarkInv, TypeOK
<1>3. CASE MarkWrite(c)
  <2>1. call[c].pc = "marked" /\ i \in call[c].open /\ d \in call[c].seen[i] \cup {Ds(c)}
    BY <1>1, <1>2, <1>3 DEF MarkWrite
  <2> QED BY <1>1, <1>2, <1>3, <2>1 DEF SeenOK
<1>4. CASE ClearWrite(c)
  <2>1. PICK j \in call[c].open : markers' = [markers EXCEPT ![j] = call[c].seen[j] \ {Ds(c)}]
    BY <1>1, <1>4, ClearMoves
  <2>2. i = j /\ d \in call[c].seen[i]
    BY <1>1, <1>2, <2>1
  <2> QED BY <1>1, <1>2, <1>4, <2>1, <2>2 DEF SeenOK, ClearWrite
<1>5. CASE DeleteData(c)
  BY <1>1, <1>2, <1>5 DEF DeleteData
<1> QED BY <1>1, <1>3, <1>4, <1>5, Effects

\* A dataset that is being deleted gets no new marker.
LEMMA NoNewMark ==
  ASSUME TypeOK, CallsOK, Watched, MarkInv, NEW c \in Calls, Step(c), overlaps \subseteq overlaps',
         NEW b \in Calls, call[b].pc \in DeleteSteps, NEW d, d = Ds(b), NEW i \in Items, Marked(d, i)'
  PROVE  Marked(d, i)
<1>1. d \in Datasets
  BY ActiveType DEF DeleteSteps
<1>2. SUFFICES ASSUME ~Marked(d, i) PROVE FALSE
  OBVIOUS
<1>3. call[c].pc = "marked" /\ d = Ds(c)
  BY <1>1, <1>2, NewMark
<1>4. Met(d)
  BY <1>3, RunMet DEF CogSteps
<1> QED BY <1>4, MixedStays DEF Marked

\* A step of a call that is at work, or begins.
LEMMA StepLive ==
  ASSUME TypeOK, NEW c \in Calls, Step(c)
  PROVE  /\ call[c].pc \notin Over
         /\ call[c].pc # "idle" => call'[c].req = call[c].req /\ Ds(c)' = Ds(c) /\ It(c)' = It(c)
<1>1. ASSUME NEW q \in Requests, Begin(c, q) PROVE call[c].pc = "idle"
  BY <1>1 DEF Begin
<1> QED BY <1>1, StepShape DEF Over, Steps, Ds, It

\* Where a delete is cut off or comes to its end.
LEMMA LeaveCases ==
  ASSUME TypeOK, NEW c \in Calls, Step(c), call[c].pc \in DeleteSteps, call'[c].pc \notin DeleteSteps
  PROVE  call'[c].pc = "failed" \/ ClearWrite(c) \/ Count(c)
<1>1. ASSUME \/ \E q \in Requests : Begin(c, q)
             \/ CreateLookup(c) \/ CreateGrant(c) \/ AddResolve(c) \/ AddGrant(c) \/ AddGet(c)
             \/ AddAttach(c) \/ AddInsert(c) \/ CreateInsert(c) \/ Resolve(c)
      PROVE  FALSE
  BY <1>1 DEF Begin, CreateLookup, CreateGrant, AddResolve, AddGrant, AddGet, AddAttach, AddInsert,
              CreateInsert, Resolve, DeleteSteps
<1>2. ASSUME CogRead(c) \/ CogOwn(c) \/ CogWrite(c) \/ MarkRead(c) \/ MarkWrite(c) PROVE FALSE
  BY <1>2 DEF CogRead, CogOwn, CogWrite, MarkRead, MarkWrite, DeleteSteps
<1>3. ASSUME ClearRead(c) \/ SelectDataset(c) \/ SelectItem(c) PROVE FALSE
  BY <1>3, MovePc, SelectDatasetMoves, SelectItemMoves DEF Keeps, AfterDataset, AfterCleanup, DeleteSteps
<1>4. ASSUME Wipe(c) \/ Unledger(c) \/ Detach(c) \/ DropDataset(c) \/ DeleteFile(c) \/ DeleteData(c) PROVE FALSE
  BY <1>4, MovePc DEF Keeps, AfterDataset, AfterCleanup, DeleteSteps
<1>5. Fail(c) => call'[c].pc = "failed"
  BY MixedPc
<1> QED BY <1>1, <1>2, <1>3, <1>4, <1>5 DEF Step

\* Every marker is of a linked item.
LEMMA StepLinked ==
  ASSUME TypeOK, CallsOK, OwnedInv, MarkInv, NEW c \in Calls, Step(c), overlaps \subseteq overlaps'
  PROVE  MarksLinked'
<1> SUFFICES ASSUME NEW d \in Datasets, NEW i \in Items, Marked(d, i)' PROVE <<d, i>> \in links'
  BY DEF MarksLinked
<1>1. ~Mixed(d, i)
  BY MixedStays DEF Marked
<1>2. CASE ~Marked(d, i)
  <2>1. MarkWrite(c) /\ call[c].pc = "marked" /\ d = Ds(c) /\ i \in call[c].open
    BY <1>2, NewMark
  <2>2. RunOK(c) /\ i \in Pending(c)
    BY <2>1 DEF MarkInv, Pending
  <2>3. <<d, i>> \in links
    BY <1>1, <2>1, <2>2 DEF RunOK, CogSteps
  <2> QED BY <2>1, <2>3 DEF MarkWrite, tables
<1>3. CASE Marked(d, i)
  <2>1. <<d, i>> \in links /\ FormOK(c) /\ ClearedOK(c) /\ DeleteOK(c)
    BY <1>3 DEF MarkInv, MarksLinked, OwnedInv
  <2>2. SUFFICES ASSUME <<d, i>> \notin links' PROVE FALSE
    OBVIOUS
  <2>3. CASE call[c].pc = "detach" /\ d = Ds(c) /\ i \in call[c].cut
    BY <1>3, <2>1, <2>3 DEF FormOK, ClearedOK, Cleaning
  <2>4. CASE call[c].pc = "drop" /\ d = Ds(c)
    BY <1>3, <2>1, <2>4 DEF FormOK, ClearedOK, Cleaning, DeleteOK, DeleteSteps
  <2>5. CASE DeleteData(c) /\ i \in call[c].open
    BY <2>5 DEF DeleteData, Marked
  <2> QED BY <2>1, <2>2, <2>3, <2>4, <2>5, LinkLoss
<1> QED BY <1>2, <1>3

\* A memory-only delete stays at its work until it has cleared the marker or fails.
LEMMA SpoiledStays ==
  ASSUME TypeOK, CallsOK, Watched, MarkInv, NEW c \in Calls, Step(c), overlaps \subseteq overlaps',
         NEW d \in Datasets, NEW i \in Items, Spoiled(d, i), Marked(d, i)'
  PROVE  Spoiled(d, i)' \/ Forgot(d)'
<1>1. PICK b \in Calls : Spoils(b, d, i)
  BY DEF Spoiled
<1>2. CASE b # c
  <2>1. call'[b] = call[b]
    BY <1>2, StepShape
  <2> QED BY <1>1, <2>1 DEF Spoils, Spoiled, Ds
<1>3. CASE b = c
  <2>1. /\ call[c].pc \in DeleteSteps /\ call[c].req.memory /\ Ds(c) = d /\ Ds(c)' = d
        /\ call'[c].req = call[c].req
        /\ call[c].req.kind \in Deletes
    BY <1>1, <1>3, StepLive DEF Spoils, DeleteSteps, CallsOK, CallOK
  <2>2. Marked(d, i) /\ <<d, i>> \in links /\ d \in markers[i] /\ d \in markers'[i]
    <3>1. Marked(d, i)
      BY <2>1, NoNewMark
    <3> QED BY <3>1 DEF MarkInv, MarksLinked, Marked
  <2>3. FormOK(c)
    BY DEF MarkInv
  <2>4. ASSUME call'[c].cut = call[c].cut, call'[c].pc \in DeleteSteps,
               call'[c].pc = "clearing" => i \in call'[c].open
        PROVE  Spoiled(d, i)'
    BY <1>1, <1>3, <2>1, <2>4 DEF Spoiled, Spoils
  <2>5. call'[c].pc = "failed" => Forgot(d)'
    BY <2>1 DEF Forgot
  <2>6. CASE ClearRead(c)
    <3>1. Keeps(c, {"clearing"}) /\ call'[c].open = {j \in ToClear(c) : Ds(c) \in markers[j]}
      BY <2>6, MovePc, ClearMoves
    <3>2. i \in ToClear(c)
      BY <1>1, <1>3, <2>1, <2>2 DEF ToClear, Spoils, LinkedTo, Deletes
    <3> QED BY <2>1, <2>2, <2>4, <3>1, <3>2 DEF Keeps, DeleteSteps
  <2>7. CASE ClearWrite(c)
    <3>0. call[c].pc = "clearing" /\ i \in call[c].open
      BY <1>1, <1>3, <2>7 DEF ClearWrite, Spoils
    <3>1. CASE \E j \in call[c].open :
                   /\ j \in data /\ Keeps(c, {"clearing"}) /\ call'[c].todo = call[c].todo
                   /\ call'[c].open = call[c].open \ {j} /\ call'[c].seen = call[c].seen
                   /\ markers' = [markers EXCEPT ![j] = call[c].seen[j] \ {Ds(c)}]
      <4>1. PICK j \in call[c].open :
                   /\ Keeps(c, {"clearing"}) /\ call'[c].open = call[c].open \ {j}
                   /\ markers' = [markers EXCEPT ![j] = call[c].seen[j] \ {Ds(c)}]
        BY <3>1
      <4>2. i # j
        BY <2>1, <2>2, <4>1 DEF TypeOK
      <4> QED BY <2>4, <3>0, <4>1, <4>2 DEF Keeps, DeleteSteps
    <3> QED BY <2>1, <2>5, <2>7, <3>0, <3>1, ClearMoves
  <2>8. CASE SelectDataset(c) \/ SelectItem(c)
    BY <2>4, <2>8, SelectDatasetMoves, SelectItemMoves DEF AfterDataset, AfterCleanup, DeleteSteps
  <2>9. CASE Wipe(c) \/ Unledger(c)
    BY <2>4, <2>9, MovePc DEF Keeps, AfterDataset, AfterCleanup, DeleteSteps
  <2>10. CASE Resolve(c) \/ Detach(c) \/ DropDataset(c) \/ Count(c) \/ DeleteFile(c) \/ DeleteData(c)
    BY <2>1, <2>3, <2>10 DEF Resolve, Detach, DropDataset, Count, DeleteFile, DeleteData, FormOK, DeleteSteps
  <2>11. CASE call'[c].pc \notin DeleteSteps
    BY <2>1, <2>5, <2>7, <2>10, <2>11, LeaveCases
  <2> QED BY <2>6, <2>7, <2>8, <2>9, <2>10, <2>11, DeleteCases
<1> QED BY <1>2, <1>3

\* Artifacts or rows of a marked item go only to a memory-only delete.
LEMMA Loss ==
  ASSUME TypeOK, CallsOK, isolated, OwnedInv, MarkInv, NEW c \in Calls, Step(c),
         NEW d \in Datasets, NEW i \in Items, Marked(d, i), Sound(d, i), ~Sound(d, i)'
  PROVE  Spoiled(d, i) \/ Forgot(d)
<1>1. FormOK(c) /\ ClearedOK(c) /\ DeleteOK(c)
  BY DEF MarkInv, OwnedInv
<1>2. ASSUME call[c].pc \in DeleteSteps, call[c].req.memory, d = Ds(c),
             call[c].req.kind = "dataset" \/ i \in call[c].cut, call[c].pc # "clearing"
      PROVE  Spoiled(d, i)
  BY <1>2 DEF Spoiled, Spoils
<1>3. call[c].part \in {"dataset", "item"}
  BY DEF TypeOK, CallType
<1>4. call[c].pc \in DeleteSteps => call[c].req.kind \in Deletes
  BY DEF CallsOK, CallOK
<1>5. CASE ~Present(d, i)'
  <2>1. /\ call[c].pc = "wipe" /\ d = Ds(c)
        /\ call[c].part = "item" => Art[i] \cap call[c].doomed # {}
    BY <1>5, StoreLoss DEF Sound
  <2>2. call[c].req.memory
    BY <1>1, <1>3, <2>1 DEF FormOK, ClearedOK, Cleaning
  <2>3. CASE call[c].part = "dataset"
    BY <1>1, <1>2, <1>4, <2>1, <2>2, <2>3 DEF FormOK, ClearedOK, DeleteSteps, Deletes
  <2>4. CASE call[c].part = "item"
    BY <1>1, <1>2, <2>1, <2>2, <2>4 DEF ClearedOK, DeleteSteps
  <2> QED BY <1>3, <2>3, <2>4
<1>6. CASE ~Rowed(d, i)'
  <2>1. /\ d = Ds(c)
        /\ \/ call[c].pc = "drop"
           \/ call[c].pc = "unledger" /\ (call[c].part = "item" => i = It(c))
    BY <1>6, RowLoss DEF Sound
  <2>2. call[c].pc = "unledger" /\ call[c].req.memory
    BY <1>1, <1>3, <2>1 DEF FormOK, ClearedOK, Cleaning, DeleteOK, DeleteSteps
  <2>3. CASE call[c].part = "dataset"
    BY <1>1, <1>2, <1>4, <2>1, <2>2, <2>3 DEF FormOK, ClearedOK, DeleteSteps, Deletes
  <2>4. CASE call[c].part = "item"
    BY <1>1, <1>2, <2>1, <2>2, <2>4 DEF FormOK, DeleteSteps
  <2> QED BY <1>3, <2>3, <2>4
<1> QED BY <1>5, <1>6 DEF Sound

LEMMA StepKept ==
  ASSUME TypeOK, CallsOK, Watched, isolated, OwnedInv, MarkInv, NEW c \in Calls, Step(c),
         overlaps \subseteq overlaps'
  PROVE  MarksKept'
<1> SUFFICES ASSUME NEW d \in Datasets, NEW i \in Items, Marked(d, i)'
             PROVE  Sound(d, i)' \/ Forgot(d)' \/ Spoiled(d, i)'
  BY DEF MarksKept
<1>1. ~Mixed(d, i) /\ ~Met(d)
  BY MixedStays DEF Marked
<1>2. CASE ~Marked(d, i)
  <2>1. MarkWrite(c) /\ call[c].pc = "marked" /\ d = Ds(c) /\ i \in call[c].open
    BY <1>2, NewMark
  <2>2. RunOK(c) /\ i \in Pending(c)
    BY <2>1 DEF MarkInv, Pending
  <2>3. Sound(d, i)
    BY <1>1, <2>1, <2>2 DEF RunOK
  <2>4. store' = store /\ ledger' = ledger
    BY <2>1 DEF MarkWrite
  <2> QED BY <2>3, <2>4 DEF Sound, Present, Rowed
<1>3. CASE Marked(d, i)
  <2>1. Sound(d, i) \/ Forgot(d) \/ Spoiled(d, i)
    BY <1>3 DEF MarkInv, MarksKept
  <2>2. Forgot(d) => Forgot(d)'
    BY StepShape, StepLive, ForgotStays DEF Over
  <2>3. Spoiled(d, i) => Spoiled(d, i)' \/ Forgot(d)'
    BY SpoiledStays
  <2>4. Sound(d, i) => Sound(d, i)' \/ Spoiled(d, i) \/ Forgot(d)
    BY <1>3, Loss
  <2> QED BY <2>1, <2>2, <2>3, <2>4
<1> QED BY <1>2, <1>3

\* A marker that another writer has seen goes only if the two have met.
LEMMA StepSeen ==
  ASSUME TypeOK, CallsOK, Watched, FilesInv, MarkInv, NEW c \in Calls, Step(c),
         overlaps \subseteq overlaps', NEW e \in Calls
  PROVE  SeenOK(e)'
<1>0. markers \in [Items -> SUBSET Datasets] /\ call \in [Calls -> CallType]
  BY DEF TypeOK
<1>1. CASE e # c
  <2>1. call'[e] = call[e]
    BY <1>1, StepShape
  <2> SUFFICES ASSUME call[e].pc \in {"marked", "clearing"}, NEW i \in call[e].open, NEW d \in call[e].seen[i]
               PROVE  d \in markers'[i] \/ Mixed(d, i)'
    BY <2>1 DEF SeenOK
  <2>2. d \in markers[i] \/ Mixed(d, i)
    BY DEF MarkInv, SeenOK
  <2>3. i \in Items /\ d \in Datasets
    BY <1>0 DEF CallType
  <2>4. ASSUME <<"marks", i>> \in overlaps \/ <<"add", i>> \in overlaps PROVE Mixed(d, i)'
    BY <2>4, MixedStays DEF Mixed
  <2>5. CASE MarkWrite(c)
    <3>1. i \notin call[c].open => markers'[i] = markers[i]
      BY <2>3, <2>5 DEF MarkWrite
    <3>2. i \in call[c].open => <<"marks", i>> \in overlaps
      BY <1>1, <2>5, MetMarks DEF MarkWrite
    <3> QED BY <2>2, <2>4, <3>1, <3>2, MixedStays
  <2>6. CASE ClearWrite(c)
    <3>1. i \notin call[c].open => markers'[i] = markers[i]
      BY <1>0, <2>3, <2>6, ClearMoves
    <3>2. i \in call[c].open => <<"marks", i>> \in overlaps
      BY <1>1, <2>6, MetMarks DEF ClearWrite
    <3> QED BY <2>2, <2>4, <3>1, <3>2, MixedStays
  <2>7. CASE DeleteData(c)
    <3>1. i \notin call[c].open => markers'[i] = markers[i]
      BY <2>3, <2>7 DEF DeleteData
    <3>2. i \in call[c].open => Unlinked(i) \/ <<"add", i>> \in overlaps
      BY <2>7 DEF DeleteData, FilesInv
    <3>3. Unlinked(i) => ~Marked(d, i)
      BY <2>3 DEF MarkInv, MarksLinked, Unlinked
    <3> QED BY <2>2, <2>4, <3>1, <3>2, <3>3, MixedStays DEF Marked
  <2> QED BY <2>2, <2>5, <2>6, <2>7, Effects, MixedStays
<1>2. CASE e = c
  <2> SUFFICES ASSUME call'[c].pc \in {"marked", "clearing"}, NEW i \in call'[c].open, NEW d \in call'[c].seen[i]
               PROVE  d \in markers'[i] \/ Mixed(d, i)'
    BY <1>2 DEF SeenOK
  <2>1. CASE MarkRead(c)
    <3>1. call'[c].seen[i] = markers[i]
      BY <2>1, RunMoves DEF Over
    <3> QED BY <2>1, <3>1 DEF MarkRead, base
  <2>2. CASE ClearRead(c)
    BY <2>2, ClearMoves DEF ClearRead, base
  <2>3. CASE ClearWrite(c)
    <3>1. PICK j \in call[c].open :
               /\ call'[c].open = call[c].open \ {j} /\ call'[c].seen = call[c].seen
               /\ markers' = [markers EXCEPT ![j] = call[c].seen[j] \ {Ds(c)}]
      BY <2>3, ClearMoves DEF Keeps, FirstCleanup
    <3>2. i \in call[c].open /\ markers'[i] = markers[i] /\ d \in call[c].seen[i]
      BY <1>0, <3>1 DEF CallType
    <3> QED BY <2>3, <3>2, MixedStays DEF MarkInv, SeenOK, ClearWrite
  <2>4. CASE CogRead(c) \/ CogOwn(c) \/ CogWrite(c) \/ MarkWrite(c)
    BY <2>4, MovePc, MixedPc DEF Over
  <2>5. CASE \/ Resolve(c) \/ SelectDataset(c) \/ SelectItem(c) \/ Wipe(c) \/ Unledger(c)
             \/ Detach(c) \/ DropDataset(c) \/ Count(c) \/ DeleteFile(c) \/ DeleteData(c)
    BY <2>5, ResolveMoves, MovePc, MixedDelete, SelectDatasetMoves, SelectItemMoves
       DEF Over, Keeps, AfterDataset, AfterCleanup
  <2> QED BY <2>1, <2>2, <2>3, <2>4, <2>5, RunCases, DeleteCases DEF CogSteps, DeleteSteps
<1> QED BY <1>1, <1>2

\* The items of a run stay linked, and keep what it has written for them, unless a
\* delete has met it.
LEMMA OtherRun ==
  ASSUME TypeOK, CallsOK, Watched, FilesInv, isolated, MarkInv, NEW c \in Calls, Step(c),
         overlaps \subseteq overlaps', NEW e \in Calls, e # c
  PROVE  RunOK(e)'
<1>1. call'[e] = call[e] /\ Ds(e)' = Ds(e) /\ Pending(e)' = Pending(e) /\ RunOK(e)
  BY StepShape DEF Ds, Pending, MarkInv
<1>2. ASSUME call[e].pc \in CogSteps \ {"read"}, call[c].pc \in DeleteSteps, Ds(c) = Ds(e) PROVE Met(Ds(e))
  BY <1>2, RunMet
<1>3. call[e].pc \in CogSteps => Ds(e) \in Datasets
  BY ActiveType DEF CogSteps
<1>4. ASSUME call[e].pc \in CogSteps \ {"read"}, NEW i \in Pending(e)
      PROVE  <<Ds(e), i>> \in links' \/ Mixed(Ds(e), i)
  <2>1. SUFFICES ASSUME <<Ds(e), i>> \in links, <<Ds(e), i>> \notin links' PROVE Mixed(Ds(e), i)
    BY <1>1, <1>4 DEF RunOK
  <2>2. CASE call[c].pc \in {"detach", "drop"} /\ Ds(e) = Ds(c)
    BY <1>2, <1>4, <2>2, MixedStays DEF DeleteSteps
  <2>3. CASE call[c].pc = "row" /\ i \in call[c].open
    <3>1. ~Unlinked(i)
      BY <1>3, <1>4, <2>1 DEF Unlinked
    <3> QED BY <2>3, <3>1 DEF FilesInv, Mixed
  <2> QED BY <2>1, <2>2, <2>3, LinkLoss
<1>5. ASSUME call[e].pc \in {"mark", "marked"}, NEW i \in Pending(e)
      PROVE  Sound(Ds(e), i)' \/ Met(Ds(e))
  <2>0. ASSUME NEW d, d = Ds(e) PROVE Sound(d, i)' \/ Met(d)
    <3>1. SUFFICES ASSUME Sound(d, i), ~Sound(d, i)' PROVE Met(d)
      BY <1>1, <1>5, <2>0 DEF RunOK
    <3>2. call[c].pc \in DeleteSteps /\ d = Ds(c)
      BY <3>1, StoreLoss, RowLoss DEF Sound, DeleteSteps
    <3> QED BY <1>2, <1>5, <2>0, <3>2 DEF CogSteps
  <2>1. PICK d : d = Ds(e)
    OBVIOUS
  <2>2. Sound(d, i)' => Sound(Ds(e), i)'
    BY <1>1, <2>1
  <2> QED BY <2>0, <2>1, <2>2
<1>6. \A i : (Mixed(Ds(e), i) => Mixed(Ds(e), i)') /\ (Met(Ds(e)) => Met(Ds(e))')
  BY <1>1 DEF Mixed, Met
<1> QED BY <1>1, <1>4, <1>5, <1>6 DEF RunOK

LEMMA OwnRun ==
  ASSUME TypeOK, CallsOK, isolated, OwnedInv, MarkInv, NEW c \in Calls, Step(c),
         overlaps \subseteq overlaps'
  PROVE  RunOK(c)'
<1> SUFFICES ASSUME call'[c].pc \in CogSteps \ {"read"} PROVE RunOK(c)'
  BY DEF RunOK, CogSteps
<1>0. RunOK(c)
  BY DEF MarkInv
<1>1. call[c].pc # "idle"
  BY RunCases DEF CogRead, CogOwn, CogWrite, MarkRead, MarkWrite
<1>2. Ds(c)' = Ds(c)
  BY <1>1, StepLive
<1>3. \A i : (Mixed(Ds(c), i) => Mixed(Ds(c), i)') /\ (Met(Ds(c)) => Met(Ds(c))')
  BY <1>2 DEF Mixed, Met
<1>4. CASE CogRead(c)
  <2>1. call'[c].pc = "own" /\ call'[c].todo \subseteq LinkedTo(Ds(c)) /\ links' = links
    BY <1>4, RunMoves, MixedPc DEF CogRead, base, tables, Over, CogSteps
  <2> QED BY <1>2, <2>1 DEF RunOK, Pending, LinkedTo
<1>5. CASE CogOwn(c)
  <2>1. call[c].pc = "own" /\ call'[c].pc = "write" /\ call'[c].todo = call[c].todo /\ links' = links
    BY <1>5, MixedPc DEF CogOwn, tables, Over, CogSteps
  <2> QED BY <1>0, <1>2, <1>3, <2>1 DEF RunOK, Pending, CogSteps
<1>6. CASE CogWrite(c)
  <2>1. /\ call[c].pc = "write" /\ call'[c].pc = "mark" /\ call'[c].todo = call[c].todo
        /\ links' = links /\ ledger' = ledger /\ store' = store \cup In(Ds(c), Produced(c))
    BY <1>6, MovePc, RunMoves DEF CogWrite, tables
  <2>2. WriteOK(c)
    BY DEF OwnedInv
  <2>3. ASSUME NEW i \in call[c].todo, ~Met(Ds(c)) PROVE Sound(Ds(c), i)'
    <3>1. Rowed(Ds(c), i)'
      BY <1>2, <2>1, <2>2, <2>3 DEF WriteOK, Rowed
    <3>2. ASSUME NEW s \in Art[i] PROVE <<Ds(c), s>> \in store'
      BY <2>1, <2>3 DEF In, Home, Produced
    <3>3. Present(Ds(c), i)'
      BY <1>2, <3>2 DEF Present
    <3> QED BY <3>1, <3>3 DEF Sound
  <2> QED BY <1>0, <1>2, <1>3, <2>1, <2>3 DEF RunOK, Pending, CogSteps
<1>7. CASE MarkRead(c)
  <2>1. call[c].pc = "mark" /\ links' = links /\ ledger' = ledger /\ store' = store
    BY <1>7 DEF MarkRead, base, tables
  <2>2. PICK i \in call[c].todo : call'[c].todo = call[c].todo \ {i} /\ call'[c].open \subseteq {i}
    BY <1>7, RunMoves DEF Over, CogSteps
  <2>3. Pending(c)' \subseteq Pending(c)
    BY <2>1, <2>2 DEF Pending
  <2>4. \A j : Sound(Ds(c), j)' = Sound(Ds(c), j)
    BY <1>2, <2>1 DEF Sound, Present, Rowed
  <2> QED BY <1>0, <1>2, <1>3, <2>1, <2>3, <2>4 DEF RunOK, CogSteps
<1>8. CASE MarkWrite(c)
  <2>1. /\ call[c].pc = "marked" /\ call'[c].pc = "mark" /\ call'[c].todo = call[c].todo
        /\ links' = links /\ ledger' = ledger /\ store' = store
    BY <1>8, MovePc, RunMoves DEF MarkWrite, tables
  <2>3. Pending(c)' \subseteq Pending(c)
    BY <2>1 DEF Pending
  <2>4. \A j : Sound(Ds(c), j)' = Sound(Ds(c), j)
    BY <1>2, <2>1 DEF Sound, Present, Rowed
  <2> QED BY <1>0, <1>2, <1>3, <2>1, <2>3, <2>4 DEF RunOK, CogSteps
<1> QED BY <1>4, <1>5, <1>6, <1>7, <1>8, RunCases

\* An item is wiped by itself only if its link is there to be cut.
LEMMA PickSome ==
  ASSUME TypeOK, NEW c \in Calls, SelectItem(c), call'[c].pc = "wipe"
  PROVE  call[c].cut # {}
<1> DEFINE gone == {i \in call[c].cut : Deletable(i) /\ \E s \in Slugs : <<Ds(c), i, s>> \in ledger}
           doomed == UNION {UniqueTo(Ds(c), i) : i \in gone}
           pc == IF gone # {} THEN "wipe" ELSE AfterCleanup(c)
           k == [call[c] EXCEPT !.pc = pc, !.part = "item", !.doomed = doomed]
<1>1. Now(c, k)
  BY DEF SelectItem
<1>2. pc = "wipe" => call[c].cut # {}
  BY DEF AfterCleanup
<1> HIDE DEF pc, doomed
<1>3. k.pc = pc
  BY DEF TypeOK, CallType
<1> HIDE DEF k
<1> QED BY <1>1, <1>2, <1>3, NowIs

LEMMA StepForm ==
  ASSUME TypeOK, CallsOK, isolated, OwnedInv, MarkInv, NEW c \in Calls, Step(c), NEW e \in Calls
  PROVE  FormOK(e)'
<1>0. FormOK(e) /\ FormOK(c) /\ DeleteOK(c) /\ call[c].part \in {"dataset", "item"}
  BY DEF MarkInv, OwnedInv, TypeOK, CallType
<1>1. CASE e # c
  <2>1. call'[e] = call[e]
    BY <1>1, StepShape
  <2> QED BY <1>0, <2>1 DEF FormOK, It
<1>2. CASE call'[c].pc \notin DeleteSteps
  BY <1>1, <1>2 DEF FormOK, DeleteSteps
<1>3. CASE e = c /\ call'[c].pc \in DeleteSteps
  <2>0. call[c].pc # "idle"
    BY <1>3, DeleteCases DEF Resolve, ClearRead, ClearWrite, SelectDataset, SelectItem, Wipe, Unledger,
          Detach, DropDataset, Count, DeleteFile, DeleteData
  <2>1. call'[c].req = call[c].req /\ It(c)' = It(c)
    BY <2>0, StepLive
  <2>2. call[c].pc \in DeleteSteps => call[c].req.kind \in Deletes
    BY DEF CallsOK, CallOK
  <2>3. CASE Resolve(c)
    <3>1. call'[c].pc = FirstStep(call[c].req, call'[c].whole, call'[c].whole \/ call'[c].cut # {})
      BY <1>3, <2>3, ResolveTargets
    <3>2. call'[c].pc \in {"clear", "select", "pick"} /\ (call'[c].pc = "select" => call'[c].whole)
      BY <3>1 DEF FirstStep, FirstCleanup
    <3> QED BY <1>3, <3>2 DEF FormOK
  <2>4. CASE ClearRead(c)
    BY <1>3, <2>4, MovePc DEF Keeps, FormOK
  <2>5. CASE ClearWrite(c)
    <3>1. Keeps(c, {"clearing", FirstCleanup(call[c].whole)})
      BY <1>3, <2>5, MixedDelete DEF Over, DeleteSteps
    <3>2. call'[c].pc \in {"clearing", "select", "pick"} /\ (call'[c].pc = "select" => call'[c].whole)
      BY <3>1 DEF Keeps, FirstCleanup
    <3> QED BY <1>3, <3>2 DEF FormOK
  <2>6. CASE SelectDataset(c)
    <3>1. call[c].pc = "select" /\ call'[c].pc = "wipe" /\ call'[c].part = "dataset" /\ call'[c].whole = call[c].whole
      BY <2>6, SelectDatasetMoves DEF SelectDataset
    <3> QED BY <1>0, <1>3, <3>1 DEF FormOK
  <2>7. CASE SelectItem(c)
    <3>1. /\ call[c].pc = "pick" /\ call'[c].part = "item" /\ call'[c].cut = call[c].cut
          /\ call'[c].pc \in {AfterCleanup(c), "wipe"}
      BY <2>7, SelectItemMoves DEF SelectItem
    <3>2. call'[c].pc = "wipe" => call[c].cut # {}
      BY <2>7, PickSome
    <3>3. call[c].req.kind = "item" /\ call[c].cut \subseteq {It(c)}
      BY <1>0, <3>1 DEF DeleteOK, DeleteSteps
    <3>4. call'[c].pc = "wipe" => call'[c].cut = {It(c)}
      BY <3>1, <3>2, <3>3
    <3> QED BY <1>3, <2>1, <3>1, <3>3, <3>4 DEF FormOK, AfterCleanup
  <2>8. CASE Wipe(c)
    BY <1>0, <1>3, <2>1, <2>8, MovePc DEF Wipe, Keeps, FormOK
  <2>9. CASE Unledger(c)
    <3>1. call'[c].pc \in {"pick", "clear", "detach"} /\ (call'[c].pc = "detach" => ~call[c].req.memory)
      BY <2>9, MovePc DEF Keeps, AfterDataset, AfterCleanup
    <3> QED BY <1>3, <2>1, <3>1 DEF FormOK
  <2>10. CASE Detach(c) \/ DropDataset(c) \/ Count(c) \/ DeleteFile(c) \/ DeleteData(c)
    <3>1. call[c].pc \in {"detach", "drop", "count", "file", "row"} /\ ~call[c].req.memory
      BY <1>0, <2>10 DEF FormOK, Detach, DropDataset, Count, DeleteFile, DeleteData
    <3>2. call'[c].pc \in {"detach", "drop", "count", "file", "row"}
      BY <1>3, <2>10, MovePc, MixedDelete DEF Keeps, Over, DeleteSteps
    <3> QED BY <1>3, <2>1, <3>1, <3>2 DEF FormOK
  <2> QED BY <1>3, <2>3, <2>4, <2>5, <2>6, <2>7, <2>8, <2>9, <2>10, DeleteCases
<1> QED BY <1>1, <1>2, <1>3

LEMMA OtherCleared ==
  ASSUME TypeOK, CallsOK, Watched, MarkInv, NEW c \in Calls, Step(c), overlaps \subseteq overlaps',
         NEW e \in Calls, e # c
  PROVE  ClearedOK(e)'
<1>1. call'[e] = call[e] /\ Ds(e)' = Ds(e) /\ ClearedOK(e)
  BY StepShape DEF Ds, MarkInv
<1>2. ASSUME call[e].pc \in DeleteSteps, NEW i \in Items, Marked(Ds(e), i)' PROVE Marked(Ds(e), i)
  <2>1. PICK d : d = Ds(e)
    OBVIOUS
  <2>2. Marked(d, i)'
    BY <1>1, <1>2, <2>1
  <2> QED BY <1>2, <2>1, <2>2, NoNewMark
<1>3. Forgot(Ds(e)) => Forgot(Ds(e))'
  <2>1. PICK d : d = Ds(e)
    OBVIOUS
  <2>2. Forgot(d) => Forgot(d)'
    BY StepShape, StepLive, ForgotStays DEF Over
  <2> QED BY <1>1, <2>1, <2>2
<1> QED BY <1>1, <1>2, <1>3 DEF ClearedOK, Cleaning, DeleteSteps

\* A delete clears markers before it takes artifacts, or afterwards only its own.
LEMMA OwnCleared ==
  ASSUME TypeOK, CallsOK, Watched, isolated, OwnedInv, MarkInv, NEW c \in Calls, Step(c),
         overlaps \subseteq overlaps'
  PROVE  ClearedOK(c)'
<1> SUFFICES ASSUME call'[c].pc \in DeleteSteps PROVE ClearedOK(c)'
  BY DEF ClearedOK, Cleaning, DeleteSteps
<1>0. ClearedOK(c) /\ FormOK(c) /\ DeleteOK(c) /\ MarksLinked /\ MarksKept
  BY DEF MarkInv, OwnedInv
<1>1. call[c].pc # "idle"
  BY DeleteCases DEF Resolve, ClearRead, ClearWrite, SelectDataset, SelectItem, Wipe, Unledger,
          Detach, DropDataset, Count, DeleteFile, DeleteData
<1>2. call'[c].req = call[c].req /\ It(c)' = It(c) /\ Ds(c)' = Ds(c) /\ Ds(c) \in Datasets
  BY <1>1, StepLive, ActiveType
<1>3. PICK d \in Datasets : d = Ds(c)
  BY <1>2
<1>4. \A i \in Items : Marked(Ds(c), i)' <=> Marked(d, i)'
  BY <1>2, <1>3
<1>5. Forgot(d) => Forgot(Ds(c))'
  <2>1. Forgot(d) => Forgot(d)'
    BY StepShape, StepLive, ForgotStays DEF Over
  <2> QED BY <1>2, <1>3, <2>1
<1>6. ASSUME call[c].pc \in DeleteSteps, NEW i \in Items, Marked(d, i)' PROVE Marked(d, i)
  BY <1>3, <1>6, NoNewMark
<1>7. call[c].pc \in DeleteSteps => call[c].req.kind \in Deletes
  BY DEF CallsOK, CallOK
<1>8. ASSUME NEW i \in Items, Marked(d, i) PROVE <<d, i>> \in links /\ d \in markers[i]
  BY <1>0, <1>8 DEF MarksLinked, Marked
\* A delete that goes on within its work.
<1>9. ASSUME call[c].pc \in Cleaning, Keeps(c, DeleteSteps), call'[c].pc # "clearing",
             call'[c].pc # "wipe"
      PROVE  ClearedOK(c)'
  <2>1. call[c].pc \in DeleteSteps
    BY <1>9 DEF Cleaning, DeleteSteps
  <2>2. /\ call'[c].whole = call[c].whole /\ call'[c].cut = call[c].cut
    BY <1>9 DEF Keeps
  <2> QED BY <1>0, <1>2, <1>3, <1>4, <1>6, <1>9, <2>1, <2>2 DEF ClearedOK
<1>10. CASE Resolve(c)
  <2>1. /\ call'[c].whole = (call[c].req.kind = "dataset"
                              \/ (call[c].req.ifEmpty /\ LinkedTo(Ds(c)) \subseteq {It(c)}))
        /\ call'[c].cut = IF call[c].req.kind = "dataset" THEN LinkedTo(Ds(c)) ELSE {It(c)} \cap data
        /\ call'[c].pc = FirstStep(call[c].req, call'[c].whole, call'[c].whole \/ call'[c].cut # {})
    BY <1>10, ResolveTargets
  <2>2. call'[c].pc \in Cleaning /\ ~call[c].req.memory => ~(call'[c].whole \/ call'[c].cut # {})
    BY <2>1 DEF FirstStep, Cleaning
  <2>3. call'[c].pc \notin {"clearing", "wipe"}
    BY <2>1 DEF FirstStep, FirstCleanup
  <2>4. ASSUME call[c].req.kind = "item", call'[c].whole, NEW i \in Items, Marked(Ds(c), i)'
        PROVE  i \in call'[c].cut
    <3>1. markers' = markers
      BY <1>10 DEF Resolve, base
    <3>2. Marked(d, i)
      BY <1>4, <2>4, <3>1, MixedStays DEF Marked
    <3>3. <<d, i>> \in links
      BY <1>8, <3>2
    <3>4. i \in data /\ i \in LinkedTo(Ds(c))
      BY <1>3, <3>3 DEF TypeOK, LinkedTo
    <3> QED BY <2>1, <2>4, <3>4
  <2> QED BY <1>2, <2>2, <2>3, <2>4 DEF ClearedOK
<1>11. CASE ClearRead(c)
  <2>1. /\ Keeps(c, {"clearing"}) /\ call'[c].open = {i \in ToClear(c) : Ds(c) \in markers[i]}
        /\ call[c].pc \in DeleteSteps
    BY <1>11, MovePc, ClearMoves DEF ClearRead, DeleteSteps
  <2>2. ASSUME ~call[c].req.memory, NEW i \in Items, Marked(d, i)' PROVE i \in call'[c].open
    <3>1. <<d, i>> \in links /\ d \in markers[i]
      BY <1>6, <1>8, <2>1, <2>2
    <3>2. i \in ToClear(c)
      BY <1>3, <2>2, <3>1 DEF ToClear, LinkedTo
    <3> QED BY <1>3, <2>1, <3>1, <3>2
  <2>3. call'[c].pc = "clearing" /\ call'[c].whole = call[c].whole /\ call'[c].cut = call[c].cut
    BY <2>1 DEF Keeps
  <2> QED BY <1>0, <1>2, <1>3, <1>4, <1>6, <2>1, <2>2, <2>3 DEF ClearedOK, Cleaning
<1>12. CASE ClearWrite(c)
  <2>0. call[c].pc = "clearing" /\ call[c].pc \in DeleteSteps
    BY <1>12 DEF ClearWrite, DeleteSteps
  <2>1. CASE \E i \in call[c].open :
                   /\ i \in data /\ Keeps(c, {"clearing"}) /\ call'[c].todo = call[c].todo
                   /\ call'[c].open = call[c].open \ {i} /\ call'[c].seen = call[c].seen
                   /\ markers' = [markers EXCEPT ![i] = call[c].seen[i] \ {Ds(c)}]
    <3>1. PICK i \in call[c].open :
                   /\ Keeps(c, {"clearing"}) /\ call'[c].open = call[c].open \ {i}
                   /\ markers' = [markers EXCEPT ![i] = call[c].seen[i] \ {Ds(c)}]
      BY <2>1
    <3>2. i \in Items => ~Marked(d, i)'
      BY <1>3, <3>1 DEF Marked, TypeOK
    <3>3. call'[c].pc = "clearing" /\ call'[c].whole = call[c].whole /\ call'[c].cut = call[c].cut
      BY <3>1 DEF Keeps
    <3> QED BY <1>0, <1>2, <1>3, <1>4, <1>6, <2>0, <3>1, <3>2, <3>3 DEF ClearedOK, Cleaning
  <2>2. CASE /\ call[c].open = {} /\ ~call[c].req.memory /\ markers' = markers
             /\ Keeps(c, {FirstCleanup(call[c].whole)})
    <3>1. call'[c].pc \in {"select", "pick"}
      BY <2>2 DEF Keeps, FirstCleanup
    <3> QED BY <1>0, <1>2, <1>3, <1>4, <1>6, <2>0, <2>2, <3>1 DEF ClearedOK
  <2> QED BY <1>12, <2>1, <2>2, ClearMoves DEF DeleteSteps
<1>13. CASE SelectDataset(c)
  <2>1. /\ call[c].pc = "select" /\ call'[c].pc = "wipe" /\ call'[c].part = "dataset"
        /\ call'[c].whole = call[c].whole /\ call'[c].cut = call[c].cut
    BY <1>13, SelectDatasetMoves DEF SelectDataset
  <2> QED BY <1>0, <1>2, <1>3, <1>4, <1>6, <2>1 DEF ClearedOK, Cleaning, DeleteSteps
<1>14. CASE SelectItem(c)
  <2>1. /\ call[c].pc = "pick" /\ call'[c].part = "item"
        /\ call'[c].whole = call[c].whole /\ call'[c].cut = call[c].cut
        /\ \/ call'[c].pc = AfterCleanup(c)
           \/ /\ call'[c].pc = "wipe"
              /\ call[c].cut \subseteq {It(c)} => call'[c].doomed = UniqueTo(Ds(c), It(c))
    BY <1>14, SelectItemMoves DEF SelectItem
  <2>2. call[c].req.kind = "item" /\ call[c].cut \subseteq {It(c)} /\ call[c].pc \in DeleteSteps
    BY <1>0, <2>1 DEF DeleteOK, DeleteSteps
  <2>3. call'[c].pc \in {"clear", "detach", "wipe"}
    BY <2>1 DEF AfterCleanup
  <2>4. ASSUME call'[c].pc = "wipe", NEW j \in Items \ call[c].cut, Marked(d, j)'
        PROVE  Art[j] \cap call'[c].doomed = {} \/ Forgot(d)
    <3>1. Marked(d, j)
      BY <1>6, <2>2, <2>4
    <3>2. ~Spoiled(d, j)
      <4> SUFFICES ASSUME NEW b \in Calls, Spoils(b, d, j) PROVE FALSE
        BY DEF Spoiled
      <4>1. b = c
        BY <1>3, <2>2, OneDelete DEF Spoils
      <4> QED BY <2>2, <2>4, <4>1 DEF Spoils
    <3>3. Sound(d, j) \/ Forgot(d)
      BY <1>0, <3>1, <3>2 DEF MarksKept
    <3>4. call[c].cut = {It(c)}
      BY <1>14, <2>2, <2>4, PickSome
    <3>5. call'[c].doomed = UniqueTo(d, It(c)) /\ j # It(c)
      BY <1>3, <2>1, <2>2, <2>4, <3>4 DEF AfterCleanup
    <3>6. ASSUME NEW s \in Art[j], Rowed(d, j) PROVE s \notin UniqueTo(d, It(c))
      BY <2>4, <3>5, <3>6 DEF Rowed, UniqueTo
    <3> QED BY <3>3, <3>5, <3>6 DEF Sound
  <2> QED BY <1>0, <1>2, <1>3, <1>4, <1>5, <1>6, <2>1, <2>2, <2>3, <2>4 DEF ClearedOK, Cleaning
<1>15. CASE Wipe(c)
  <2>1. call[c].pc = "wipe" /\ Keeps(c, {"unledger"})
    BY <1>15, MovePc DEF Wipe
  <2> QED BY <1>9, <2>1 DEF Keeps, Cleaning, DeleteSteps
<1>16. CASE Unledger(c)
  <2>1. call[c].pc = "unledger" /\ Keeps(c, {"pick", "clear", "detach"})
    BY <1>16, MovePc DEF Unledger, Keeps, AfterDataset, AfterCleanup
  <2> QED BY <1>9, <2>1 DEF Keeps, Cleaning, DeleteSteps
<1>17. CASE Detach(c) \/ DropDataset(c)
  <2>1. call[c].pc \in {"detach", "drop"} /\ Keeps(c, {"drop", "count"})
    BY <1>17, MovePc DEF Detach, DropDataset, Keeps
  <2> QED BY <1>9, <2>1 DEF Keeps, Cleaning, DeleteSteps
<1>18. CASE Count(c) \/ DeleteFile(c) \/ DeleteData(c)
  <2>1. call[c].pc \in {"count", "file", "row"}
    BY <1>18 DEF Count, DeleteFile, DeleteData
  <2>2. call'[c].pc \in {"count", "file", "row"} /\ ~call[c].req.memory
    BY <1>0, <1>18, <2>1, MovePc, MixedDelete DEF Keeps, FormOK, Over, DeleteSteps
  <2> QED BY <1>2, <2>2 DEF ClearedOK, Cleaning
<1> QED BY <1>10, <1>11, <1>12, <1>13, <1>14, <1>15, <1>16, <1>17, <1>18, DeleteCases

LEMMA CrashMarks ==
  ASSUME TypeOK, CallsOK, isolated, OwnedInv, MarkInv, Crash, overlaps \subseteq overlaps'
  PROVE  MarkInv'
<1>1. /\ isolated' = isolated /\ markers' = markers /\ ledger' = ledger
      /\ \A c \in Calls : /\ call'[c].req = call[c].req
                          /\ call[c].pc \in Steps => call'[c].pc = "dead"
                          /\ call[c].pc \notin Steps => call'[c] = call[c]
  BY DEF Crash, Active, Ended, Idle
<1>2. \A c \in Calls : call'[c].pc \notin Steps
  BY <1>1 DEF Steps
<1>3. \A c \in Calls : RunOK(c)' /\ SeenOK(c)' /\ FormOK(c)' /\ ClearedOK(c)'
  BY <1>2 DEF RunOK, SeenOK, FormOK, ClearedOK, CogSteps, DeleteSteps, Cleaning, Steps
<1>4. ASSUME NEW d \in Datasets, NEW i \in Items, Marked(d, i)' PROVE Marked(d, i)
  BY <1>1, <1>4, MixedStays DEF Marked
<1>5. MarksLinked'
  <2> SUFFICES ASSUME NEW d \in Datasets, NEW i \in Items, Marked(d, i)', <<d, i>> \notin links' PROVE FALSE
    BY DEF MarksLinked
  <2>1. Marked(d, i) /\ <<d, i>> \in links
    BY <1>4 DEF MarkInv, MarksLinked
  <2>2. PICK part \in SUBSET UNION {{Ds(e)} \X call[e].cut : e \in {e \in Calls : call[e].pc = "detach"}} : links' = links \ part
    BY DEF Crash, CutOff
  <2>3. PICK e \in Calls : call[e].pc = "detach" /\ d = Ds(e) /\ i \in call[e].cut
    BY <2>1, <2>2
  <2> QED BY <2>1, <2>3 DEF MarkInv, FormOK, ClearedOK, Cleaning
<1>6. MarksKept'
  <2> SUFFICES ASSUME NEW d \in Datasets, NEW i \in Items, Marked(d, i)' PROVE Sound(d, i)' \/ Forgot(d)'
    BY DEF MarksKept
  <2>1. Marked(d, i)
    BY <1>4
  <2>2. Forgot(d) => Forgot(d)'
    BY <1>1 DEF Forgot, Ds, Steps
  <2>3. ASSUME NEW b \in Calls, call[b].pc \in Steps, call[b].req.memory, Ds(b) = d PROVE Forgot(d)'
    BY <1>1, <2>3 DEF Forgot, Ds
  <2>4. Spoiled(d, i) => Forgot(d)'
    BY <2>3 DEF Spoiled, Spoils, DeleteSteps, Steps
  <2>5. ASSUME Sound(d, i) PROVE Sound(d, i)' \/ Forgot(d)'
    <3>1. Rowed(d, i)'
      BY <1>1, <2>5 DEF Sound, Rowed
    <3>2. SUFFICES ASSUME ~Present(d, i)' PROVE Forgot(d)'
      BY <3>1 DEF Sound
    <3>3. PICK s \in Art[i] : <<d, s>> \in store /\ <<d, s>> \notin store'
      BY <2>5, <3>2 DEF Sound, Present
    <3>4. PICK part \in SUBSET UNION {Doomed(e) : e \in {e \in Calls : call[e].pc = "wipe"}} : store' = store \ part
      BY DEF Crash, CutOff
    <3>5. PICK e \in Calls : call[e].pc = "wipe" /\ <<d, s>> \in Doomed(e)
      BY <3>3, <3>4
    <3>6. d = Ds(e) /\ call[e].part \in {"dataset", "item"}
      BY <3>5 DEF Doomed, In, Home, TypeOK, CallType
    <3>7. call[e].req.memory
      BY <2>1, <3>5, <3>6 DEF MarkInv, FormOK, ClearedOK, Cleaning
    <3> QED BY <2>3, <3>5, <3>6, <3>7 DEF Steps
  <2> QED BY <2>1, <2>2, <2>4, <2>5 DEF MarkInv, MarksKept
<1> QED BY <1>3, <1>5, <1>6 DEF MarkInv

\* Markers, and what they rest on.
SoundInv ==
  /\ TypeOK /\ CallsOK /\ Watched /\ FilesInv /\ OwnedInv
  /\ isolated => MarkInv

LEMMA InitSound == Init => SoundInv
BY InitType, InitWatched, InitFiles, InitOwned, InitMarks DEF SoundInv

LEMMA NextSound == SoundInv /\ [Next]_vars => SoundInv'
<1> SUFFICES ASSUME SoundInv, [Next]_vars PROVE SoundInv'
  OBVIOUS
<1>0. TypeOK /\ CallsOK /\ Watched /\ FilesInv /\ OwnedInv /\ (isolated => MarkInv)
  BY DEF SoundInv
<1>1. TypeOK' /\ CallsOK' /\ Watched' /\ overlaps \subseteq overlaps'
  BY <1>0, NextType, NextWatched
<1>2. ASSUME NEW c \in Calls, Step(c) PROVE FilesInv' /\ OwnedInv' /\ (isolated => MarkInv)'
  <2>1. FilesInv' /\ OwnedInv' /\ isolated' = isolated
    BY <1>0, <1>1, <1>2, StepFiles, StepOwned, Effects
  <2>2. ASSUME isolated PROVE MarkInv'
    <3>1. MarksLinked' /\ MarksKept'
      BY <1>0, <1>1, <1>2, <2>2, StepLinked, StepKept
    <3>2. ASSUME NEW e \in Calls PROVE RunOK(e)' /\ SeenOK(e)' /\ FormOK(e)' /\ ClearedOK(e)'
      BY <1>0, <1>1, <1>2, <2>2, OtherRun, OwnRun, StepSeen, StepForm, OtherCleared, OwnCleared
    <3> QED BY <3>1, <3>2 DEF MarkInv
  <2> QED BY <2>1, <2>2
<1>3. ASSUME Crash PROVE FilesInv' /\ OwnedInv' /\ (isolated => MarkInv)'
  <2>1. FilesInv' /\ OwnedInv' /\ isolated' = isolated
    BY <1>0, <1>1, <1>3, CrashFiles, CrashOwned DEF Crash
  <2> QED BY <1>0, <1>1, <1>3, <2>1, CrashMarks
<1>4. ASSUME UNCHANGED vars PROVE FilesInv' /\ OwnedInv' /\ (isolated => MarkInv)'
  <2>1. /\ isolated' = isolated /\ ledger' = ledger /\ store' = store /\ call' = call
        /\ overlaps' = overlaps /\ links' = links /\ data' = data /\ markers' = markers
        /\ files' = files
    BY <1>4 DEF vars, base, tables
  <2>2. FilesInv' = FilesInv
    BY <2>1 DEF FilesInv, Undone, Unlinked
  <2>3. OwnedInv' = OwnedInv
    BY <2>1 DEF OwnedInv, Claimed, Excused, Condemned, Met, WriteOK, DeleteOK, RowsOf, Ds, It, Home
  <2>4. MarkInv' = MarkInv
    BY <2>1 DEF MarkInv, MarksLinked, MarksKept, RunOK, SeenOK, FormOK, ClearedOK, Marked, Mixed,
        Sound, Present, Rowed, Forgot, Spoiled, Spoils, Pending, Met, Ds, It
  <2> QED BY <1>0, <2>1, <2>2, <2>3, <2>4
<1>5. FilesInv' /\ OwnedInv' /\ (isolated => MarkInv)'
  BY <1>2, <1>3, <1>4 DEF Next, Quiescent
<1> QED BY <1>1, <1>5 DEF SoundInv

\* An item that is marked, which cognify skips for good, has its artifacts in the
\* dataset's own stores, whatever deletes fail half-way or crash, unless a
\* memory-only delete is not done or calls that no lock keeps apart have overlapped.
THEOREM MarkerSafety == Spec => []MarkerSound
<1>1. SoundInv => MarkerSound
  BY MarksSuffice DEF SoundInv
<1> QED BY <1>1, InitSound, NextSound, PTL DEF Spec

-----------------------------------------------------------------------------
(* What a delete leaves.                                                   *)

\* An add has met a delete of its item or of its dataset.
Stray(i) == {<<"add", i>>, <<"late", i>>} \cap overlaps # {}

Removing == {"count", "file", "row"}

\* A call that is to link the item or to remove it, or was and is cut off.
Tends(e, i) ==
  \/ call[e].pc = "attach" /\ It(e) = i
  \/ call[e].pc \in Removing \cup {"drop"} /\ i \in call[e].todo \cup call[e].open
  \/ call[e].pc \in {"failed", "dead"} /\ (call[e].req.kind = "dataset" \/ It(e) = i)

\* Nothing is left of an item that is in no dataset and in no call's care.
NoOrphans ==
  \A i \in data \cup files : ~Unlinked(i) \/ (\E e \in Calls : Tends(e, i)) \/ Stray(i)

FilesRowed == \A i \in files : i \in data \/ Stray(i)

\* What a delete has still to look at, and what it has already done.
TodoOK(b) ==
  /\ call[b].pc \in {"resolve"} \cup (DeleteSteps \ {"clearing", "file", "row"}) => call[b].open = {}
  /\ call[b].pc \in DeleteSteps =>
       /\ call[b].req.kind = "item" =>
            /\ call[b].todo \subseteq {It(b)}
            /\ call[b].pc # "clearing" => call[b].open \subseteq {It(b)}
       /\ call[b].pc \notin Removing \cup {"drop"} => call[b].cut \subseteq call[b].todo
       /\ call[b].whole /\ call[b].pc \notin Removing =>
            \A i \in LinkedTo(Ds(b)) : i \in call[b].todo \/ Stray(i)
  /\ call[b].pc = "row" => \A i \in call[b].open : i \notin files \/ Stray(i)

GoneOK(b) ==
  /\ call[b].pc \in Removing /\ call[b].whole =>
       Ds(b) \notin datasets \/ <<"create", Ds(b)>> \in overlaps
  /\ /\ isolated /\ call[b].pc \in Removing \cup {"unledger", "detach", "drop"}
     /\ call[b].req.kind = "dataset"
     => (\A a \in store : a[1] # Ds(b)) \/ Met(Ds(b))

GoneInv == NoOrphans /\ FilesRowed /\ \A b \in Calls : TodoOK(b) /\ GoneOK(b)

LEMMA InitGone == Init => GoneInv
<1> SUFFICES ASSUME Init PROVE GoneInv
  OBVIOUS
<1>1. \A c \in Calls : call[c].pc = "idle"
  BY DEF Init, Idle
<1>2. \A b \in Calls : TodoOK(b) /\ GoneOK(b)
  BY <1>1 DEF TodoOK, GoneOK, DeleteSteps, Removing
<1>3. NoOrphans
  <2> SUFFICES ASSUME NEW i \in data \cup files PROVE ~Unlinked(i)
    BY DEF NoOrphans
  <2>1. PICK l \in Linked : i = l[2]
    BY DEF Init
  <2>2. l[1] \in Datasets /\ l = <<l[1], l[2]>>
    BY LifeAssumption
  <2> QED BY <2>1, <2>2 DEF Unlinked, Init
<1>4. FilesRowed
  BY DEF FilesRowed, Init
<1> QED BY <1>2, <1>3, <1>4 DEF GoneInv

LEMMA StrayStays ==
  ASSUME overlaps \subseteq overlaps'
  PROVE  \A i : Stray(i) => Stray(i)'
BY DEF Stray

LEMMA MetLate ==
  ASSUME Watched, NEW b \in Deleters, NEW c \in Adders, Ds(b) = Ds(c)
  PROVE  Stray(It(c))
<1>1. <<"late", It(c)>> \in Overlapping
  BY DEF Overlapping
<1> QED BY <1>1 DEF Watched, Stray

LEMMA MetCreate ==
  ASSUME Watched, NEW b \in Deleters, NEW c \in Creators, Ds(b) = Ds(c)
  PROVE  <<"create", Ds(b)>> \in overlaps
<1>1. <<"create", Ds(b)>> \in Overlapping
  BY DEF Overlapping
<1> QED BY <1>1 DEF Watched

LEMMA CountMoves ==
  ASSUME TypeOK, NEW c \in Calls
  PROVE  /\ Count(c) =>
              \/ call'[c].pc = "ok" /\ call[c].todo = {}
              \/ \E i \in call[c].todo :
                   /\ call'[c].todo = call[c].todo \ {i}
                   /\ \/ Unlinked(i) /\ Keeps(c, {"file"}) /\ call'[c].open = {i}
                      \/ ~Unlinked(i) /\ Keeps(c, {"count"}) /\ call'[c].open = {}
         /\ DeleteFile(c) => call'[c].todo = call[c].todo /\ call'[c].open = call[c].open
         /\ DeleteData(c) => call'[c].todo = call[c].todo /\ call'[c].open = {}
<1>0. call \in [Calls -> CallType] /\ call[c] \in CallType
  BY DEF TypeOK
<1>1. ASSUME Count(c), NEW i \in call[c].todo,
             Now(c, [call[c] EXCEPT !.todo = @ \ {i},
                                    !.pc = IF Unlinked(i) THEN "file" ELSE "count",
                                    !.open = IF Unlinked(i) THEN {i} ELSE {}])
      PROVE  /\ call'[c].todo = call[c].todo \ {i}
             /\ \/ Unlinked(i) /\ Keeps(c, {"file"}) /\ call'[c].open = {i}
                \/ ~Unlinked(i) /\ Keeps(c, {"count"}) /\ call'[c].open = {}
  <2> DEFINE pc == IF Unlinked(i) THEN "file" ELSE "count"
             open == IF Unlinked(i) THEN {i} ELSE {}
             k == [call[c] EXCEPT !.todo = @ \ {i}, !.pc = pc, !.open = open]
  <2>1. Now(c, k)
    BY <1>1
  <2> HIDE DEF pc, open
  <2>2. /\ k.pc = pc /\ k.open = open /\ k.todo = call[c].todo \ {i}
        /\ k.whole = call[c].whole /\ k.cut = call[c].cut
        /\ k.part = call[c].part /\ k.doomed = call[c].doomed
    BY <1>0 DEF CallType
  <2> HIDE DEF k
  <2>3. call'[c] = k
    BY <2>1, NowIs
  <2> QED BY <2>2, <2>3 DEF pc, open, Keeps
<1>2. ASSUME DeleteFile(c) PROVE call'[c].todo = call[c].todo /\ call'[c].open = call[c].open
  BY <1>0, <1>2 DEF DeleteFile, Goto, Now, CallType
<1>3. ASSUME DeleteData(c) PROVE call'[c].todo = call[c].todo /\ call'[c].open = {}
  BY <1>0, <1>3 DEF DeleteData, Now, CallType
<1>4. Count(c) => \/ \E i \in call[c].todo :
                       Now(c, [call[c] EXCEPT !.todo = @ \ {i},
                                    !.pc = IF Unlinked(i) THEN "file" ELSE "count",
                                    !.open = IF Unlinked(i) THEN {i} ELSE {}])
                  \/ call[c].todo = {} /\ End(c, "ok")
  BY DEF Count
<1> QED BY <1>1, <1>2, <1>3, <1>4, EndPc

\* What is dropped is not there, unless a create has made it anew.
LEMMA OtherGone ==
  ASSUME TypeOK, CallsOK, Watched, GoneInv, NEW c \in Calls, Step(c), overlaps \subseteq overlaps',
         NEW b \in Calls, call[b].pc \in DeleteSteps,
         call'[b].pc \in DeleteSteps, call'[b].req = call[b].req
  PROVE  /\ Ds(b) \in datasets' /\ Ds(b) \notin datasets => <<"create", Ds(b)>> \in overlaps'
         /\ isolated => \A a \in store' : a[1] = Ds(b) /\ a \notin store => Met(Ds(b))
<1>0. b \in Deleters /\ Ds(b) \in Datasets /\ lock[Ds(b)] = b
  BY Roles, ActiveType DEF Deleters, DeleteSteps, CallsOK, CallOK, Ds
<1>1. ASSUME Ds(b) \in datasets', Ds(b) \notin datasets PROVE <<"create", Ds(b)>> \in overlaps'
  <2>1. CASE AddInsert(c)
    <3>1. call[c].pc = "insert" /\ Ds(c) = Ds(b)
      BY <1>1, <2>1 DEF AddInsert, InsertDataset
    <3>2. lock[Ds(c)] = c
      BY <3>1 DEF CallsOK, CallOK, Ds
    <3> QED BY <1>0, <3>1, <3>2 DEF DeleteSteps
  <2>2. CASE CreateInsert(c)
    <3>1. call[c].pc = "make" /\ Ds(c) = Ds(b)
      BY <1>1, <2>2 DEF CreateInsert, InsertDataset
    <3>2. c \in Creators
      BY <3>1 DEF CallsOK, CallOK, CreateSteps, Creators, Active, Steps
    <3> QED BY <1>0, <3>1, <3>2, MetCreate
  <2>3. CASE DropDataset(c)
    BY <1>1, <2>3 DEF DropDataset
  <2> QED BY <1>1, <2>1, <2>2, <2>3, Effects
<1>2. ASSUME isolated, NEW a \in store', a[1] = Ds(b), a \notin store PROVE Met(Ds(b))
  <2>1. CogWrite(c)
    BY <1>2, Effects, CutOffShrinks DEF Wipe, Fail
  <2>2. call[c].pc = "write" /\ Ds(c) = Ds(b)
    BY <1>2, <2>1 DEF CogWrite, In, Home
  <2> QED BY <2>2, RunMet DEF CogSteps
<1> QED BY <1>1, <1>2

LEMMA StepGone ==
  ASSUME SoundInv, GoneInv, NEW c \in Calls, Step(c), overlaps \subseteq overlaps', NEW e \in Calls
  PROVE  GoneOK(e)'
<1>0. /\ TypeOK /\ CallsOK /\ Watched /\ (isolated => MarkInv) /\ GoneOK(e) /\ GoneOK(c) /\ DeleteOK(c)
      /\ isolated' = isolated /\ (isolated => FormOK(c)) /\ OwnedInv
  BY Effects DEF SoundInv, GoneInv, MarkInv, OwnedInv
\* A delete that was past the point already.
<1>1. ASSUME call[e].pc \in DeleteSteps, call'[e].pc \in DeleteSteps, call'[e].req = call[e].req
      PROVE  /\ Ds(e) \notin datasets \/ <<"create", Ds(e)>> \in overlaps =>
                  (Ds(e) \notin datasets \/ <<"create", Ds(e)>> \in overlaps)'
             /\ isolated /\ ((\A a \in store : a[1] # Ds(e)) \/ Met(Ds(e))) =>
                  ((\A a \in store : a[1] # Ds(e)) \/ Met(Ds(e)))'
  <2>1. Ds(e)' = Ds(e)
    BY <1>1 DEF Ds
  <2>2. Met(Ds(e)) => Met(Ds(e))'
    BY <2>1 DEF Met
  <2> QED BY <1>0, <1>1, <2>1, <2>2, OtherGone
<1>2. CASE e # c
  <2>1. call'[e] = call[e]
    BY <1>0, <1>2, StepShape
  <2> QED BY <1>0, <1>1, <2>1 DEF GoneOK, Removing, DeleteSteps
<1>3. CASE e = c /\ call'[c].pc \notin DeleteSteps
  BY <1>3 DEF GoneOK, Removing, DeleteSteps
<1>4. CASE e = c /\ call'[c].pc \in DeleteSteps
  <2>0. call[c].pc # "idle"
    BY <1>0, <1>4, DeleteCases DEF Resolve, ClearRead, ClearWrite, SelectDataset, SelectItem, Wipe, Unledger,
          Detach, DropDataset, Count, DeleteFile, DeleteData
  <2>1. call'[c].req = call[c].req /\ Ds(c)' = Ds(c)
    BY <1>0, <2>0, StepLive
  <2>3. CASE Resolve(c) \/ ClearRead(c) \/ ClearWrite(c) \/ SelectDataset(c)
    <3>1. isolated => call'[c].pc \in {"clear", "clearing", "select", "pick", "wipe"}
      BY <1>0, <1>4, <2>3, ResolveMoves, MovePc, MixedDelete, SelectDatasetMoves
         DEF Over, Keeps, FirstCleanup, DeleteSteps
    <3>2. call'[c].pc \notin Removing
      BY <1>0, <1>4, <2>3, ResolveMoves, MovePc, MixedDelete, SelectDatasetMoves
         DEF Over, Keeps, FirstCleanup, AfterDataset, AfterCleanup, DeleteSteps, Removing
    <3> QED BY <1>0, <1>4, <3>1, <3>2 DEF GoneOK, Removing
  <2>4. CASE SelectItem(c)
    <3>1. call[c].req.kind = "item"
      BY <1>0, <2>4 DEF SelectItem, DeleteOK, DeleteSteps
    <3>2. call'[c].pc \notin Removing
      BY <1>0, <2>4, SelectItemMoves DEF AfterCleanup, Removing
    <3> QED BY <1>4, <2>1, <3>1, <3>2 DEF GoneOK
  <2>5. CASE Wipe(c)
    <3>1. call[c].pc = "wipe" /\ call'[c].pc = "unledger" /\ store' = store \ Doomed(c)
      BY <1>0, <2>5, MovePc DEF Wipe, Keeps
    <3>2. ASSUME isolated, call[c].req.kind = "dataset", NEW a \in store' PROVE a[1] # Ds(c)
      <4>1. call[c].part = "dataset"
        BY <1>0, <3>1, <3>2 DEF FormOK, TypeOK, CallType
      <4>2. Doomed(c) = {Ds(c)} \X Slugs
        BY <3>2, <4>1 DEF Doomed, In, Home
      <4>3. a \in store /\ a \in (Datasets \cup {None}) \X Slugs
        BY <1>0, <3>1, <3>2 DEF TypeOK
      <4> QED BY <3>1, <3>2, <4>2, <4>3
    <3> QED BY <1>0, <1>4, <2>1, <3>1, <3>2 DEF GoneOK, Removing
  <2>6. CASE Unledger(c)
    <3>1. call[c].pc = "unledger" /\ call'[c].pc \in {"pick", "clear", "detach"}
      BY <1>0, <2>6, MovePc DEF Unledger, Keeps, AfterDataset, AfterCleanup
    <3> QED BY <1>0, <1>1, <1>4, <2>1, <3>1 DEF GoneOK, Removing, DeleteSteps
  <2>7. CASE Detach(c)
    <3>1. /\ call[c].pc = "detach" /\ call'[c].pc = IF call[c].whole THEN "drop" ELSE "count"
          /\ call'[c].whole = call[c].whole
      BY <1>0, <2>7, MovePc DEF Detach, Keeps
    <3> QED BY <1>0, <1>1, <1>4, <2>1, <3>1 DEF GoneOK, Removing, DeleteSteps
  <2>8. CASE DropDataset(c)
    <3>1. call[c].pc = "drop" /\ call'[c].pc = "count" /\ datasets' = datasets \ {Ds(c)}
      BY <1>0, <2>8, MovePc DEF DropDataset, Keeps
    <3> QED BY <1>0, <1>1, <1>4, <2>1, <3>1 DEF GoneOK, Removing, DeleteSteps
  <2>9. CASE Count(c) \/ DeleteFile(c) \/ DeleteData(c)
    <3>1. /\ call[c].pc \in Removing /\ call'[c].pc \in Removing
          /\ call'[c].whole = call[c].whole
      BY <1>0, <1>4, <2>9, MovePc, MixedDelete
         DEF Count, DeleteFile, DeleteData, Keeps, Removing, Over, DeleteSteps
    <3> QED BY <1>0, <1>1, <1>4, <2>1, <3>1 DEF GoneOK, Removing, DeleteSteps
  <2> QED BY <1>0, <1>4, <2>3, <2>4, <2>5, <2>6, <2>7, <2>8, <2>9, DeleteCases
<1> QED BY <1>2, <1>3, <1>4

\* A new link or a new file of what a delete is after has met it.
LEMMA LateLink ==
  ASSUME TypeOK, CallsOK, Watched, NEW c \in Calls, Step(c), NEW b \in Calls, call[b].pc \in DeleteSteps,
         NEW i, i \in LinkedTo(Ds(b))', Ds(b)' = Ds(b), i \notin LinkedTo(Ds(b))
  PROVE  Stray(i)
<1>1. AddAttach(c)
  BY Effects, CutOffShrinks DEF LinkedTo, Detach, DropDataset, DeleteData, Fail
<1>2. call[c].pc = "attach" /\ Ds(c) = Ds(b) /\ It(c) = i
  BY <1>1 DEF AddAttach, LinkedTo
<1>3. c \in Adders /\ b \in Deleters
  BY <1>2, Roles DEF AddSteps
<1> QED BY <1>2, <1>3, MetLate

LEMMA LateFile ==
  ASSUME TypeOK, CallsOK, Watched, NEW c \in Calls, Step(c), NEW b \in Calls, call[b].pc \in DeleteSteps,
         NEW i \in call[b].open, i \in files', i \notin files
  PROVE  Stray(i)
<1>1. AddGet(c)
  BY Effects DEF DeleteFile
<1>2. call[c].pc = "get" /\ It(c) = i
  BY <1>1 DEF AddGet
<1>3. c \in Adders /\ b \in Deleters
  BY <1>2, Roles DEF AddSteps
<1>4. <<"add", i>> \in overlaps
  BY <1>2, <1>3, MetAdd
<1> QED BY <1>4 DEF Stray

LEMMA StepTodo ==
  ASSUME SoundInv, GoneInv, NEW c \in Calls, Step(c), overlaps \subseteq overlaps', NEW e \in Calls
  PROVE  TodoOK(e)'
<1>0. /\ TypeOK /\ CallsOK /\ Watched /\ TodoOK(e) /\ TodoOK(c) /\ DeleteOK(c) /\ FilesRowed
      /\ \A i : Stray(i) => Stray(i)'
  BY StrayStays DEF SoundInv, GoneInv, OwnedInv
\* What stays linked to the dataset of a delete is still to be looked at.
<1>1. ASSUME call[e].pc \in DeleteSteps \ Removing, call'[e].req = call[e].req, call[e].whole,
             call'[e].todo = call[e].todo
      PROVE  \A i \in LinkedTo(Ds(e))' : i \in call'[e].todo \/ Stray(i)'
  <2>1. Ds(e)' = Ds(e)
    BY <1>1 DEF Ds
  <2> QED BY <1>0, <1>1, <2>1, LateLink DEF TodoOK, Removing, DeleteSteps
<1>2. ASSUME call[e].pc = "row", NEW i \in call[e].open, i \in files' PROVE Stray(i)'
  BY <1>0, <1>2, LateFile DEF TodoOK, DeleteSteps
<1>3. CASE e # c
  <2>1. call'[e] = call[e] /\ It(e)' = It(e)
    BY <1>3, StepShape DEF It, SoundInv
  <2> QED BY <1>0, <1>1, <1>2, <2>1 DEF TodoOK, Removing, DeleteSteps
<1>4. CASE e = c /\ call'[c].pc \notin DeleteSteps
  <2>1. ASSUME call'[c].pc = "resolve" PROVE call'[c].open = {}
    <3>1. ASSUME NEW q \in Requests, Begin(c, q) PROVE call'[c].open = {}
      BY <1>0, <3>1 DEF Begin, Now, Idle, TypeOK
    <3>2. ASSUME CreateLookup(c) \/ CreateGrant(c) \/ AddResolve(c) \/ AddGrant(c) \/ AddGet(c)
                 \/ AddAttach(c) \/ Fail(c)
          PROVE  FALSE
      BY <1>0, <2>1, <3>2, MovePc, MixedPc DEF Over
    <3>3. ASSUME AddInsert(c) \/ CreateInsert(c) PROVE FALSE
      BY <1>0, <2>1, <3>3, InsertPc DEF AddInsert, CreateInsert
    <3>4. ASSUME CogRead(c) \/ CogOwn(c) \/ CogWrite(c) \/ MarkRead(c) \/ MarkWrite(c) PROVE FALSE
      BY <1>0, <2>1, <3>4, MovePc, MixedPc DEF Over
    <3>5. ASSUME Resolve(c) \/ ClearRead(c) \/ ClearWrite(c) \/ SelectDataset(c) \/ SelectItem(c) PROVE FALSE
      BY <1>0, <2>1, <3>5, ResolveMoves, MovePc, MixedDelete, SelectDatasetMoves, SelectItemMoves
         DEF Over, Keeps, FirstCleanup, AfterDataset, AfterCleanup
    <3>6. ASSUME Wipe(c) \/ Unledger(c) \/ Detach(c) \/ DropDataset(c) \/ Count(c) \/ DeleteFile(c) \/ DeleteData(c) PROVE FALSE
      BY <1>0, <2>1, <3>6, MovePc, MixedDelete DEF Over, Keeps, AfterDataset, AfterCleanup
    <3> QED BY <3>1, <3>2, <3>3, <3>4, <3>5, <3>6 DEF Step
  <2> QED BY <1>4, <2>1 DEF TodoOK, DeleteSteps
<1>5. CASE e = c /\ call'[c].pc \in DeleteSteps
  <2>0. call[c].pc # "idle"
    BY <1>0, <1>5, DeleteCases DEF Resolve, ClearRead, ClearWrite, SelectDataset, SelectItem, Wipe, Unledger,
          Detach, DropDataset, Count, DeleteFile, DeleteData
  <2>1. call'[c].req = call[c].req /\ Ds(c)' = Ds(c) /\ It(c)' = It(c)
    BY <1>0, <2>0, StepLive
  <2>2. call[c].pc \in DeleteSteps => call[c].req.kind \in Deletes
    BY <1>0 DEF CallsOK, CallOK
  <2>3. CASE Resolve(c)
    <3>1. /\ call'[c].open = call[c].open
          /\ call'[c].whole = (call[c].req.kind = "dataset"
                              \/ (call[c].req.ifEmpty /\ LinkedTo(Ds(c)) \subseteq {It(c)}))
          /\ call'[c].cut = IF call[c].req.kind = "dataset" THEN LinkedTo(Ds(c)) ELSE {It(c)} \cap data
          /\ call'[c].todo = IF call[c].req.kind = "dataset" THEN call'[c].cut ELSE {It(c)}
          /\ call[c].pc = "resolve"
      BY <1>0, <1>5, <2>3, ResolveTargets DEF Resolve
    <3>2. call'[c].pc \in {"clear", "select", "pick"} /\ call'[c].open = {}
      BY <1>0, <1>5, <2>3, <3>1, ResolveMoves DEF TodoOK, Over, DeleteSteps
    <3>3. LinkedTo(Ds(c))' = LinkedTo(Ds(c))
      BY <2>1, <2>3 DEF Resolve, base, tables, LinkedTo
    <3>4. call[c].req.kind \in Deletes
      BY <2>3 DEF Resolve
    <3>5. call'[c].cut \subseteq call'[c].todo
      BY <3>1
    <3>6. call'[c].whole => LinkedTo(Ds(c)) \subseteq call'[c].todo
      BY <3>1, <3>4 DEF Deletes
    <3> QED BY <1>5, <2>1, <3>1, <3>2, <3>3, <3>5, <3>6 DEF TodoOK
  <2>4. ASSUME call[c].pc \in DeleteSteps \ Removing, call'[c].whole = call[c].whole, call'[c].cut = call[c].cut,
               call'[c].todo = call[c].todo,
               call'[c].pc \notin Removing \cup {"clearing", "drop"}, call'[c].open = {}, call[c].pc # "drop"
        PROVE  TodoOK(c)'
    <3>1. call'[c].pc # "row"
      BY <2>4 DEF Removing
    <3> QED BY <1>0, <1>1, <1>5, <2>1, <2>4, <3>1 DEF TodoOK
  <2>5. CASE ClearRead(c)
    <3>1. /\ Keeps(c, {"clearing"}) /\ call'[c].todo = call[c].todo /\ call[c].pc = "clear"
      BY <1>0, <2>5, MovePc, ClearMoves DEF ClearRead
    <3>2. call'[c].pc = "clearing" /\ call'[c].whole = call[c].whole /\ call'[c].cut = call[c].cut
      BY <3>1 DEF Keeps
    <3> QED BY <1>0, <1>1, <1>5, <2>1, <3>1, <3>2 DEF TodoOK, Removing, DeleteSteps
  <2>6. CASE ClearWrite(c)
    <3>0. call[c].pc = "clearing"
      BY <2>6 DEF ClearWrite
    <3>1. \/ Keeps(c, {"clearing"}) /\ call'[c].todo = call[c].todo
          \/ Keeps(c, {FirstCleanup(call[c].whole)}) /\ call'[c].open = {} /\ call'[c].todo = call[c].todo
      BY <1>0, <1>5, <2>6, ClearMoves DEF DeleteSteps
    <3>2. CASE Keeps(c, {"clearing"}) /\ call'[c].todo = call[c].todo
      <4>1. call'[c].pc = "clearing" /\ call'[c].whole = call[c].whole /\ call'[c].cut = call[c].cut
        BY <3>2 DEF Keeps
      <4> QED BY <1>0, <1>1, <1>5, <2>1, <3>0, <3>2, <4>1 DEF TodoOK, Removing, DeleteSteps
    <3>3. CASE Keeps(c, {FirstCleanup(call[c].whole)}) /\ call'[c].open = {} /\ call'[c].todo = call[c].todo
      <4>1. call'[c].pc \in {"select", "pick"} /\ call'[c].whole = call[c].whole /\ call'[c].cut = call[c].cut
        BY <3>3 DEF Keeps, FirstCleanup
      <4> QED BY <1>5, <2>4, <3>0, <3>3, <4>1 DEF Removing, DeleteSteps
    <3> QED BY <3>1, <3>2, <3>3
  <2>7. CASE SelectDataset(c) \/ SelectItem(c)
    <3>1. /\ call[c].pc \in {"select", "pick"} /\ call'[c].whole = call[c].whole /\ call'[c].cut = call[c].cut
          /\ call'[c].todo = call[c].todo /\ call'[c].open = call[c].open
          /\ call'[c].pc \in {"wipe", "pick", "clear", "detach"}
      BY <1>0, <2>7, SelectDatasetMoves, SelectItemMoves, StayMoves
         DEF SelectDataset, SelectItem, AfterDataset, AfterCleanup
    <3>2. call'[c].open = {}
      BY <1>0, <3>1 DEF TodoOK, DeleteSteps
    <3> QED BY <1>5, <2>4, <3>1, <3>2 DEF Removing, DeleteSteps
  <2>8. CASE Wipe(c) \/ Unledger(c)
    <3>1. /\ call[c].pc \in {"wipe", "unledger"} /\ call'[c].whole = call[c].whole /\ call'[c].cut = call[c].cut
          /\ call'[c].todo = call[c].todo /\ call'[c].open = call[c].open
          /\ call'[c].pc \in {"unledger", "pick", "clear", "detach"}
      BY <1>0, <2>8, MovePc, StayMoves
         DEF Wipe, Unledger, Keeps, AfterDataset, AfterCleanup
    <3>2. call'[c].open = {}
      BY <1>0, <3>1 DEF TodoOK, DeleteSteps
    <3> QED BY <1>5, <2>4, <3>1, <3>2 DEF Removing, DeleteSteps
  <2>9. CASE Detach(c) \/ DropDataset(c)
    <3>1. /\ call[c].pc \in {"detach", "drop"} /\ call'[c].whole = call[c].whole
          /\ call'[c].todo = call[c].todo /\ call'[c].open = call[c].open
          /\ call'[c].pc \in {"drop", "count"}
      BY <1>0, <2>9, MovePc, StayMoves DEF Detach, DropDataset, Keeps
    <3>2. call'[c].open = {}
      BY <1>0, <3>1 DEF TodoOK, DeleteSteps
    <3> QED BY <1>0, <1>1, <1>5, <2>1, <3>1, <3>2 DEF TodoOK, Removing, DeleteSteps
  <2>10. CASE Count(c)
    <3>0. call[c].pc = "count" /\ call[c].open = {}
      BY <1>0, <2>10 DEF Count, TodoOK, DeleteSteps
    <3>1. PICK i \in call[c].todo :
             /\ call'[c].todo = call[c].todo \ {i}
             /\ \/ Keeps(c, {"file"}) /\ call'[c].open = {i}
                \/ Keeps(c, {"count"}) /\ call'[c].open = {}
      BY <1>0, <1>5, <2>10, CountMoves DEF DeleteSteps
    <3>2. call'[c].pc \in {"file", "count"} /\ (call'[c].pc = "count" => call'[c].open = {})
      BY <3>1 DEF Keeps
    <3>3. call[c].req.kind = "item" => call[c].todo \subseteq {It(c)}
      BY <1>0, <3>0 DEF TodoOK, DeleteSteps
    <3>4. call'[c].todo \subseteq call[c].todo /\ call'[c].open \subseteq call[c].todo
      BY <3>1
    <3> QED BY <1>5, <2>1, <3>2, <3>3, <3>4 DEF TodoOK, Removing
  <2>11. CASE DeleteFile(c)
    <3>1. /\ call[c].pc = "file" /\ call'[c].pc = "row" /\ files' = files \ (call[c].open \cap data)
          /\ call'[c].todo = call[c].todo /\ call'[c].open = call[c].open
      BY <1>0, <2>11, MovePc, CountMoves DEF DeleteFile, Keeps
    <3>2. ASSUME NEW i \in call[c].open, i \in files' PROVE Stray(i)'
      BY <1>0, <3>1, <3>2 DEF FilesRowed
    <3> QED BY <1>0, <1>5, <2>1, <3>1, <3>2 DEF TodoOK, Removing, DeleteSteps
  <2>12. CASE DeleteData(c)
    <3>1. /\ call[c].pc = "row" /\ call'[c].pc = "count"
          /\ call'[c].todo = call[c].todo /\ call'[c].open = {}
      BY <1>0, <2>12, MovePc, CountMoves DEF DeleteData, Keeps
    <3> QED BY <1>0, <1>5, <2>1, <3>1 DEF TodoOK, Removing, DeleteSteps
  <2> QED BY <1>0, <1>5, <2>3, <2>5, <2>6, <2>7, <2>8, <2>9, <2>10, <2>11, <2>12, DeleteCases
<1> QED BY <1>3, <1>4, <1>5

\* A call that tends an item goes on doing so, or is cut off, or the item is linked,
\* gone or stray.
LEMMA TendsStays ==
  ASSUME SoundInv, GoneInv, NEW c \in Calls, Step(c), overlaps \subseteq overlaps',
         NEW i \in Items, i \in data' \cup files', NEW e \in Calls, Tends(e, i)
  PROVE  ~Unlinked(i)' \/ Tends(e, i)' \/ Stray(i)
<1>0. TypeOK /\ CallsOK /\ TodoOK(c)
  BY DEF SoundInv, GoneInv
<1>1. CASE e # c
  <2>1. call'[e] = call[e] /\ It(e)' = It(e)
    BY <1>0, <1>1, StepShape DEF It
  <2> QED BY <2>1 DEF Tends
<1>2. CASE e = c
  <2>0. call[c].pc \in {"attach", "drop", "count", "file", "row"}
    BY <1>0, <1>2, StepLive DEF Tends, Over, Removing
  <2>1. call'[c].req = call[c].req /\ It(c)' = It(c) /\ Ds(c) \in Datasets
    BY <1>0, <2>0, StepLive, ActiveType
  <2>2. call[c].pc # "attach" => call[c].req.kind \in Deletes /\ i \in call[c].todo \cup call[c].open
    BY <1>0, <1>2, <2>0 DEF CallsOK, CallOK, DeleteSteps, Tends, Removing
  <2>3. call[c].pc = "attach" => It(c) = i
    BY <1>2 DEF Tends, Removing
  <2>4. ASSUME call'[c].pc = "failed" PROVE Tends(c, i)'
    <3>1. call[c].req.kind = "item" => It(c) = i
      BY <1>0, <2>0, <2>2, <2>3 DEF TodoOK, DeleteSteps
    <3>2. call[c].pc = "attach" \/ call[c].req.kind \in {"dataset", "item"}
      BY <2>2 DEF Deletes
    <3> QED BY <2>1, <2>3, <2>4, <3>1, <3>2 DEF Tends
  <2>5. CASE AddAttach(c)
    <3>1. \/ links' = links \cup {<<Ds(c), It(c)>>}
          \/ call'[c].pc = "failed"
      BY <1>0, <2>5, EndPc DEF AddAttach
    <3>2. CASE links' = links \cup {<<Ds(c), It(c)>>}
      BY <2>1, <2>3, <2>5, <3>2 DEF Unlinked, AddAttach
    <3> QED BY <1>2, <2>4, <3>1, <3>2
  <2>6. CASE DropDataset(c)
    <3>1. call'[c].pc = "count" /\ call'[c].todo = call[c].todo /\ call'[c].open = call[c].open
      BY <1>0, <2>6, MovePc, StayMoves DEF Keeps
    <3> QED BY <1>2, <2>2, <2>6, <3>1 DEF Tends, Removing, DropDataset
  <2>7. CASE Count(c)
    <3>0. call[c].pc = "count" /\ call[c].open = {} /\ links' = links
      BY <1>0, <2>7 DEF Count, TodoOK, DeleteSteps, base, tables
    <3>1. PICK j \in call[c].todo :
             /\ call'[c].todo = call[c].todo \ {j}
             /\ \/ Unlinked(j) /\ Keeps(c, {"file"}) /\ call'[c].open = {j}
                \/ ~Unlinked(j) /\ Keeps(c, {"count"}) /\ call'[c].open = {}
      BY <1>0, <2>2, <2>7, <3>0, CountMoves
    <3>2. call'[c].pc \in Removing
      BY <3>1 DEF Keeps, Removing
    <3>3. CASE i = j /\ ~Unlinked(j)
      BY <3>0, <3>3 DEF Unlinked
    <3>4. CASE ~(i = j /\ ~Unlinked(j))
      <4>1. i \in call'[c].todo \cup call'[c].open
        BY <2>2, <3>0, <3>1, <3>4
      <4> QED BY <1>2, <3>2, <4>1 DEF Tends
    <3> QED BY <3>3, <3>4
  <2>8. CASE DeleteFile(c)
    <3>1. call'[c].pc = "row" /\ call'[c].todo = call[c].todo /\ call'[c].open = call[c].open
      BY <1>0, <2>8, MovePc, CountMoves DEF Keeps
    <3> QED BY <1>2, <2>2, <2>8, <3>1 DEF Tends, Removing, DeleteFile
  <2>9. CASE DeleteData(c)
    <3>1. /\ call[c].pc = "row" /\ call'[c].pc = "count" /\ call'[c].todo = call[c].todo
          /\ data' = data \ call[c].open /\ files' = files
      BY <1>0, <2>9, MovePc, CountMoves DEF DeleteData, Keeps
    <3>2. i \in call[c].todo \/ Stray(i)
      BY <1>0, <2>2, <3>1 DEF TodoOK
    <3> QED BY <1>2, <3>1, <3>2 DEF Tends, Removing
  <2>10. CASE Fail(c)
    BY <1>0, <1>2, <2>4, <2>10, MixedPc
  <2>11. ASSUME \/ \E q \in Requests : Begin(c, q)
                \/ CreateLookup(c) \/ CreateInsert(c) \/ CreateGrant(c) \/ AddResolve(c) \/ AddInsert(c)
                \/ AddGrant(c) \/ AddGet(c) \/ Resolve(c) \/ Detach(c)
         PROVE  FALSE
    BY <2>0, <2>11 DEF Begin, CreateLookup, CreateInsert, CreateGrant, AddResolve, AddInsert,
          AddGrant, AddGet, Resolve, Detach
  <2>12. ASSUME CogRead(c) \/ CogOwn(c) \/ CogWrite(c) \/ MarkRead(c) \/ MarkWrite(c) PROVE FALSE
    BY <2>0, <2>12 DEF CogRead, CogOwn, CogWrite, MarkRead, MarkWrite
  <2>13. ASSUME ClearRead(c) \/ ClearWrite(c) \/ SelectDataset(c) \/ SelectItem(c) \/ Wipe(c) \/ Unledger(c) PROVE FALSE
    BY <2>0, <2>13 DEF ClearRead, ClearWrite, SelectDataset, SelectItem, Wipe, Unledger
  <2> QED BY <2>5, <2>6, <2>7, <2>8, <2>9, <2>10, <2>11, <2>12, <2>13 DEF Step
<1> QED BY <1>1, <1>2

\* A failure takes links only from a delete that is detaching.
LEMMA FailQuiet ==
  ASSUME NEW c \in Calls, Fail(c), call[c].pc # "detach"
  PROVE  links' = links
<1>1. PICK part \in SUBSET UNION {{Ds(e)} \X call[e].cut : e \in {e \in {c} : call[e].pc = "detach"}} : links' = links \ part
  BY DEF Fail, CutOff
<1>2. part = {}
  OBVIOUS
<1> QED BY <1>1, <1>2

\* An item that loses its last link is in the care of the call that took it.
LEMMA LinkTended ==
  ASSUME SoundInv, GoneInv, NEW c \in Calls, Step(c), overlaps \subseteq overlaps',
         NEW i \in Items, i \in data' \cup files', ~Unlinked(i), Unlinked(i)'
  PROVE  Tends(c, i)' \/ Stray(i)
<1>0. TypeOK /\ CallsOK /\ TodoOK(c) /\ DeleteOK(c)
  BY DEF SoundInv, GoneInv, OwnedInv
<1>1. PICK d \in Datasets : <<d, i>> \in links /\ <<d, i>> \notin links'
  BY DEF Unlinked
<1>2. CASE call[c].pc = "detach" /\ d = Ds(c) /\ i \in call[c].cut
  <2>0. call'[c].req = call[c].req /\ It(c)' = It(c) /\ call[c].req.kind \in Deletes
    BY <1>0, <1>2, StepLive DEF CallsOK, CallOK, DeleteSteps
  <2>1. i \in call[c].todo /\ (call[c].req.kind = "item" => i = It(c))
    BY <1>0, <1>2 DEF TodoOK, Removing, DeleteSteps
  <2>2. CASE Detach(c)
    <3>1. call'[c].pc \in {"drop", "count"} /\ call'[c].todo = call[c].todo
      BY <1>0, <2>2, MovePc, StayMoves DEF Keeps
    <3> QED BY <2>1, <3>1 DEF Tends, Removing
  <2>3. CASE Fail(c)
    <3>1. call'[c].pc = "failed"
      BY <1>0, <2>3, MixedPc
    <3> QED BY <2>0, <2>1, <3>1 DEF Tends, Deletes
  <2>4. Detach(c) \/ Fail(c)
    BY <1>1, <1>2, Effects DEF AddAttach, DropDataset, DeleteData
  <2> QED BY <2>2, <2>3, <2>4
<1>3. CASE call[c].pc = "drop" /\ d = Ds(c)
  <2>1. DropDataset(c)
    BY <1>0, <1>1, <1>3, Effects, FailQuiet DEF AddAttach, Detach, DeleteData
  <2>2. call'[c].pc = "count" /\ call'[c].todo = call[c].todo
    BY <1>0, <2>1, MovePc, StayMoves DEF Keeps
  <2>3. call[c].whole
    BY <1>0, <1>3 DEF DeleteOK, DeleteSteps
  <2>4. i \in call[c].todo \/ Stray(i)
    BY <1>0, <1>1, <1>3, <2>3 DEF TodoOK, LinkedTo, Removing, DeleteSteps
  <2> QED BY <2>2, <2>4 DEF Tends, Removing
<1>4. CASE DeleteData(c) /\ call[c].pc = "row" /\ i \in call[c].open
  <2>1. i \in files
    BY <1>4 DEF DeleteData
  <2> QED BY <1>0, <1>4, <2>1 DEF TodoOK
<1> QED BY <1>0, <1>1, <1>2, <1>3, <1>4, LinkLoss

LEMMA StepOrphans ==
  ASSUME SoundInv, GoneInv, NEW c \in Calls, Step(c), overlaps \subseteq overlaps'
  PROVE  NoOrphans' /\ FilesRowed'
<1>0. TypeOK /\ CallsOK /\ TodoOK(c) /\ NoOrphans /\ FilesRowed /\ \A i : Stray(i) => Stray(i)'
  BY StrayStays DEF SoundInv, GoneInv
<1>1. ASSUME AddGet(c)
      PROVE  /\ data' = data \cup {It(c)} /\ files' = files \cup ({It(c)} \ data)
             /\ (\A i : i = It(c) => Tends(c, i)') /\ It(c) \in Items
  <2>1. call[c].pc = "get" /\ call'[c].pc = "attach" /\ It(c)' = It(c)
    BY <1>0, <1>1, MovePc, StepLive DEF AddGet
  <2>2. call[c].req.kind = "add"
    BY <1>0, <2>1 DEF CallsOK, CallOK, AddSteps
  <2>3. It(c) \in Items
    BY <1>0, <2>1, <2>2, ActiveType
  <2> QED BY <1>1, <2>1, <2>3 DEF AddGet, Tends
<1>2. data' \subseteq Items /\ files' \subseteq Items
  BY <1>0, <1>1, Effects DEF TypeOK, DeleteData, DeleteFile
<1>3. ASSUME NEW i \in data' \cup files'
      PROVE  (~Unlinked(i) \/ (\E e \in Calls : Tends(e, i)) \/ Stray(i))'
  <2>1. CASE i \notin data \cup files
    <3>1. AddGet(c) /\ i = It(c)
      BY <1>1, <1>3, <2>1, Effects DEF DeleteData, DeleteFile
    <3> QED BY <1>1, <3>1
  <2>2. CASE i \in data \cup files
    <3>1. ~Unlinked(i) \/ (\E e \in Calls : Tends(e, i)) \/ Stray(i)
      BY <1>0, <2>2 DEF NoOrphans
    <3>2. ASSUME NEW e \in Calls, Tends(e, i) PROVE (~Unlinked(i) \/ (\E x \in Calls : Tends(x, i)) \/ Stray(i))'
      BY <1>0, <1>2, <1>3, <3>2, TendsStays
    <3>3. ASSUME ~Unlinked(i) PROVE (~Unlinked(i) \/ (\E x \in Calls : Tends(x, i)) \/ Stray(i))'
      BY <1>0, <1>2, <1>3, <3>3, LinkTended
    <3> QED BY <1>0, <3>1, <3>2, <3>3
  <2> QED BY <2>1, <2>2
<1>4. ASSUME NEW i \in files' PROVE i \in data' \/ Stray(i)'
  <2>1. CASE DeleteData(c)
    BY <1>0, <1>4, <2>1 DEF DeleteData, TodoOK, FilesRowed
  <2>2. CASE DeleteFile(c)
    BY <1>0, <1>4, <2>2 DEF DeleteFile, tables, FilesRowed
  <2>3. CASE AddGet(c)
    BY <1>0, <1>1, <1>4, <2>3 DEF FilesRowed
  <2> QED BY <1>0, <1>4, <2>1, <2>2, <2>3, Effects DEF FilesRowed
<1> QED BY <1>3, <1>4 DEF NoOrphans, FilesRowed

LEMMA CrashGone ==
  ASSUME SoundInv, GoneInv, Crash, overlaps \subseteq overlaps'
  PROVE  GoneInv'
<1>0. TypeOK /\ CallsOK /\ NoOrphans /\ FilesRowed /\ \A i : Stray(i) => Stray(i)'
  BY StrayStays DEF SoundInv, GoneInv
<1>1. /\ data' = data /\ files' = files
      /\ \A c \in Calls : /\ call'[c].req = call[c].req
                          /\ call[c].pc \in Steps => call'[c].pc = "dead"
                          /\ call[c].pc \notin Steps => call'[c] = call[c]
  BY DEF Crash, Active, Ended, Idle
<1>2. \A c \in Calls : call'[c].pc \notin Steps
  BY <1>1 DEF Steps
<1>3. \A b \in Calls : TodoOK(b)' /\ GoneOK(b)'
  BY <1>2 DEF TodoOK, GoneOK, DeleteSteps, Steps, Removing
<1>4. FilesRowed'
  BY <1>0, <1>1 DEF FilesRowed
<1>5. ASSUME NEW i \in data' \cup files'
      PROVE  (~Unlinked(i) \/ (\E e \in Calls : Tends(e, i)) \/ Stray(i))'
  <2>1. i \in Items /\ (~Unlinked(i) \/ (\E e \in Calls : Tends(e, i)) \/ Stray(i))
    BY <1>0, <1>1, <1>5 DEF NoOrphans, TypeOK
  <2>2. ASSUME NEW e \in Calls, Tends(e, i) PROVE Tends(e, i)'
    <3>1. CASE call[e].pc \in {"failed", "dead"}
      BY <1>1, <2>2, <3>1 DEF Tends, It, Steps, Removing
    <3>2. CASE call[e].pc = "attach"
      BY <1>1, <2>2, <3>2 DEF Tends, It, Steps, Removing
    <3>3. CASE call[e].pc \in Removing \cup {"drop"}
      <4>1. call[e].req.kind \in Deletes /\ TodoOK(e) /\ i \in call[e].todo \cup call[e].open
        BY <1>0, <2>2, <3>3 DEF CallsOK, CallOK, Removing, DeleteSteps, GoneInv, Tends
      <4>2. call[e].req.kind = "item" => i = It(e)
        BY <3>3, <4>1 DEF TodoOK, Removing, DeleteSteps
      <4>3. call'[e].pc = "dead" /\ call'[e].req = call[e].req
        BY <1>1, <3>3 DEF Steps, Removing
      <4> QED BY <4>1, <4>2, <4>3 DEF Tends, Deletes, It
    <3> QED BY <2>2, <3>1, <3>2, <3>3 DEF Tends
  <2>3. ASSUME ~Unlinked(i), Unlinked(i)' PROVE \E e \in Calls : Tends(e, i)'
    <3>1. PICK d \in Datasets : <<d, i>> \in links /\ <<d, i>> \notin links'
      BY <2>3 DEF Unlinked
    <3>2. PICK part \in SUBSET UNION {{Ds(e)} \X call[e].cut : e \in {e \in Calls : call[e].pc = "detach"}} : links' = links \ part
      BY DEF Crash, CutOff
    <3>3. PICK e \in Calls : call[e].pc = "detach" /\ d = Ds(e) /\ i \in call[e].cut
      BY <3>1, <3>2
    <3>4. DeleteOK(e) /\ call[e].req.kind \in Deletes
      BY <1>0, <3>3 DEF SoundInv, OwnedInv, CallsOK, CallOK, DeleteSteps
    <3>5. call[e].req.kind = "item" => i = It(e)
      BY <3>3, <3>4 DEF DeleteOK, DeleteSteps
    <3>6. call'[e].pc = "dead" /\ call'[e].req = call[e].req
      BY <1>1, <3>3 DEF Steps
    <3> QED BY <3>4, <3>5, <3>6 DEF Tends, Deletes, It
  <2> QED BY <1>0, <2>1, <2>2, <2>3
<1> QED BY <1>3, <1>4, <1>5 DEF GoneInv, NoOrphans

LEMMA NextGone == SoundInv /\ GoneInv /\ [Next]_vars => GoneInv'
<1> SUFFICES ASSUME SoundInv, GoneInv, [Next]_vars PROVE GoneInv'
  OBVIOUS
<1>1. overlaps \subseteq overlaps'
  BY NextWatched DEF SoundInv
<1>2. ASSUME NEW c \in Calls, Step(c) PROVE GoneInv'
  <2>1. ASSUME NEW e \in Calls PROVE TodoOK(e)' /\ GoneOK(e)'
    BY <1>1, <1>2, StepTodo, StepGone
  <2> QED BY <1>1, <1>2, <2>1, StepOrphans DEF GoneInv
<1>3. ASSUME UNCHANGED vars PROVE GoneInv'
  <2>1. /\ isolated' = isolated /\ store' = store /\ call' = call /\ datasets' = datasets
        /\ overlaps' = overlaps /\ links' = links /\ data' = data /\ files' = files
    BY <1>3 DEF vars, base, tables
  <2> QED BY <2>1 DEF GoneInv, NoOrphans, FilesRowed, TodoOK, GoneOK, Tends, Unlinked, Stray, LinkedTo, Met, Ds, It
<1> QED BY <1>1, <1>2, <1>3, CrashGone DEF Next, Quiescent

\* Only the end of a dataset's removal returns a full delete of the dataset.
LEMMA Returns ==
  ASSUME TypeOK, CallsOK, NEW c \in Calls, Step(c), call[c].pc \in Steps, call'[c].pc = "ok",
         call[c].req.kind = "dataset", ~call[c].req.memory
  PROVE  Count(c) /\ call[c].pc = "count" /\ call[c].todo = {}
<1>0. CallOK(c)
  BY DEF CallsOK
<1>1. ASSUME NEW q \in Requests, Begin(c, q) PROVE FALSE
  BY <1>1 DEF Begin, Steps
<1>2. ASSUME CreateLookup(c) \/ CreateInsert(c) \/ CreateGrant(c) PROVE FALSE
  BY <1>0, <1>2 DEF CreateLookup, CreateInsert, CreateGrant, CallOK, CreateSteps
<1>3. ASSUME AddResolve(c) \/ AddInsert(c) \/ AddGrant(c) \/ AddGet(c) \/ AddAttach(c) PROVE FALSE
  BY <1>0, <1>3 DEF AddResolve, AddInsert, AddGrant, AddGet, AddAttach, CallOK, AddSteps
<1>4. ASSUME CogRead(c) \/ CogOwn(c) \/ CogWrite(c) \/ MarkRead(c) \/ MarkWrite(c) PROVE FALSE
  BY <1>0, <1>4 DEF CogRead, CogOwn, CogWrite, MarkRead, MarkWrite, CallOK, CogSteps
<1>5. ASSUME Resolve(c) PROVE FALSE
  <2>1. End(c, "failed") => call'[c].pc = "failed"
    BY EndPc
  <2>2. ASSUME ~End(c, "failed") PROVE call'[c].pc \in DeleteSteps
    <3> DEFINE q == call[c].req
               whole == q.kind = "dataset" \/ (q.ifEmpty /\ LinkedTo(q.dataset) \subseteq {q.item})
               cut == IF q.kind = "dataset" THEN LinkedTo(q.dataset) ELSE {q.item} \cap data
               todo == IF q.kind = "dataset" THEN cut ELSE {q.item}
               pc == FirstStep(q, whole, whole \/ cut # {})
               k == [call[c] EXCEPT !.pc = pc, !.whole = whole, !.cut = cut, !.todo = todo]
    <3>1. Now(c, k)
      BY <1>5, <2>2 DEF Resolve
    <3>2. pc \in DeleteSteps
      BY FirstStepType
    <3> HIDE DEF whole, cut, todo, pc
    <3>3. k.pc = pc
      BY DEF TypeOK, CallType
    <3> HIDE DEF k
    <3> QED BY <3>1, <3>2, <3>3, NowIs
  <2> QED BY <2>1, <2>2 DEF DeleteSteps
<1>6. ASSUME ClearWrite(c) PROVE FALSE
  BY <1>6, ClearMoves DEF Keeps, FirstCleanup
<1>7. ASSUME ClearRead(c) \/ SelectDataset(c) \/ SelectItem(c) \/ Wipe(c) \/ Unledger(c) \/ Detach(c)
             \/ DropDataset(c) \/ DeleteFile(c) \/ DeleteData(c)
      PROVE  FALSE
  BY <1>7, MovePc, SelectDatasetMoves, SelectItemMoves DEF Keeps, AfterDataset, AfterCleanup
<1>8. ASSUME Fail(c) PROVE FALSE
  BY <1>8, MixedPc
<1>9. Count(c) => call[c].pc = "count" /\ call[c].todo = {}
  BY CountMoves DEF Count, Keeps
<1> QED BY <1>1, <1>2, <1>3, <1>4, <1>5, <1>6, <1>7, <1>8, <1>9 DEF Step

\* When a delete of a dataset returns, its row, its ownership rows and its artifacts
\* are gone, and the items it has detached are gone with their files, unless another
\* dataset holds them, another call is at them or was cut off, or a create, a run or
\* an add that no lock keeps apart has met the delete.
THEOREM DeletesComplete == Spec => DeletedGone
<1> DEFINE A == \A c \in Calls :
       /\ call[c].pc \in Steps /\ call'[c].pc = "ok"
       /\ call[c].req.kind = "dataset" /\ ~call[c].req.memory
       => LET d == Ds(c) IN
          /\ \/ d \notin datasets' /\ \A r \in ledger' : r[1] # d
             \/ <<"create", d>> \in overlaps
          /\ isolated => (\A a \in store' : a[1] # d) \/ <<"run", d>> \in overlaps
          /\ \A i \in call[c].cut : i \in data' \cup files' =>
               \/ \E e \in Datasets : <<e, i>> \in links'
               \/ \E e \in Calls : /\ call'[e].pc \notin {"idle", "ok"}
                                   /\ call'[e].req.kind = "dataset" \/ call'[e].req.item = i
               \/ {<<"add", i>>, <<"late", i>>} \cap overlaps # {}
<1>1. ASSUME SoundInv, GoneInv, [Next]_vars PROVE A
  <2> SUFFICES ASSUME NEW c \in Calls, call[c].pc \in Steps, call'[c].pc = "ok",
                      call[c].req.kind = "dataset", ~call[c].req.memory
               PROVE  /\ \/ Ds(c) \notin datasets' /\ \A r \in ledger' : r[1] # Ds(c)
                         \/ <<"create", Ds(c)>> \in overlaps
                      /\ isolated => (\A a \in store' : a[1] # Ds(c)) \/ <<"run", Ds(c)>> \in overlaps
                      /\ \A i \in call[c].cut : i \in data' \cup files' =>
                           \/ \E e \in Datasets : <<e, i>> \in links'
                           \/ \E e \in Calls : /\ call'[e].pc \notin {"idle", "ok"}
                                               /\ call'[e].req.kind = "dataset" \/ call'[e].req.item = i
                           \/ {<<"add", i>>, <<"late", i>>} \cap overlaps # {}
    OBVIOUS
  <2>0. TypeOK /\ CallsOK /\ NoOrphans /\ GoneOK(c) /\ TodoOK(c) /\ DeleteOK(c)
    BY <1>1 DEF SoundInv, GoneInv, OwnedInv
  <2>1. Step(c)
    <3>1. call'[c] # call[c]
      BY DEF Steps
    <3>2. ~Crash
      BY <2>0 DEF Crash, Active, Ended, Idle
    <3>3. PICK e \in Calls : Step(e)
      BY <1>1, <3>1, <3>2 DEF Next, Quiescent, vars
    <3> QED BY <2>0, <3>1, <3>3, StepShape
  <2>2. Count(c) /\ call[c].pc = "count" /\ call[c].todo = {}
    BY <2>0, <2>1, Returns
  <2>3. /\ datasets' = datasets /\ ledger' = ledger /\ store' = store /\ links' = links
        /\ data' = data /\ files' = files
    BY <2>2 DEF Count, base, tables
  <2>4. call[c].whole /\ call[c].open = {}
    BY <2>0, <2>2 DEF DeleteOK, TodoOK, DeleteSteps
  <2>5. Ds(c) \notin datasets \/ <<"create", Ds(c)>> \in overlaps
    BY <2>0, <2>2, <2>4 DEF GoneOK, Removing
  <2>6. \A r \in ledger : r[1] \in datasets
    BY <2>0 DEF TypeOK
  <2>7. isolated => (\A a \in store' : a[1] # Ds(c)) \/ <<"run", Ds(c)>> \in overlaps
    BY <2>0, <2>2, <2>3 DEF GoneOK, Removing, Met
  <2>8. ASSUME NEW i \in call[c].cut, i \in data' \cup files'
        PROVE  \/ \E e \in Datasets : <<e, i>> \in links'
               \/ \E e \in Calls : /\ call'[e].pc \notin {"idle", "ok"}
                                   /\ call'[e].req.kind = "dataset" \/ call'[e].req.item = i
               \/ {<<"add", i>>, <<"late", i>>} \cap overlaps # {}
    <3>1. ~Unlinked(i) \/ (\E e \in Calls : Tends(e, i)) \/ Stray(i)
      BY <2>0, <2>3, <2>8 DEF NoOrphans
    <3>2. ~Unlinked(i) => \E e \in Datasets : <<e, i>> \in links'
      BY <2>3 DEF Unlinked
    <3>3. ASSUME NEW e \in Calls, Tends(e, i)
          PROVE  call'[e].pc \notin {"idle", "ok"} /\ (call'[e].req.kind = "dataset" \/ call'[e].req.item = i)
      <4>1. e # c
        BY <2>2, <2>4, <3>3 DEF Tends, Removing
      <4>2. call'[e] = call[e]
        BY <2>0, <2>1, <4>1, StepShape
      <4>3. CASE call[e].pc \in Removing \cup {"drop"}
        <5>1. call[e].req.kind \in Deletes /\ TodoOK(e) /\ i \in call[e].todo \cup call[e].open
          BY <1>1, <2>0, <3>3, <4>3 DEF CallsOK, CallOK, Removing, DeleteSteps, GoneInv, Tends
        <5>2. call[e].req.kind = "item" => i = It(e)
          BY <4>3, <5>1 DEF TodoOK, Removing, DeleteSteps
        <5> QED BY <4>2, <4>3, <5>1, <5>2 DEF Removing, Deletes, It
      <4> QED BY <3>3, <4>2, <4>3 DEF Tends, It
    <3> QED BY <3>1, <3>2, <3>3 DEF Stray
  <2> QED BY <2>3, <2>5, <2>6, <2>7, <2>8
<1>2. Spec => [](SoundInv /\ GoneInv)
  BY InitSound, NextSound, InitGone, NextGone, PTL DEF Spec
<1>3. Spec => [][A]_vars
  BY <1>1, <1>2, PTL DEF Spec
<1> QED BY <1>3 DEF DeletedGone
=============================================================================
