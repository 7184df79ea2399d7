------------------------- MODULE DatasetLocksProofs -------------------------
(***************************************************************************)
(* Proofs about DatasetLocks for any number of tasks and datasets and any  *)
(* pruning threshold: the locks exclude, a hold keeps its keys, and the    *)
(* registry grows past the threshold only while all of it is in use.       *)
(***************************************************************************)
EXTENDS DatasetLocks, WellFoundedInduction, FiniteSetTheorems, SequenceTheorems, TLAPS

\* Whoever has an Arc of a mutex has the one the registry would hand out.
Registered == \A t \in Tasks, k \in Keys : ref[t][k] # None => entry[k] = ref[t][k]

\* A locked key is locked through a mutex the task has an Arc of.
Mine(t) == \A k \in got[t] : ref[t][k] # None /\ owner[k][ref[t][k]] = t

\* A request that is being granted: each of its keys is locked or wanted, none
\* both, and none belongs to an enclosing request.
Asking(t) ==
  /\ pc[t] \in {"resolve", "wait"} =>
       /\ want[t] # {}
       /\ want[t] \cap got[t] = {}
       /\ asked[t].keys \subseteq got[t] \union want[t]
       /\ \A i \in DOMAIN frames[t] : frames[t][i].keys \cap asked[t].keys = {}
  /\ pc[t] = "wait" => ref[t][NextKey(t)] # None

\* Requests a task is inside of have their keys, apart from each other and from
\* what is being dropped.
Nested(t) ==
  /\ \A i \in DOMAIN frames[t] : frames[t][i].keys \subseteq got[t]
  /\ \A i, j \in DOMAIN frames[t] : i # j => frames[t][i].keys \cap frames[t][j].keys = {}
  /\ \A i \in DOMAIN frames[t] : frames[t][i].keys \cap shed[t] = {}
  /\ pc[t] # "drop" => shed[t] = {}

TaskInv(t) == Mine(t) /\ Asking(t) /\ Nested(t)

LockInv == TypeOK /\ Registered /\ \A t \in Tasks : TaskInv(t)

-----------------------------------------------------------------------------
LEMMA NextKeyWanted ==
  ASSUME TypeOK, NEW t \in Tasks, want[t] # {}
  PROVE  NextKey(t) \in want[t] /\ NextKey(t) \in Keys
<1>1. want[t] \subseteq Nat
  BY LockAssumption DEF TypeOK
<1>2. PICK k \in want[t] : \A j \in want[t] : <<j, k>> \notin OpToRel(<, Nat)
  BY <1>1, WFMin, NatLessThanWellFounded, Zenon
<1>3. \A j \in want[t] : ~ (j < k)
  BY <1>1, <1>2 DEF OpToRel
<1>4. \E i \in want[t] : \A j \in want[t] : i <= j
  BY <1>1, <1>3
<1> QED
  BY <1>4 DEF NextKey, TypeOK

\* A key somebody has an Arc for is live, and a dead one has a name to spare.
LEMMA LiveIfUsed ==
  ASSUME Registered, NEW t \in Tasks, NEW k \in Keys, ref[t][k] # None
  PROVE  Live(k)
  BY DEF Registered, Live

LEMMA NewMutexType ==
  ASSUME Registered, NEW k \in Keys, ~ Live(k)
  PROVE  NewMutex(k) \in Mutexes
<1>1. \A t \in Tasks : ref[t][k] = None
  BY LiveIfUsed
<1>2. \E m \in Mutexes : \A t \in Tasks : ref[t][k] # m
  BY <1>1, LockAssumption
<1> QED
  BY <1>2 DEF NewMutex

\* A step of one task leaves the requests of the others alone.
LEMMA OtherTask ==
  ASSUME LockInv, NEW t \in Tasks, NEW u \in Tasks, u # t,
         pc'[u] = pc[u], frames'[u] = frames[u], asked'[u] = asked[u], want'[u] = want[u],
         got'[u] = got[u], shed'[u] = shed[u], ref'[u] = ref[u]
  PROVE  Asking(u)' /\ Nested(u)'
  BY DEF LockInv, TaskInv, Asking, Nested, NextKey

LEMMA LockInit == Init => LockInv
<1> SUFFICES ASSUME Init PROVE LockInv
  OBVIOUS
<1>1. TypeOK
  BY LockAssumption DEF Init, TypeOK, Request, NoRequest, Kinds
<1>2. Registered
  BY DEF Init, Registered
<1>3. ASSUME NEW t \in Tasks PROVE TaskInv(t)
  <2>1. frames[t] = <<>> /\ DOMAIN frames[t] = {}
    BY DEF Init
  <2> QED
    BY <2>1 DEF Init, TaskInv, Mine, Asking, Nested
<1> QED
  BY <1>1, <1>2, <1>3 DEF LockInv
-----------------------------------------------------------------------------
LEMMA AskStep ==
  ASSUME LockInv, NEW t \in Tasks, NEW kind \in Kinds, NEW keys \in SUBSET Keys,
         Ask(t, kind, keys)
  PROVE  LockInv'
<1> DEFINE fresh == keys \ Held(t)
<1> USE DEF LockInv
<1>1. ASSUME NEW u \in Tasks, u # t PROVE TaskInv(u)'
  BY <1>1, OtherTask DEF Ask, Goto, TypeOK, TaskInv, Mine
<1>2. CASE fresh = {}
  <2>1. frames' = [frames EXCEPT ![t] = Append(@, [kind |-> kind, keys |-> {}])]
        /\ UNCHANGED <<pc, asked, want, got, shed, ref, entry, owner>>
    BY <1>2 DEF Ask
  <2>2. [kind |-> kind, keys |-> {}] \in Request
    BY DEF Request
  <2>3. TypeOK'
    BY <2>1, <2>2 DEF TypeOK
  <2>4. /\ DOMAIN frames'[t] = 1..(Len(frames[t]) + 1)
        /\ \A i \in DOMAIN frames[t] : frames'[t][i] = frames[t][i]
        /\ frames'[t][Len(frames[t]) + 1].keys = {}
        /\ DOMAIN frames[t] = 1..Len(frames[t])
        /\ Len(frames[t]) \in Nat
    BY <2>1, <2>2 DEF TypeOK
  <2>5. TaskInv(t)'
    BY <2>1, <2>4 DEF TaskInv, Mine, Asking, Nested, Ask
  <2> QED
    BY <1>1, <2>1, <2>3, <2>5 DEF Registered
<1>3. CASE fresh # {}
  <2>1. /\ pc[t] = "body"
        /\ Ascending(t, fresh)
        /\ asked' = [asked EXCEPT ![t] = [kind |-> kind, keys |-> fresh]]
        /\ want' = [want EXCEPT ![t] = fresh]
        /\ pc' = [pc EXCEPT ![t] = "resolve"]
        /\ UNCHANGED <<frames, got, shed, ref, entry, owner>>
    BY <1>3 DEF Ask, Goto
  <2>2. TypeOK'
    <3>1. [kind |-> kind, keys |-> fresh] \in Request
      BY DEF Request
    <3> QED
      BY <2>1, <3>1 DEF TypeOK
  <2>3. fresh \cap got[t] = {}
    <3>1. fresh \subseteq Nat
      BY LockAssumption
    <3> QED
      BY <2>1, <3>1 DEF Ascending
  <2>4. asked'[t].keys = fresh /\ want'[t] = fresh /\ pc'[t] = "resolve"
    BY <2>1 DEF TypeOK
  <2>5. TaskInv(t)'
    BY <1>3, <2>1, <2>3, <2>4 DEF TaskInv, Mine, Asking, Nested
  <2> QED
    BY <1>1, <2>1, <2>2, <2>5 DEF Registered
<1> QED
  BY <1>2, <1>3

LEMMA ResolveStep ==
  ASSUME LockInv, NEW t \in Tasks, Resolve(t)
  PROVE  LockInv'
<1> DEFINE k == NextKey(t)
<1> USE DEF LockInv
<1>0. k \in want[t] /\ k \in Keys /\ k \notin got[t]
  BY NextKeyWanted DEF TaskInv, Asking, Resolve
<1>1. PICK m \in Mutexes :
        /\ ref' = [ref EXCEPT ![t][k] = m]
        /\ entry'[k] = m
        /\ entry' \in [Keys -> Mutexes \union {None}]
        /\ \A j \in Keys : j # k /\ Live(j) => entry'[j] = entry[j]
        /\ \A u \in Tasks : ref[u][k] # None => ref[u][k] = m
        /\ owner' = owner \/ (owner' = [owner EXCEPT ![k][m] = None] /\ ~ Live(k))
  <2>1. CASE Live(k)
    BY <1>0, <2>1 DEF Resolve, Live, Registered, TypeOK
  <2>2. CASE ~ Live(k)
    <3> DEFINE m == NewMutex(k)
    <3>1. m \in Mutexes
      BY <1>0, <2>2, NewMutexType
    <3>2. /\ ref' = [ref EXCEPT ![t][k] = m]
          /\ entry' = [j \in Keys |-> IF j = k THEN m ELSE IF j \in Kept THEN entry[j] ELSE None]
          /\ owner' = [owner EXCEPT ![k][m] = None]
      BY <2>2 DEF Resolve
    <3>3. \A j \in Keys : Live(j) => j \in Kept
      BY DEF Live, Kept, Present
    <3>4. \A u \in Tasks : ref[u][k] = None
      BY <1>0, <2>2, LiveIfUsed
    <3>5. entry' \in [Keys -> Mutexes \union {None}]
      BY <3>1, <3>2 DEF TypeOK
    <3> HIDE DEF m, k
    <3> QED
      BY <1>0, <2>2, <3>1, <3>2, <3>3, <3>4, <3>5
  <2> QED
    BY <2>1, <2>2
<1>2. /\ pc[t] = "resolve"
      /\ pc' = [pc EXCEPT ![t] = "wait"]
      /\ UNCHANGED <<frames, asked, want, got, shed>>
  BY DEF Resolve, Goto
<1> HIDE DEF k
<1>3. TypeOK'
  <2>1. ref' \in [Tasks -> [Keys -> Mutexes \union {None}]]
    BY <1>0, <1>1 DEF TypeOK
  <2>2. owner' \in [Keys -> [Mutexes -> Tasks \union {None}]]
    <3>1. owner \in [Keys -> [Mutexes -> Tasks \union {None}]]
      BY DEF TypeOK
    <3>2. CASE owner' = [owner EXCEPT ![k][m] = None]
      BY <1>0, <3>1, <3>2
    <3> QED
      BY <1>1, <3>1, <3>2
  <2>3. pc' \in [Tasks -> {"body", "resolve", "wait", "drop"}]
    BY <1>2 DEF TypeOK
  <2> QED
    BY <1>1, <1>2, <2>1, <2>2, <2>3 DEF TypeOK
<1>4. Registered'
  <2> SUFFICES ASSUME NEW u \in Tasks, NEW j \in Keys, ref'[u][j] # None
               PROVE  entry'[j] = ref'[u][j]
    BY DEF Registered
  <2>1. CASE j = k
    BY <1>0, <1>1, <2>1 DEF TypeOK
  <2>2. CASE j # k
    <3>1. ref'[u][j] = ref[u][j]
      BY <1>0, <1>1, <2>2 DEF TypeOK
    <3>2. Live(j) /\ entry[j] = ref[u][j]
      BY <3>1, LiveIfUsed DEF Registered
    <3> QED
      BY <1>1, <2>2, <3>1, <3>2
  <2> QED
    BY <2>1, <2>2
<1>5. ASSUME NEW u \in Tasks PROVE Mine(u)'
  <2> SUFFICES ASSUME NEW j \in got[u]
               PROVE  ref'[u][j] # None /\ owner'[j][ref'[u][j]] = u
    BY <1>2 DEF Mine
  <2>1. j \in Keys /\ ref[u][j] # None /\ owner[j][ref[u][j]] = u
    BY DEF TypeOK, TaskInv, Mine
  <2>2. ref'[u][j] = ref[u][j]
    BY <1>0, <1>1, <2>1 DEF TypeOK
  <2>3. j = k => Live(k)
    BY <2>1, LiveIfUsed
  <2>4. owner'[j] = owner[j]
    BY <1>0, <1>1, <2>1, <2>3 DEF TypeOK
  <2> QED
    BY <2>1, <2>2, <2>4
<1>6. Asking(t)' /\ Nested(t)'
  <2>1. NextKey(t)' = k /\ ref'[t][k] = m /\ m # None
    BY <1>0, <1>1, <1>2, LockAssumption DEF NextKey, k, TypeOK
  <2>2. pc'[t] = "wait"
    BY <1>2 DEF TypeOK
  <2> QED
    BY <1>2, <2>1, <2>2 DEF TaskInv, Asking, Nested
<1>7. ASSUME NEW u \in Tasks, u # t PROVE Asking(u)' /\ Nested(u)'
  BY <1>1, <1>2, <1>7, OtherTask DEF TypeOK
<1> QED
  BY <1>3, <1>4, <1>5, <1>6, <1>7 DEF TaskInv
LEMMA AcquireStep ==
  ASSUME LockInv, NEW t \in Tasks, Acquire(t)
  PROVE  LockInv'
<1> DEFINE k == NextKey(t)
           m == ref[t][k]
<1> USE DEF LockInv
<1>0. k \in want[t] /\ k \in Keys /\ m \in Mutexes /\ pc[t] = "wait"
  BY NextKeyWanted DEF TaskInv, Asking, Acquire, TypeOK
<1>1. /\ owner[k][m] = None
      /\ owner' = [owner EXCEPT ![k][m] = t]
      /\ got' = [got EXCEPT ![t] = @ \union {k}]
      /\ want' = [want EXCEPT ![t] = @ \ {k}]
      /\ \/ /\ want[t] # {k}
            /\ pc' = [pc EXCEPT ![t] = "resolve"]
            /\ UNCHANGED <<frames, asked>>
         \/ /\ want[t] = {k}
            /\ pc' = [pc EXCEPT ![t] = "body"]
            /\ frames' = [frames EXCEPT ![t] = Append(@, asked[t])]
            /\ asked' = [asked EXCEPT ![t] = NoRequest]
      /\ UNCHANGED <<shed, ref, entry>>
  BY DEF Acquire, Goto
<1> HIDE DEF k, m
<1>2. TypeOK'
  <2>1. owner' \in [Keys -> [Mutexes -> Tasks \union {None}]]
    BY <1>0, <1>1 DEF TypeOK
  <2>2. got' \in [Tasks -> SUBSET Keys] /\ want' \in [Tasks -> SUBSET Keys]
    BY <1>0, <1>1 DEF TypeOK
  <2>3. asked' \in [Tasks -> Request] /\ frames' \in [Tasks -> Seq(Request)]
    <3>1. NoRequest \in Request
      BY DEF NoRequest, Request, Kinds
    <3>2. asked \in [Tasks -> Request] /\ frames \in [Tasks -> Seq(Request)]
      BY DEF TypeOK
    <3>3. Append(frames[t], asked[t]) \in Seq(Request)
      BY <3>2
    <3> QED
      BY <1>1, <3>1, <3>2, <3>3
  <2>4. pc' \in [Tasks -> {"body", "resolve", "wait", "drop"}]
    BY <1>1 DEF TypeOK
  <2> QED
    BY <1>1, <2>1, <2>2, <2>3, <2>4 DEF TypeOK
<1>3. Registered'
  BY <1>1 DEF Registered
<1>4. ASSUME NEW u \in Tasks PROVE Mine(u)'
  <2> SUFFICES ASSUME NEW j \in got'[u]
               PROVE  ref[u][j] # None /\ owner'[j][ref[u][j]] = u
    BY <1>1 DEF Mine
  <2>1. CASE j \in got[u]
    <3>1. j \in Keys /\ ref[u][j] \in Mutexes /\ owner[j][ref[u][j]] = u /\ ref[u][j] # None
      BY <2>1 DEF TypeOK, TaskInv, Mine
    <3>2. u # None
      BY LockAssumption
    <3> QED
      BY <1>0, <1>1, <3>1, <3>2 DEF TypeOK
  <2>2. CASE j \notin got[u]
    <3>1. u = t /\ j = k
      BY <1>1, <2>2 DEF TypeOK
    <3> QED
      BY <1>0, <1>1, <3>1, LockAssumption DEF m, TypeOK
  <2> QED
    BY <2>1, <2>2
<1>5. got'[t] = got[t] \union {k} /\ want'[t] = want[t] \ {k} /\ shed'[t] = {}
  BY <1>0, <1>1 DEF TypeOK, TaskInv, Nested
<1>6. /\ want[t] \cap got[t] = {}
      /\ asked[t].keys \subseteq got[t] \union want[t]
      /\ \A i \in DOMAIN frames[t] : frames[t][i].keys \cap asked[t].keys = {}
  BY <1>0 DEF TaskInv, Asking
<1>7. Asking(t)' /\ Nested(t)'
  <2>1. CASE want[t] # {k}
    <3>1. pc'[t] = "resolve" /\ frames'[t] = frames[t] /\ asked'[t] = asked[t]
      BY <1>1, <2>1 DEF TypeOK
    <3>2. want'[t] # {}
      BY <1>0, <1>5, <2>1
    <3> QED
      BY <1>5, <1>6, <3>1, <3>2 DEF TaskInv, Asking, Nested
  <2>2. CASE want[t] = {k}
    <3>1. pc'[t] = "body" /\ frames'[t] = Append(frames[t], asked[t])
      BY <1>1, <2>2 DEF TypeOK
    <3>2. /\ DOMAIN frames'[t] = 1..(Len(frames[t]) + 1)
          /\ \A i \in DOMAIN frames[t] : frames'[t][i] = frames[t][i]
          /\ frames'[t][Len(frames[t]) + 1] = asked[t]
          /\ DOMAIN frames[t] = 1..Len(frames[t])
          /\ Len(frames[t]) \in Nat
      BY <3>1 DEF TypeOK
    <3>3. asked[t].keys \subseteq got'[t]
      BY <1>5, <1>6, <2>2
    <3> QED
      BY <1>5, <1>6, <3>1, <3>2, <3>3 DEF TaskInv, Asking, Nested
  <2> QED
    BY <2>1, <2>2
<1>8. ASSUME NEW u \in Tasks, u # t PROVE Asking(u)' /\ Nested(u)'
  BY <1>1, <1>8, OtherTask DEF TypeOK
<1> QED
  BY <1>2, <1>3, <1>4, <1>7, <1>8 DEF TaskInv

LEMMA LeaveStep ==
  ASSUME LockInv, NEW t \in Tasks, Leave(t)
  PROVE  LockInv'
<1> DEFINE n == Len(frames[t])
           top == frames[t][n].keys
<1> USE DEF LockInv
<1>1. /\ shed' = [shed EXCEPT ![t] = top]
      /\ pc' = [pc EXCEPT ![t] = IF top = {} THEN "body" ELSE "drop"]
      /\ frames' = [frames EXCEPT ![t] = SubSeq(@, 1, n - 1)]
      /\ UNCHANGED <<asked, want, got, ref, entry, owner>>
  BY DEF Leave, Shed, Goto
<1>2. /\ n \in Nat /\ n > 0 /\ DOMAIN frames[t] = 1..n
      /\ frames[t] \in Seq(Request) /\ frames[t][n] \in Request
  BY DEF Leave, TypeOK
<1>3. frames'[t] = SubSeq(frames[t], 1, n - 1)
  BY <1>1 DEF TypeOK
<1>4. /\ frames'[t] \in Seq(Request)
      /\ DOMAIN frames'[t] = 1..(n - 1)
      /\ \A i \in 1..(n - 1) : frames'[t][i] = frames[t][i]
  BY <1>2, <1>3
<1>5. TypeOK'
  <2>1. top \subseteq Keys
    BY <1>2 DEF Request
  <2>2. shed' \in [Tasks -> SUBSET Keys] /\ pc' \in [Tasks -> {"body", "resolve", "wait", "drop"}]
    BY <1>1, <2>1 DEF TypeOK
  <2>3. frames' \in [Tasks -> Seq(Request)]
    BY <1>1, <1>4 DEF TypeOK
  <2> QED
    BY <1>1, <2>2, <2>3 DEF TypeOK
<1>6. Registered' /\ \A u \in Tasks : Mine(u)'
  BY <1>1 DEF Registered, TaskInv, Mine
<1>7. Asking(t)' /\ Nested(t)'
  <2>1. shed'[t] = top /\ pc'[t] \in {"body", "drop"} /\ (pc'[t] # "drop" => top = {})
    BY <1>1 DEF TypeOK
  <2>2. got'[t] = got[t]
    BY <1>1
  <2>3. Nested(t)
    BY DEF TaskInv
  <2>4. ASSUME NEW i \in 1..(n - 1) PROVE i \in 1..n /\ n \in 1..n /\ i # n
    BY <1>2, <2>4
  <2>5. \A i \in 1..(n - 1) : frames[t][i].keys \cap top = {}
    BY <1>2, <2>3, <2>4 DEF Nested
  <2> HIDE DEF top, n
  <2>6. Nested(t)'
    BY <1>2, <1>4, <2>1, <2>2, <2>3, <2>4, <2>5 DEF Nested
  <2> QED
    BY <2>1, <2>6 DEF Asking
<1>8. ASSUME NEW u \in Tasks, u # t PROVE Asking(u)' /\ Nested(u)'
  BY <1>1, <1>8, OtherTask DEF TypeOK
<1> QED
  BY <1>5, <1>6, <1>7, <1>8 DEF TaskInv

LEMMA CancelStep ==
  ASSUME LockInv, NEW t \in Tasks, Cancel(t)
  PROVE  LockInv'
<1> DEFINE all == {k \in Keys : ref[t][k] # None}
<1> USE DEF LockInv
<1>1. /\ shed' = [shed EXCEPT ![t] = all]
      /\ pc' = [pc EXCEPT ![t] = IF all = {} THEN "body" ELSE "drop"]
      /\ frames' = [frames EXCEPT ![t] = <<>>]
      /\ asked' = [asked EXCEPT ![t] = NoRequest]
      /\ want' = [want EXCEPT ![t] = {}]
      /\ UNCHANGED <<got, ref, entry, owner>>
  BY DEF Cancel, Shed, Goto
<1>2. TypeOK'
  <2>1. NoRequest \in Request
    BY DEF NoRequest, Request, Kinds
  <2> QED
    BY <1>1, <2>1 DEF TypeOK
<1>3. Registered' /\ \A u \in Tasks : Mine(u)'
  BY <1>1 DEF Registered, TaskInv, Mine
<1>4. Asking(t)' /\ Nested(t)'
  <2>1. /\ frames'[t] = <<>> /\ DOMAIN frames'[t] = {}
        /\ pc'[t] \in {"body", "drop"} /\ shed'[t] = all /\ (pc'[t] # "drop" => all = {})
    BY <1>1 DEF TypeOK
  <2> QED
    BY <2>1 DEF Asking, Nested
<1>5. ASSUME NEW u \in Tasks, u # t PROVE Asking(u)' /\ Nested(u)'
  BY <1>1, <1>5, OtherTask DEF TypeOK
<1> QED
  BY <1>2, <1>3, <1>4, <1>5 DEF TaskInv

LEMMA DropStep ==
  ASSUME LockInv, NEW t \in Tasks, DropGuard(t)
  PROVE  LockInv'
<1> USE DEF LockInv
<1>1. PICK k \in shed[t] :
        /\ owner' = [owner EXCEPT ![k][ref[t][k]] = IF @ = t THEN None ELSE @]
        /\ ref' = [ref EXCEPT ![t][k] = None]
        /\ got' = [got EXCEPT ![t] = @ \ {k}]
        /\ shed' = [shed EXCEPT ![t] = shed[t] \ {k}]
        /\ pc' = [pc EXCEPT ![t] = IF shed[t] \ {k} = {} THEN "body" ELSE "drop"]
        /\ UNCHANGED <<frames, asked, want, entry>>
  BY DEF DropGuard, Shed, Goto
<1>2. k \in Keys
  BY DEF TypeOK
<1>3. TypeOK'
  <2>1. owner' \in [Keys -> [Mutexes -> Tasks \union {None}]]
    BY <1>1, <1>2 DEF TypeOK
  <2>2. ref' \in [Tasks -> [Keys -> Mutexes \union {None}]]
    BY <1>1, <1>2 DEF TypeOK
  <2> QED
    BY <1>1, <2>1, <2>2 DEF TypeOK
<1>4. Registered'
  BY <1>1, <1>2 DEF Registered, TypeOK
<1>5. ASSUME NEW u \in Tasks PROVE Mine(u)'
  <2> SUFFICES ASSUME NEW j \in got'[u]
               PROVE  ref'[u][j] # None /\ owner'[j][ref'[u][j]] = u
    BY DEF Mine
  <2>1. j \in got[u] /\ j \in Keys /\ ~ (u = t /\ j = k)
    BY <1>1 DEF TypeOK
  <2>2. ref[u][j] \in Mutexes /\ ref[u][j] # None /\ owner[j][ref[u][j]] = u
    BY <2>1 DEF TypeOK, TaskInv, Mine
  <2>3. ref'[u][j] = ref[u][j]
    BY <1>1, <1>2, <2>1 DEF TypeOK
  <2>4. owner'[j][ref[u][j]] = u
    BY <1>1, <1>2, <2>1, <2>2 DEF TypeOK
  <2> QED
    BY <2>2, <2>3, <2>4
<1>6. Asking(t)' /\ Nested(t)'
  <2>1. /\ got'[t] = got[t] \ {k} /\ shed'[t] = shed[t] \ {k} /\ frames'[t] = frames[t]
        /\ pc'[t] \in {"body", "drop"} /\ (pc'[t] # "drop" => shed[t] \ {k} = {})
    BY <1>1 DEF TypeOK
  <2> QED
    BY <2>1 DEF TaskInv, Asking, Nested
<1>7. ASSUME NEW u \in Tasks, u # t PROVE Asking(u)' /\ Nested(u)'
  BY <1>1, <1>7, OtherTask DEF TypeOK
<1> QED
  BY <1>3, <1>4, <1>5, <1>6, <1>7 DEF TaskInv

LEMMA LockNext == LockInv /\ [Next]_vars => LockInv'
<1> SUFFICES ASSUME LockInv, [Next]_vars PROVE LockInv'
  OBVIOUS
<1>1. CASE UNCHANGED vars
  BY <1>1 DEF vars, LockInv, TypeOK, Registered, TaskInv, Mine, Asking, Nested, NextKey
<1>2. ASSUME NEW t \in Tasks, AskLock(t) \/ AskHold(t) PROVE LockInv'
  BY <1>2, AskStep DEF AskLock, AskHold, Kinds
<1>3. ASSUME NEW t \in Tasks,
             Resolve(t) \/ Acquire(t) \/ Leave(t) \/ Cancel(t) \/ DropGuard(t)
      PROVE  LockInv'
  BY <1>3, ResolveStep, AcquireStep, LeaveStep, CancelStep, DropStep
<1> QED
  BY <1>1, <1>2, <1>3 DEF Next

LEMMA LockInvariant == Spec => []LockInv
  BY LockInit, LockNext, PTL DEF Spec

\* Two tasks are never inside the lock of one dataset: whoever asks for a key in
\* use is handed the mutex in use, pruning or not (DatasetLocks::lock_arc).
THEOREM LocksExclude == Spec => []OneTaskInside
<1>1. ASSUME LockInv PROVE OneTaskInside
  <2> SUFFICES ASSUME NEW t \in Tasks, NEW u \in Tasks, NEW k \in got[t] \cap got[u]
               PROVE  t = u
    BY DEF OneTaskInside
  <2>1. k \in Keys
    BY <1>1 DEF LockInv, TypeOK
  <2>2. ref[t][k] = entry[k] /\ ref[u][k] = entry[k]
    BY <1>1, <2>1 DEF LockInv, TaskInv, Mine, Registered
  <2> QED
    BY <1>1, <2>2 DEF LockInv, TaskInv, Mine
<1> QED
  BY <1>1, LockInvariant, PTL

\* Nested requests never take a lock away from the hold they are inside of
\* (DatasetLocks::hold and the task-local HELD set).
THEOREM HoldsKeepTheirKeys == Spec => []HoldKeeps
<1>1. LockInv => HoldKeeps
  BY DEF LockInv, TaskInv, Nested, HoldKeeps
<1> QED
  BY <1>1, LockInvariant, PTL

LEMMA GrowthStep ==
  ASSUME LockInv, NEW t \in Tasks, Resolve(t), ~ Live(NextKey(t))
  PROVE  BoundedGrowth
<1>0. PICK k \in Keys : k = NextKey(t)
  BY NextKeyWanted DEF LockInv, TaskInv, Asking, Resolve
<1>1. PICK m \in Mutexes : m = NewMutex(k) /\ m # None
  BY <1>0, NewMutexType, LockAssumption DEF LockInv
<1>2. /\ ref' = [ref EXCEPT ![t][k] = m]
      /\ entry' = [j \in Keys |-> IF j = k THEN m ELSE IF j \in Kept THEN entry[j] ELSE None]
  BY <1>0, <1>1 DEF Resolve
<1>3. IsFiniteSet(Present) /\ Cardinality(Present) \in Nat
  BY LockAssumption, FS_Subset, FS_CardinalityType DEF Present
<1>4. Present' = Kept \union {k}
  <2>1. Kept \subseteq Present
    BY DEF Kept
  <2> QED
    BY <1>1, <1>2, <2>1 DEF Present
<1>5. CASE Cardinality(Present) < PruneThreshold
  <2>1. Present' = Present \union {k}
    BY <1>3, <1>4, <1>5, LockAssumption DEF Kept
  <2>2. Cardinality(Present \union {k}) \in {Cardinality(Present), Cardinality(Present) + 1}
    BY <1>3, FS_AddElement
  <2>3. Cardinality(Present') <= PruneThreshold
    BY <1>3, <1>5, <2>1, <2>2, LockAssumption
  <2> QED
    BY <2>3 DEF BoundedGrowth
<1>6. CASE ~ (Cardinality(Present) < PruneThreshold)
  <2>1. \A j \in Kept : Live(j)
    BY <1>3, <1>6, LockAssumption DEF Kept
  <2>2. ASSUME NEW j \in Kept, j # k PROVE Live(j)'
    <3>1. j \in Keys /\ entry'[j] = entry[j]
      BY <1>2, <2>2 DEF Kept, Present
    <3>2. \A u \in Tasks : ref'[u][j] = ref[u][j]
      BY <1>1, <1>2, <2>2, <3>1 DEF LockInv, TypeOK
    <3> QED
      BY <2>1, <3>1, <3>2 DEF Live
  <2>3. Live(k)'
    <3>1. entry'[k] = m /\ ref'[t][k] = m
      BY <1>1, <1>2 DEF LockInv, TypeOK
    <3> QED
      BY <1>1, <3>1 DEF Live
  <2> QED
    BY <1>4, <2>2, <2>3 DEF BoundedGrowth
<1> QED
  BY <1>5, <1>6

\* The registry grows past PRUNE_THRESHOLD only while every one of its mutexes is
\* in use, so it does not keep one per dataset it was ever asked about.
THEOREM RegistryStaysSmall == Spec => RegistryBounded
<1>1. ASSUME LockInv, [Next]_vars PROVE [BoundedGrowth]_vars
  <2>1. CASE UNCHANGED entry
    <3>1. Cardinality(Present) \in Nat
      BY LockAssumption, FS_Subset, FS_CardinalityType DEF Present
    <3>2. Present' = Present
      BY <2>1 DEF Present
    <3>3. ~ (Cardinality(Present') > Cardinality(Present))
      BY <3>1, <3>2
    <3> QED
      BY <3>3 DEF BoundedGrowth
  <2>2. ASSUME NEW t \in Tasks, Resolve(t), ~ Live(NextKey(t)) PROVE BoundedGrowth
    BY <1>1, <2>2, GrowthStep
  <2>3. ASSUME NEW t \in Tasks, Next, ~ UNCHANGED entry
        PROVE  \E u \in Tasks : Resolve(u) /\ ~ Live(NextKey(u))
    BY <2>3, Zenon DEF Next, AskLock, AskHold, Ask, Resolve, Acquire, Leave, Cancel, DropGuard
  <2> QED
    BY <1>1, <2>1, <2>2, <2>3 DEF Next, vars
<1> QED
  BY <1>1, LockInvariant, PTL DEF Spec, RegistryBounded
=============================================================================
