--------------------------- MODULE RunClaimProofs ---------------------------
(***************************************************************************)
(* Proofs about RunClaim for any number of calls and any staleness window: *)
(* runs exclude each other while their claims are fresh, and the claim     *)
(* protocol implements the lease of RunLease.                              *)
(***************************************************************************)
EXTENDS RunClaim, TLAPS

\* Only a call that got past its insert has its id in the table.
RowWritten == claim # None => pc[claim] \in Written

\* What a call means to take over was written, is stale and stays so.
SeenStale ==
  \A c \in Calls : pc[c] = "steal" =>
    /\ seen[c] # None
    /\ pc[seen[c]] \in Written
    /\ age[seen[c]] >= StaleAfter

\* The holder an operator means to release stays dead.
SeenDead == opSeen # None => pc[opSeen] = "dead"

\* A run holds the claim until it is stale.
RunHolds == \A c \in Calls : pc[c] = "run" => claim = c \/ age[c] >= StaleAfter

ClaimInv == TypeOK /\ RowWritten /\ SeenStale /\ SeenDead /\ RunHolds

LEMMA InitClaim == Init => ClaimInv
  BY ClaimAssumption DEF Init, ClaimInv, TypeOK, RowWritten, SeenStale, SeenDead, RunHolds,
     Outside, Asking, Written

LEMMA NextClaim == ClaimInv /\ [Next]_vars => ClaimInv'
<1> SUFFICES ASSUME ClaimInv, [Next]_vars PROVE ClaimInv'
  OBVIOUS
<1> USE ClaimAssumption DEF ClaimInv, TypeOK
<1> USE DEF Asking, Outside, Written
<1>1. ASSUME NEW c \in Calls, Begin(c) PROVE ClaimInv'
  BY <1>1 DEF Begin, Goto, RowWritten, SeenStale, SeenDead, RunHolds
<1>2. ASSUME NEW c \in Calls, InsertClaim(c) PROVE ClaimInv'
  <2>1. TypeOK'
    BY <1>2 DEF InsertClaim, Goto
  <2>2. RowWritten' /\ SeenDead' /\ RunHolds'
    BY <1>2 DEF InsertClaim, Goto, RowWritten, SeenDead, RunHolds
  <2>3. SeenStale'
    BY <1>2 DEF InsertClaim, Goto, SeenStale
  <2> QED
    BY <2>1, <2>2, <2>3
<1>3. ASSUME NEW c \in Calls, ReadHolder(c) PROVE ClaimInv'
  <2>1. TypeOK'
    BY <1>3 DEF ReadHolder, Goto
  <2>2. RowWritten' /\ SeenDead' /\ RunHolds'
    BY <1>3 DEF ReadHolder, Goto, RowWritten, SeenDead, RunHolds
  <2>3. SeenStale'
    BY <1>3 DEF ReadHolder, Goto, SeenStale, RowWritten
  <2> QED
    BY <2>1, <2>2, <2>3
<1>4. ASSUME NEW c \in Calls, DeleteStale(c) PROVE ClaimInv'
  <2>1. TypeOK'
    BY <1>4 DEF DeleteStale, Goto
  <2>2. RowWritten' /\ SeenStale' /\ SeenDead'
    BY <1>4 DEF DeleteStale, Goto, RowWritten, SeenStale, SeenDead
  <2>3. RunHolds'
    BY <1>4 DEF DeleteStale, Goto, RunHolds, SeenStale
  <2> QED
    BY <2>1, <2>2, <2>3
<1>5. ASSUME NEW c \in Calls, Finish(c) \/ Release(c) \/ Abandon(c) PROVE ClaimInv'
  <2>1. TypeOK'
    BY <1>5 DEF Finish, Release, Abandon, Goto
  <2>2. RowWritten' /\ SeenStale' /\ SeenDead' /\ RunHolds'
    BY <1>5 DEF Finish, Release, Abandon, Goto, RowWritten, SeenStale, SeenDead, RunHolds
  <2> QED
    BY <2>1, <2>2
<1>6. CASE OperatorRead
  BY <1>6 DEF OperatorRead, RowWritten, SeenStale, SeenDead, RunHolds
<1>7. CASE OperatorRelease
  BY <1>7 DEF OperatorRelease, RowWritten, SeenStale, SeenDead, RunHolds
<1>8. CASE ReleaseAll
  BY <1>8 DEF ReleaseAll, RowWritten, SeenStale, SeenDead, RunHolds
<1>9. CASE Tick
  <2>1. age' \in [Calls -> 0..StaleAfter] /\ \A c \in Calls : age'[c] >= age[c]
    BY <1>9 DEF Tick, Ages
  <2> QED
    BY <1>9, <2>1 DEF Tick, RowWritten, SeenStale, SeenDead, RunHolds
<1>10. CASE UNCHANGED vars
  BY <1>10 DEF vars, RowWritten, SeenStale, SeenDead, RunHolds
<1> QED
  BY <1>1, <1>2, <1>3, <1>4, <1>5, <1>6, <1>7, <1>8, <1>9, <1>10 DEF Next, Statement

LEMMA ClaimInvariant == Spec => []ClaimInv
  BY InitClaim, NextClaim, PTL DEF Spec

\* Two runs of one pair overlap only when one of them has outlived
\* CLAIM_STALE_AFTER: try_claim_pipeline_run, the two scoped releases and the
\* startup release keep every fresh claim in place while its run lasts.
THEOREM FreshRunsExclude == Spec => []Exclusive
<1>1. ClaimInv => Exclusive
  BY DEF ClaimInv, RunHolds, Exclusive
<1> QED
  BY <1>1, ClaimInvariant, PTL

-----------------------------------------------------------------------------
LEMMA LeaseInit == Init => Lease!Init
  BY DEF Init, Lease!Init

LEMMA LeaseStep == ClaimInv /\ [Next]_vars => [Lease!Next]_(Lease!leaseVars)
<1> SUFFICES ASSUME ClaimInv, [Next]_vars PROVE [Lease!Next]_(Lease!leaseVars)
  OBVIOUS
<1> DEFINE running == {c \in Calls : pc[c] = "run"}
<1> USE ClaimAssumption DEF ClaimInv, TypeOK
<1>1. ASSUME NEW c \in Calls, Begin(c) \/ ReadHolder(c)
      PROVE  UNCHANGED <<claim, running, age>>
  BY <1>1 DEF Begin, ReadHolder, Goto
<1>2. ASSUME NEW c \in Calls, InsertClaim(c)
      PROVE  Lease!Grant(c) \/ UNCHANGED <<claim, running, age>>
  <2>1. c \notin running
    BY <1>2 DEF InsertClaim
  <2>2. CASE claim = None
    <3>1. running' = running \union {c}
      BY <1>2, <2>2 DEF InsertClaim, Goto
    <3> QED
      BY <1>2, <2>1, <2>2, <3>1 DEF InsertClaim, Lease!Grant
  <2>3. CASE claim # None
    BY <1>2, <2>3 DEF InsertClaim, Goto
  <2> QED
    BY <2>2, <2>3
<1>3. ASSUME NEW c \in Calls, DeleteStale(c)
      PROVE  Lease!End \/ UNCHANGED <<claim, running, age>>
  <2>1. running' = running
    BY <1>3 DEF DeleteStale, Goto
  <2> QED
    BY <1>3, <2>1 DEF DeleteStale, SeenStale, Lease!End
<1>4. ASSUME NEW c \in Calls, Finish(c) \/ Abandon(c)
      PROVE  Lease!Stop(c) \/ UNCHANGED <<claim, running, age>>
  <2>1. CASE pc[c] = "run"
    <3>1. running' = running \ {c} /\ c \in running
      BY <1>4, <2>1 DEF Finish, Abandon, Goto
    <3> QED
      BY <1>4, <3>1 DEF Finish, Abandon, Lease!Stop
  <2>2. CASE pc[c] # "run"
    BY <1>4, <2>2 DEF Finish, Abandon, Goto
  <2> QED
    BY <2>1, <2>2
<1>5. ASSUME NEW c \in Calls, Release(c)
      PROVE  Lease!End \/ UNCHANGED <<claim, running, age>>
  <2>1. running' = running /\ c \notin running
    BY <1>5 DEF Release, Goto
  <2> QED
    BY <1>5, <2>1 DEF Release, Lease!End
<1>6. CASE OperatorRead
  BY <1>6 DEF OperatorRead, Lease!leaseVars
<1>7. CASE OperatorRelease
  BY <1>7 DEF OperatorRelease, SeenDead, Lease!Next, Lease!End, Lease!leaseVars
<1>8. CASE ReleaseAll
  BY <1>8 DEF ReleaseAll, Outside, Lease!Next, Lease!End
<1>9. CASE Tick
  <2>1. age' = [c \in Calls |->
          IF c \in running \union {claim} /\ age[c] < StaleAfter THEN age[c] + 1 ELSE age[c]]
    BY <1>9 DEF Tick, Ages
  <2> QED
    BY <1>9, <2>1 DEF Tick, Lease!Next, Lease!Pass
<1>10. CASE UNCHANGED vars
  BY <1>10 DEF vars, Lease!leaseVars
<1> QED
  BY <1>1, <1>2, <1>3, <1>4, <1>5, <1>6, <1>7, <1>8, <1>9, <1>10
  DEF Next, Statement, Lease!Next, Lease!leaseVars

\* The SQL statements of the claim, interleaved in any way and cut off anywhere,
\* implement the lease: granted only while free, ended only when its holder has
\* stopped or has had it for CLAIM_STALE_AFTER.
THEOREM ClaimIsLease == Spec => ImplementsLease
  BY LeaseInit, LeaseStep, ClaimInvariant, PTL DEF Spec, ImplementsLease, Lease!Spec
=============================================================================
