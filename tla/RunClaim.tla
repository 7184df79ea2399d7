------------------------------ MODULE RunClaim ------------------------------
(***************************************************************************)
(* The exclusive-run claim of one pair of a dataset and a pipeline, one    *)
(* step per SQL statement: how calls of several processes take the row,    *)
(* take over a stale one and release it, what an operator may release and  *)
(* what startup drops.  It implements RunLease.                            *)
(*                                                                         *)
(* A call stands for one claim id.  A refused call may ask again: an id    *)
(* that never reached the table is as good as a new one.                   *)
(***************************************************************************)
EXTENDS Naturals

CONSTANTS
  Calls,          \* calls of cognify() or memify() on the pair
  None,
  StaleAfter,     \* CLAIM_STALE_AFTER, in ticks of the clock
  SingleProcess   \* whether one process owns the database

ASSUME ClaimAssumption ==
  /\ None \notin Calls
  /\ StaleAfter \in Nat \ {0}
  /\ SingleProcess \in BOOLEAN

VARIABLES
  pc,      \* pc[c]: the statement a call is about to execute
  claim,   \* the claim id in the row of the pair, None without a row
  age,     \* age[c]: time since the call wrote the row, up to StaleAfter
  seen,    \* seen[c]: the stale claim the call means to take over
  opSeen   \* the claim an operator has read and means to release

vars == <<pc, claim, age, seen, opSeen>>

Asking == {"insert", "read", "steal", "retry"}
Outside == {"idle", "refused", "done", "dead"}
Written == {"run", "release", "done", "dead"}

Goto(c, s) == pc' = [pc EXCEPT ![c] = s]

-----------------------------------------------------------------------------
Begin(c) ==
  /\ pc[c] \in {"idle", "refused"}
  /\ Goto(c, "insert")
  /\ UNCHANGED <<claim, age, seen, opSeen>>

\* INSERT ... ON CONFLICT DO NOTHING: the row is written when there is none.
\* The first attempt that loses goes on to look at the holder, a later one
\* gives up.
InsertClaim(c) ==
  /\ pc[c] \in {"insert", "retry"}
  /\ \/ /\ claim = None
        /\ claim' = c
        /\ age' = [age EXCEPT ![c] = 0]
        /\ Goto(c, "run")
     \/ /\ claim # None
        /\ Goto(c, IF pc[c] = "insert" THEN "read" ELSE "refused")
        /\ UNCHANGED <<claim, age>>
  /\ UNCHANGED <<seen, opSeen>>

\* Mutant: whoever holds the claim is left alone, however old it is.
ReadHolderOnly(c) ==
  /\ pc[c] = "read"
  /\ Goto(c, IF claim = None THEN "retry" ELSE "refused")
  /\ UNCHANGED <<claim, age, seen, opSeen>>

\* The row may be gone by now; a claim younger than StaleAfter refuses the call.
ReadHolder(c) ==
  /\ pc[c] = "read"
  /\ \/ /\ claim = None
        /\ Goto(c, "retry")
        /\ UNCHANGED seen
     \/ /\ claim # None
        /\ age[claim] < StaleAfter
        /\ Goto(c, "refused")
        /\ UNCHANGED seen
     \/ /\ claim # None
        /\ age[claim] >= StaleAfter
        /\ seen' = [seen EXCEPT ![c] = claim]
        /\ Goto(c, "steal")
  /\ UNCHANGED <<claim, age, opSeen>>

\* Mutant: the delete names the pair only.
DeletePair(c) ==
  /\ pc[c] = "steal"
  /\ claim' = None
  /\ Goto(c, "retry")
  /\ UNCHANGED <<age, seen, opSeen>>

\* The delete names the claim that was read, so a claim taken since stays.
DeleteStale(c) ==
  /\ pc[c] = "steal"
  /\ \/ claim = seen[c] /\ claim' = None /\ Goto(c, "retry")
     \/ claim # seen[c] /\ Goto(c, "refused") /\ UNCHANGED claim
  /\ UNCHANGED <<age, seen, opSeen>>

\* Everything past the claim, whatever its outcome.
Finish(c) ==
  /\ pc[c] = "run"
  /\ Goto(c, "release")
  /\ UNCHANGED <<claim, age, seen, opSeen>>

\* Mutant: the release names the pair only.
ReleasePair(c) ==
  /\ pc[c] = "release"
  /\ claim' = None
  /\ Goto(c, "done")
  /\ UNCHANGED <<age, seen, opSeen>>

Release(c) ==
  /\ pc[c] = "release"
  /\ claim' = IF claim = c THEN None ELSE claim
  /\ Goto(c, "done")
  /\ UNCHANGED <<age, seen, opSeen>>

\* The process or the future of the call dies, or a statement fails, before or
\* after it took effect: nothing more comes of the call, and its claim stays.
Abandon(c) ==
  /\ pc[c] \in Asking \union {"run", "release"}
  /\ Goto(c, "dead")
  /\ UNCHANGED <<claim, age, seen, opSeen>>

-----------------------------------------------------------------------------
\* pipeline-unblock --clear reads the claim, for an operator who has made sure
\* that its holder is gone; one past the window is left to the next run.
OperatorRead ==
  /\ opSeen = None
  /\ claim # None
  /\ pc[claim] = "dead"
  /\ age[claim] < StaleAfter
  /\ opSeen' = claim
  /\ UNCHANGED <<pc, claim, age, seen>>

OperatorRelease ==
  /\ opSeen # None
  /\ claim' = IF claim = opSeen THEN None ELSE claim
  /\ opSeen' = None
  /\ UNCHANGED <<pc, age, seen>>

\* The startup of the one process that owns the database, before its first run.
ReleaseAll ==
  /\ SingleProcess
  /\ claim # None
  /\ \A c \in Calls : pc[c] \in Outside
  /\ claim' = None
  /\ UNCHANGED <<pc, age, seen, opSeen>>

Ages(c) == (pc[c] = "run" \/ claim = c) /\ age[c] < StaleAfter

Tick ==
  /\ age' = [c \in Calls |-> IF Ages(c) THEN age[c] + 1 ELSE age[c]]
  /\ UNCHANGED <<pc, claim, seen, opSeen>>

-----------------------------------------------------------------------------
Init ==
  /\ pc = [c \in Calls |-> "idle"]
  /\ claim = None
  /\ age = [c \in Calls |-> 0]
  /\ seen = [c \in Calls |-> None]
  /\ opSeen = None

Statement(c) == InsertClaim(c) \/ ReadHolder(c) \/ DeleteStale(c) \/ Release(c)

Next ==
  \/ \E c \in Calls : Begin(c) \/ Statement(c) \/ Finish(c) \/ Abandon(c)
  \/ OperatorRead \/ OperatorRelease \/ ReleaseAll
  \/ Tick

Spec == Init /\ [][Next]_vars

\* A call that is being polled executes its next statement, and time passes.
\* Nothing obliges a run to end, a caller to ask again or an operator to come.
FairSpec ==
  /\ Spec
  /\ \A c \in Calls : WF_vars(Statement(c))
  /\ WF_vars(Tick)

-----------------------------------------------------------------------------
(* Properties. *)

\* Steps, claims read and ages keep their types.
TypeOK ==
  /\ pc \in [Calls -> Asking \union Outside \union Written]
  /\ claim \in Calls \union {None}
  /\ age \in [Calls -> 0..StaleAfter]
  /\ seen \in [Calls -> Calls \union {None}]
  /\ opSeen \in Calls \union {None}

\* Two runs of a pair are under way at once only if one of them has been running
\* for CLAIM_STALE_AFTER, whatever take-overs, releases of an operator, failures
\* and deaths came between.
Exclusive ==
  \A c, d \in Calls :
    c # d /\ pc[c] = "run" /\ pc[d] = "run" => age[c] >= StaleAfter \/ age[d] >= StaleAfter

\* The claim protocol implements the lease.
Lease == INSTANCE RunLease WITH holder <- claim, running <- {c \in Calls : pc[c] = "run"}
ImplementsLease == Lease!Spec

\* No caller is refused for ever: one that asks again and again gets to run, even
\* when every holder before it died without releasing its claim.
NotRefusedForever ==
  \A c \in Calls : []<>(pc[c] = "insert") => <>(pc[c] = "run")
=============================================================================
