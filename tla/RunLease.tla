------------------------------ MODULE RunLease ------------------------------
(***************************************************************************)
(* What the exclusive-run claim on one pair of a dataset and a pipeline    *)
(* promises: a lease.  It is granted only while nobody holds it, and it    *)
(* ends only when its holder has stopped running or has had it for         *)
(* StaleAfter.                                                             *)
(***************************************************************************)
EXTENDS Naturals

CONSTANTS Calls, None, StaleAfter

VARIABLES
  holder,   \* the call that holds the lease, or None
  running,  \* the calls that do what the lease is for
  age       \* age[c]: how long ago the call was granted the lease

leaseVars == <<holder, running, age>>

Init ==
  /\ holder = None
  /\ running = {}
  /\ age = [c \in Calls |-> 0]

Grant(c) ==
  /\ holder = None
  /\ c \notin running
  /\ holder' = c
  /\ running' = running \union {c}
  /\ age' = [age EXCEPT ![c] = 0]

Stop(c) ==
  /\ c \in running
  /\ running' = running \ {c}
  /\ UNCHANGED <<holder, age>>

End ==
  /\ holder # None
  /\ holder \notin running \/ age[holder] >= StaleAfter
  /\ holder' = None
  /\ UNCHANGED <<running, age>>

\* Time passes; past StaleAfter nobody reads the clock any more.
Pass ==
  /\ age' = [c \in Calls |->
       IF c \in running \union {holder} /\ age[c] < StaleAfter THEN age[c] + 1 ELSE age[c]]
  /\ UNCHANGED <<holder, running>>

Next == (\E c \in Calls : Grant(c) \/ Stop(c)) \/ End \/ Pass

Spec == Init /\ [][Next]_leaseVars
=============================================================================
