------------------------------ MODULE ShardLog ------------------------------
(***************************************************************************)
(* What a persist shard promises to its users, without versions, caches,   *)
(* retries or tokens: a log of batches that grows by compare_and_append at *)
(* its upper, a since that only advances, and true answers.  An append     *)
(* takes effect at one instant between its call and its answer; an append  *)
(* whose caller never learns the answer takes effect at most once, at any  *)
(* later time.                                                             *)
(***************************************************************************)
EXTENDS Integers, Sequences

CONSTANTS Calls,      \* the identities of append calls
          Frontiers,  \* the times, and the empty antichain
          Batches     \* what can be appended: [token, lower, upper, ...]

VARIABLES log, since, outcome

vars == <<log, since, outcome>>

Upper == IF log = <<>> THEN 0 ELSE log[Len(log)].upper
InLog(t) == \E i \in DOMAIN log : log[i].token = t

Init ==
    /\ log = <<>>
    /\ since = 0
    /\ outcome = [t \in Calls |-> "none"]

Invoke(t) ==
    /\ outcome[t] = "none"
    /\ outcome' = [outcome EXCEPT ![t] = "pending"]
    /\ UNCHANGED <<log, since>>

TakesEffect(b) ==
    /\ outcome[b.token] \in {"pending", "unknown"}
    /\ ~InLog(b.token)
    /\ b.lower = Upper
    /\ b.lower <= b.upper
    /\ log' = Append(log, b)
    /\ UNCHANGED <<since, outcome>>

Accept(t) ==
    /\ outcome[t] = "pending"
    /\ InLog(t)
    /\ outcome' = [outcome EXCEPT ![t] = "Success"]
    /\ UNCHANGED <<log, since>>

Reject(t) ==
    /\ outcome[t] = "pending"
    /\ ~InLog(t)
    /\ \E why \in {"UpperMismatch", "InvalidUsage", "InlineBackpressure"} :
         outcome' = [outcome EXCEPT ![t] = why]
    /\ UNCHANGED <<log, since>>

NoAnswer(t) ==
    /\ outcome[t] = "pending"
    /\ outcome' = [outcome EXCEPT ![t] = "unknown"]
    /\ UNCHANGED <<log, since>>

Compact ==
    /\ \E s \in Frontiers : since < s /\ since' = s
    /\ UNCHANGED <<log, outcome>>

Next ==
    \/ \E t \in Calls : Invoke(t) \/ Accept(t) \/ Reject(t) \/ NoAnswer(t)
    \/ \E b \in Batches : TakesEffect(b)
    \/ Compact

Spec == Init /\ [][Next]_vars
=============================================================================
