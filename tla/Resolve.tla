------------------------------ MODULE Resolve ------------------------------
(***************************************************************************)
(* What crates/session asks of a Resolver (its type, and ReadThrough's     *)
(* resolve): a call on a set of keys ends once; it may fail, and if it     *)
(* does not, every key it was given is in the shared cache, which only     *)
(* ever grows.  Worker's ResolveKey and ResolveEnd are Land and End.       *)
(***************************************************************************)
EXTENDS FiniteSets

CONSTANTS Threads, Keys

VARIABLES
  cached,     \* keys in the shared cache
  resolving,  \* the keys a thread is resolving, {} when it is not
  result      \* how its last call ended

Init ==
  /\ cached = {}
  /\ resolving = [t \in Threads |-> {}]
  /\ result = [t \in Threads |-> "none"]

Begin(t, keys) ==
  /\ resolving[t] = {} /\ keys # {}
  /\ resolving' = [resolving EXCEPT ![t] = keys]
  /\ result' = [result EXCEPT ![t] = "none"]
  /\ UNCHANGED cached

Land(k) ==
  /\ cached' = cached \cup {k}
  /\ UNCHANGED <<resolving, result>>

End(t, outcome) ==
  /\ resolving[t] # {}
  /\ outcome = "ok" => resolving[t] \subseteq cached
  /\ resolving' = [resolving EXCEPT ![t] = {}]
  /\ result' = [result EXCEPT ![t] = outcome]
  /\ UNCHANGED cached

Next ==
  \/ \E t \in Threads, keys \in SUBSET Keys : Begin(t, keys)
  \/ \E k \in Keys : Land(k)
  \/ \E t \in Threads, outcome \in {"ok", "err"} : End(t, outcome)

Spec == Init /\ [][Next]_<<cached, resolving, result>>
=============================================================================
