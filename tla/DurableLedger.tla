--------------------------- MODULE DurableLedger ---------------------------
(***************************************************************************)
(* What the shared file erl-ledger.json promises, whoever writes it: a set *)
(* of immutable entries that only grows, closed under "parent of", and a   *)
(* set of branches that, once they have a tip, keep having one.  A commit  *)
(* makes any number of entries durable at once.                            *)
(***************************************************************************)
CONSTANTS Id, Branch, NULL

VARIABLES entries,   \* the durable entries
          parent,    \* the parent an entry was created with
          tips       \* the tip of each branch, outside Id when it has none

vars == <<entries, parent, tips>>

(* No entry refers to an entry that is not durable. *)
Closed ==
    /\ \A i \in entries : parent[i] \in entries \cup {NULL}
    /\ \A b \in Branch : tips[b] \in Id => tips[b] \in entries

Init ==
    /\ entries = {}
    /\ parent \in [Id -> {NULL}]
    /\ \A b \in Branch : tips[b] \notin Id

(* Durable entries and the parents they were hashed with never change.     *)
Immutable ==
    /\ entries \subseteq entries'
    /\ \A i \in entries : parent'[i] = parent[i]

(* A branch that has a tip keeps one: it may move, it does not disappear.  *)
BranchesKept == \A b \in Branch : tips[b] \in Id => tips'[b] \in Id

Commit ==
    /\ Immutable
    /\ BranchesKept
    /\ Closed'

Spec == Init /\ [][Commit]_vars
=============================================================================
