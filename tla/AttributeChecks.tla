---------------------------- MODULE AttributeChecks ----------------------------
(***************************************************************************)
(* The bookkeeping by which ppxlib notices attributes nobody interpreted   *)
(* (attribute.ml) and the place it has in the rewriting of one file        *)
(* (map_structure_gen / map_signature_gen of driver.ml).                   *)
(*                                                                         *)
(* The attributes of the file are collected in the table not_seen; the     *)
(* rewriters of the passes read, consume, drop, copy and generate          *)
(* attributes; then check_unused walks over what is left and               *)
(* check_all_seen looks at what is still in the table.                     *)
(***************************************************************************)
EXTENDS Integers, FiniteSets

CONSTANTS
  Key,            \* attr_name: name and location, compared structurally
  Whitelisted,    \* keys Name.Whitelisted.is_whitelisted accepts
  Ignored,        \* keys Name.ignore_checks accepts
  Absent,         \* the content of a node slot that is not in the tree
  PerformChecks,  \* the flag -check / enable_checks
  MaxOcc,         \* bound: attribute nodes alive at once
  MaxMarks,       \* bound: times a rewriter marks one key as seen, per file
  MaxFiles        \* bound: files rewritten by the process

ASSUME KeyAssumption ==
  /\ Whitelisted \subseteq Key
  /\ Ignored \subseteq Key
ASSUME BoundAssumption ==
  /\ MaxOcc \in Nat /\ MaxMarks \in Nat /\ MaxFiles \in Nat
  /\ PerformChecks \in BOOLEAN

VARIABLES
  phase,      \* where map_structure_gen is
  node,       \* the attributes of the current tree, by physical node
  notSeen,    \* Attribute.not_seen: bindings left per key
  visited,    \* nodes check_unused has been through
  culprit,    \* what the error that rejected the file names
  files,      \* files started
  collected,  \* history: attributes of the input, per key
  handled,    \* history: times a rewriter marked the key in this file
  op          \* history: the attribute explicitly_drop was last called on, or 0

vars == <<phase, node, notSeen, visited, culprit, files, collected, handled, op>>

(***************************************************************************)
(* An attribute sits in the payload of another one (its host, a smaller    *)
(* slot) or directly on a node of the tree (host Top).                     *)
(***************************************************************************)
Top == 0
Occ == 1..MaxOcc
Node == [key : Key, host : 0..MaxOcc]

NoCulprit == [kind |-> "none"]
Culprit == {NoCulprit} \cup [kind : {"pass"}]
           \cup [kind : {"unused", "dropped"}, key : Key]

NoOp == 0
Op == 0..MaxOcc

Present == {o \in Occ : node[o] # Absent}
WithKey(S, k) == {o \in S : node[o].key = k}
Copies(k) == Cardinality(WithKey(Present, k))
Monus(a, b) == IF b < a THEN a - b ELSE 0
PayloadOf(o) == {p \in Present : node[p].host = o}

\* the attributes whose payload o is in, from the inside out
Hosts[o \in Occ] ==
  IF node[o] = Absent \/ node[o].host \notin 1..(o - 1)
  THEN {} ELSE {node[o].host} \cup Hosts[node[o].host]
Subtree(o) == {p \in Present : p = o \/ o \in Hosts[p]}

TypeOK ==
  /\ phase \in {"idle", "rewriting", "checking", "accepted", "rejected"}
  /\ node \in [Occ -> Node \cup {Absent}]
  /\ notSeen \in [Key -> Nat]
  /\ visited \subseteq Occ
  /\ culprit \in Culprit
  /\ files \in 0..MaxFiles
  /\ collected \in [Key -> Nat]
  /\ handled \in [Key -> Nat]
  /\ op \in Op

--------------------------------------------------------------------------------
\* mutant: takes a binding away that is not there
RemoveAbsentBinding(table, k) == [table EXCEPT ![k] = @ - 1]

\* mutant: takes away every binding of the key
RemoveEqualBindings(table, k) == [table EXCEPT ![k] = 0]

\* Attribute_table.remove takes away one binding of the key, if there is one
RemoveBinding(table, k) ==
  [table EXCEPT ![k] = Monus(@, 1)]

\* the trees a file can be parsed into: n attributes, hosts before payloads
InputTrees ==
  {t \in [Occ -> Node \cup {Absent}] :
     \E n \in 0..MaxOcc :
       \A o \in Occ : IF o <= n THEN t[o] # Absent /\ t[o].host < o
                                ELSE t[o] = Absent}
KeyCount(t, k) == Cardinality({o \in Occ : t[o] # Absent /\ t[o].key = k})

Init ==
  /\ phase = "idle"
  /\ node = [o \in Occ |-> Absent]
  /\ notSeen = [k \in Key |-> 0]
  /\ visited = {}
  /\ culprit = NoCulprit
  /\ files = 0
  /\ collected = [k \in Key |-> 0]
  /\ handled = [k \in Key |-> 0]
  /\ op = NoOp

\* mutant: what the file before left in the table stays
TableNotReset == notSeen

TableAfterReset == [k \in Key |-> 0]

\* map_structure_gen on the next file: reset_checks, then collect, which adds
\* a binding for every attribute, the ones inside payloads included
Start ==
  /\ phase \in {"idle", "accepted", "rejected"}
  /\ files < MaxFiles
  /\ files' = files + 1
  /\ node' \in InputTrees
  /\ collected' = [k \in Key |-> KeyCount(node', k)]
  /\ notSeen' = IF PerformChecks
                THEN [k \in Key |-> TableAfterReset[k] + collected'[k]]
                ELSE notSeen
  /\ handled' = [k \in Key |-> 0]
  /\ visited' = {}
  /\ culprit' = NoCulprit
  /\ op' = NoOp
  /\ phase' = "rewriting"

--------------------------------------------------------------------------------
(***************************************************************************)
(* What the rewriters of the passes do to the tree and to the table.       *)
(***************************************************************************)
Rewriting(operation) ==
  /\ phase = "rewriting"
  /\ op' = operation
  /\ UNCHANGED <<phase, visited, culprit, files, collected>>

MarkAsSeen(k) ==
  /\ handled[k] < MaxMarks
  /\ handled' = [handled EXCEPT ![k] = @ + 1]
  /\ notSeen' = RemoveBinding(notSeen, k)

\* Attribute.get, Floating.convert and mark_as_handled_manually
Get(o) ==
  /\ Rewriting(NoOp)
  /\ o \in Present
  /\ MarkAsSeen(node[o].key)
  /\ UNCHANGED node

\* Attribute.consume: the attribute goes; what was read from its payload may
\* be spliced into the code the rewriter returns, with the attributes on it
Consume(o) ==
  /\ Rewriting(NoOp)
  /\ o \in Present
  /\ MarkAsSeen(node[o].key)
  /\ \E spliced \in SUBSET PayloadOf(o) :
       LET gone == Subtree(o) \ UNION {Subtree(p) : p \in spliced}
       IN  node' = [p \in Occ |->
                      IF p \in gone THEN Absent
                      ELSE IF p \in spliced THEN [node[p] EXCEPT !.host = node[o].host]
                      ELSE node[p]]

\* explicitly_drop given the code o is on: marks o, does not enter its payload
ExplicitlyDrop(o) ==
  /\ Rewriting(o)
  /\ o \in Present
  /\ MarkAsSeen(node[o].key)
  /\ UNCHANGED node

\* a rewriter leaves out code with an attribute on it and tells nobody
Drop(o) ==
  /\ Rewriting(NoOp)
  /\ o \in Present
  /\ node' = [p \in Occ |-> IF p \in Subtree(o) THEN Absent ELSE node[p]]
  /\ UNCHANGED <<notSeen, handled>>

\* remove_seen: matched attributes go unless they are still in the table
RemoveSeen(o) ==
  /\ Rewriting(NoOp)
  /\ o \in Present
  /\ notSeen[node[o].key] = 0
  /\ node' = [p \in Occ |-> IF p \in Subtree(o) THEN Absent ELSE node[p]]
  /\ UNCHANGED <<notSeen, handled>>

\* a rewriter generates an attribute, or code copied with the attribute on it
Generate(o, n) ==
  /\ Rewriting(NoOp)
  /\ o \notin Present
  /\ n.host < o /\ n.host \in {Top} \cup Present
  /\ node' = [node EXCEPT ![o] = n]
  /\ UNCHANGED <<notSeen, handled>>

\* a pass raises: apply_transforms gives up, no check is made
FailPass ==
  /\ phase = "rewriting"
  /\ phase' = "rejected"
  /\ culprit' = [kind |-> "pass"]
  /\ op' = NoOp
  /\ UNCHANGED <<node, notSeen, visited, files, collected, handled>>

EndPasses ==
  /\ phase = "rewriting"
  /\ phase' = IF PerformChecks THEN "checking" ELSE "accepted"
  /\ op' = NoOp
  /\ UNCHANGED <<node, notSeen, visited, culprit, files, collected, handled>>

--------------------------------------------------------------------------------
(***************************************************************************)
(* check_unused and check_all_seen                                         *)
(***************************************************************************)
Exempt == Whitelisted \cup Ignored

\* mutant: marks the attribute as seen before it looks it up
IsUnusedOnceMarked(k) == k \notin Exempt /\ notSeen[k] > 1

\* mutant: does not look the attribute up
IsUnusedUnlessExempt(k) == k \notin Exempt

IsUnused(k) == k \notin Exempt /\ notSeen[k] > 0

Reject(kind, k) ==
  /\ phase' = "rejected"
  /\ culprit' = [kind |-> kind, key |-> k]
  /\ UNCHANGED <<node, notSeen, visited, files, collected, handled, op>>

\* check_node and check_floating on one attribute, its payload walked first
CanVisit(o) ==
  /\ phase = "checking"
  /\ o \in Present \ visited
  /\ PayloadOf(o) \subseteq visited

CheckFails(o) ==
  /\ CanVisit(o)
  /\ IsUnused(node[o].key)
  /\ Reject("unused", node[o].key)

CheckPasses(o) ==
  /\ CanVisit(o)
  /\ ~IsUnused(node[o].key)
  /\ notSeen' = RemoveBinding(notSeen, node[o].key)
  /\ visited' = visited \cup {o}
  /\ UNCHANGED <<phase, node, culprit, files, collected, handled, op>>

\* Attribute_table.iter meets the bindings in no particular order
SilentlyDropped(k) ==
  /\ phase = "checking" /\ visited = Present
  /\ k \notin Ignored /\ notSeen[k] > 0
  /\ Reject("dropped", k)

CheckAllSeen ==
  /\ phase = "checking" /\ visited = Present
  /\ \A k \in Key \ Ignored : notSeen[k] = 0
  /\ phase' = "accepted"
  /\ UNCHANGED <<node, notSeen, visited, culprit, files, collected, handled, op>>

Rewrite ==
  \/ \E o \in Occ : \/ Get(o) \/ Consume(o) \/ ExplicitlyDrop(o)
                    \/ Drop(o) \/ RemoveSeen(o)
                    \/ \E n \in Node : Generate(o, n)
  \/ FailPass

Check ==
  \/ \E o \in Occ : CheckFails(o) \/ CheckPasses(o)
  \/ \E k \in Key : SilentlyDropped(k)
  \/ CheckAllSeen

Next == Start \/ Rewrite \/ EndPasses \/ Check

Spec == Init /\ [][Next]_vars

--------------------------------------------------------------------------------
(* Properties *)

\* A file whose checks pass lost nothing: every attribute of the input was
\* marked as seen by a rewriter, once per occurrence, or is still in the output
\* and the compiler knows it.  (check_unused and check_all_seen together)
NothingLost ==
  phase = "accepted" /\ PerformChecks =>
    \A k \in Key \ Ignored :
      collected[k] <= handled[k] + (IF k \in Whitelisted THEN Copies(k) ELSE 0)

\* An error accuses an attribute of this input only, and rightly: "not used" one
\* that is still in the tree and was marked fewer times than it occurred,
\* "silently dropped" one that has fewer copies left than were not marked.
ErrorsAreJust ==
  /\ culprit.kind = "unused" =>
       /\ culprit.key \notin Exempt
       /\ Copies(culprit.key) > 0
       /\ handled[culprit.key] < collected[culprit.key]
  /\ culprit.kind = "dropped" =>
       /\ culprit.key \notin Ignored
       /\ handled[culprit.key] + Copies(culprit.key) < collected[culprit.key]

\* While rewriters run the table holds exactly what the attributes of this file
\* and their marks say, whatever the file before left in it (reset_checks).
TableIsOfThisFile ==
  phase = "rewriting" /\ PerformChecks =>
    \A k \in Key : notSeen[k] = Monus(collected[k], handled[k])

\* remove_seen strips an attribute only when rewriters marked its name and location
\* as often as the input has them: the mark of one of several equal attributes does
\* not let the others go, in whatever passes they were copied, dropped or generated.
RemovedWereMarked ==
  [][\A o \in Occ : RemoveSeen(o) /\ PerformChecks =>
       collected[node[o].key] <= handled[node[o].key]]_vars
================================================================================
