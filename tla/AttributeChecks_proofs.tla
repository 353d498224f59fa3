------------------------ MODULE AttributeChecks_proofs -------------------------
(***************************************************************************)
(* Proofs, for any keys, whitelist and number of attributes, that the      *)
(* checks of attribute.ml lose no attribute and accuse none wrongly.       *)
(***************************************************************************)
EXTENDS AttributeChecks, FiniteSetTheorems, TLAPS

\* Two sums over Nat that SMT is spared from finding under the table's EXCEPT.
LEMMA MonusNat == \A a, b \in Nat : Monus(a, b) \in Nat
BY DEF Monus

LEMMA MonusMonus == \A a, b \in Nat : Monus(Monus(a, b), 1) = Monus(a, b + 1)
BY DEF Monus

LEMMA OccFinite ==
  /\ IsFiniteSet(Occ)
  /\ \A S \in SUBSET Occ : IsFiniteSet(S) /\ Cardinality(S) \in Nat
<1>1. IsFiniteSet(Occ)
  <2>1. MaxOcc \in Int /\ 1 \in Int
    BY BoundAssumption
  <2>. QED  BY <2>1, FS_Interval DEF Occ
<1>2. ASSUME NEW S \in SUBSET Occ PROVE IsFiniteSet(S) /\ Cardinality(S) \in Nat
  BY <1>1, FS_Subset, FS_CardinalityType
<1>. QED  BY <1>1, <1>2

\* The table has the type it is declared with after a binding is removed.
LEMMA RemoveBindingType ==
  ASSUME NEW table \in [Key -> Nat], NEW k \in Key
  PROVE  RemoveBinding(table, k) \in [Key -> Nat]
BY MonusNat DEF RemoveBinding

\* An attribute explicitly_drop is called on may be remembered in op.
LEMMA OpTypes == NoOp \in Op /\ Occ \subseteq Op
BY BoundAssumption DEF NoOp, Op, Occ

LEMMA InitTypeOK == Init => TypeOK
<1>. SUFFICES ASSUME Init PROVE TypeOK
  OBVIOUS
<1>1. files \in 0..MaxFiles
  BY BoundAssumption DEF Init
<1>2. op \in Op
  BY OpTypes DEF Init
<1>. QED  BY <1>1, <1>2 DEF Init, TypeOK, Culprit, NoCulprit

LEMMA NextTypeOK == TypeOK /\ [Next]_vars => TypeOK'
<1>. SUFFICES ASSUME TypeOK, [Next]_vars PROVE TypeOK'
  OBVIOUS
<1>. USE DEF TypeOK
<1>m. ASSUME NEW o \in Occ, o \in Present, MarkAsSeen(node[o].key)
      PROVE  handled' \in [Key -> Nat] /\ notSeen' \in [Key -> Nat]
  <2>1. node[o].key \in Key
    BY <1>m DEF Present, Node
  <2>2. handled' \in [Key -> Nat]
    BY <1>m, <2>1 DEF MarkAsSeen
  <2>. QED  BY <1>m, <2>1, <2>2, RemoveBindingType DEF MarkAsSeen
<1>op. op' \in Op
  BY OpTypes DEF Next, Start, Rewrite, Rewriting, Get, Consume, ExplicitlyDrop, Drop,
                 RemoveSeen, Generate, FailPass, EndPasses, Check, CheckFails,
                 CheckPasses, SilentlyDropped, CheckAllSeen, Reject, vars
<1>1. CASE Start
  <2>1. node' \in [Occ -> Node \cup {Absent}]
    BY <1>1 DEF Start, InputTrees
  <2>2. collected' \in [Key -> Nat]
    <3>1. \A k \in Key : KeyCount(node', k) \in Nat
      BY OccFinite DEF KeyCount
    <3>. QED  BY <1>1, <3>1 DEF Start
  <2>3. notSeen' \in [Key -> Nat] /\ handled' \in [Key -> Nat]
    BY <1>1, <2>2 DEF Start, TableAfterReset
  <2>4. files' \in 0..MaxFiles
    BY <1>1, BoundAssumption DEF Start
  <2>. QED  BY <1>op, <1>1, <2>1, <2>2, <2>3, <2>4 DEF Start, Culprit, NoCulprit
<1>2. CASE \E o \in Occ : Get(o) \/ ExplicitlyDrop(o)
  BY <1>op, <1>2, <1>m DEF Get, ExplicitlyDrop, Rewriting
<1>3. ASSUME NEW o \in Occ, Consume(o) PROVE TypeOK'
  <2>1. PICK spliced \in SUBSET PayloadOf(o) :
          node' = [p \in Occ |->
                     IF p \in Subtree(o) \ UNION {Subtree(q) : q \in spliced} THEN Absent
                     ELSE IF p \in spliced THEN [node[p] EXCEPT !.host = node[o].host]
                     ELSE node[p]]
    BY <1>3 DEF Consume
  <2>2. node[o] \in Node
    BY <1>3 DEF Consume, Present
  <2>3. ASSUME NEW p \in spliced PROVE [node[p] EXCEPT !.host = node[o].host] \in Node
    <3>1. node[p] \in Node
      BY <2>1 DEF PayloadOf, Present
    <3>. QED  BY <2>2, <3>1 DEF Node
  <2>4. node' \in [Occ -> Node \cup {Absent}]
    BY <2>1, <2>3
  <2>. QED  BY <1>op, <1>3, <1>m, <2>4 DEF Consume, Rewriting
<1>4. CASE \E o \in Occ : Drop(o) \/ RemoveSeen(o)
  BY <1>op, <1>4 DEF Drop, RemoveSeen, Rewriting
<1>5. CASE \E o \in Occ, n \in Node : Generate(o, n)
  BY <1>op, <1>5 DEF Generate, Rewriting
<1>6. CASE FailPass
  BY <1>op, <1>6 DEF FailPass, Culprit
<1>7. CASE EndPasses
  BY <1>op, <1>7 DEF EndPasses
<1>8. ASSUME NEW o \in Occ, CheckFails(o) PROVE TypeOK'
  <2>1. node[o].key \in Key
    BY <1>8 DEF CheckFails, CanVisit, Present, Node
  <2>. QED  BY <1>op, <1>8, <2>1 DEF CheckFails, Reject, Culprit
<1>9. ASSUME NEW o \in Occ, CheckPasses(o) PROVE TypeOK'
  <2>1. node[o].key \in Key
    BY <1>9 DEF CheckPasses, CanVisit, Present, Node
  <2>2. notSeen' \in [Key -> Nat]
    BY <1>9, <2>1, RemoveBindingType DEF CheckPasses
  <2>. QED  BY <1>op, <1>9, <2>2 DEF CheckPasses
<1>10. CASE \E k \in Key : SilentlyDropped(k)
  BY <1>op, <1>10 DEF SilentlyDropped, Reject, Culprit
<1>11. CASE CheckAllSeen
  BY <1>op, <1>11 DEF CheckAllSeen
<1>12. CASE UNCHANGED vars
  BY <1>op, <1>12 DEF vars
<1>. QED
  BY <1>1, <1>2, <1>3, <1>4, <1>5, <1>6, <1>7, <1>8, <1>9, <1>10, <1>11, <1>12
     DEF Next, Rewrite, Check

\* The state of the checks is well typed, for any constants.
THEOREM TypeCorrect == Spec => []TypeOK
BY InitTypeOK, NextTypeOK, PTL DEF Spec

--------------------------------------------------------------------------------
(***************************************************************************)
(* The inductive invariant.  Passed(k) counts the nodes check_unused let   *)
(* through; the ledger says how the table follows from the attributes      *)
(* collected, the marks and the nodes let through.                         *)
(***************************************************************************)
Passed(k) == Cardinality(WithKey(visited, k))

Ledger ==
  PerformChecks /\ phase \in {"rewriting", "checking", "accepted"} =>
    \A k \in Key : notSeen[k] = Monus(collected[k], handled[k] + Passed(k))

\* a node was let through only if the rewriters had marked its key often enough
WalkIsJust ==
  phase \in {"checking", "accepted"} =>
    \A o \in visited : node[o].key \notin Exempt =>
      collected[node[o].key] <= handled[node[o].key]

Progress ==
  /\ phase \in {"checking", "accepted"} => visited \subseteq Present
  /\ phase \in {"idle", "rewriting"} => visited = {}
  /\ phase # "rejected" => culprit = NoCulprit
  /\ phase = "checking" => PerformChecks
  /\ phase = "accepted" /\ PerformChecks =>
       /\ visited = Present
       /\ \A k \in Key \ Ignored : notSeen[k] = 0

IInv == TypeOK /\ Ledger /\ WalkIsJust /\ Progress /\ ErrorsAreJust

\* Nothing is counted before the walk of check_unused begins.
LEMMA NonePassed == ASSUME visited = {} PROVE \A k \in Key : Passed(k) = 0
<1>1. \A k \in Key : WithKey(visited, k) = {}
  BY DEF WithKey
<1>. QED  BY <1>1, FS_EmptySet DEF Passed

\* A step of the walk counts its own key and no other.
LEMMA OneMorePassed ==
  ASSUME TypeOK, NEW o \in Occ, o \notin visited,
         visited' = visited \cup {o}, UNCHANGED node
  PROVE  \A k \in Key : Passed(k)' = IF k = node[o].key THEN Passed(k) + 1 ELSE Passed(k)
<1>. SUFFICES ASSUME NEW k \in Key
              PROVE  Passed(k)' = IF k = node[o].key THEN Passed(k) + 1 ELSE Passed(k)
  OBVIOUS
<1>1. IsFiniteSet(WithKey(visited, k))
  <2>1. WithKey(visited, k) \in SUBSET Occ
    BY DEF WithKey, TypeOK
  <2>. QED  BY <2>1, OccFinite
<1>2. CASE k = node[o].key
  <2>1. WithKey(visited, k)' = WithKey(visited, k) \cup {o}
    BY <1>2 DEF WithKey
  <2>2. o \notin WithKey(visited, k)
    BY DEF WithKey
  <2>. QED  BY <1>1, <1>2, <2>1, <2>2, FS_AddElement DEF Passed
<1>3. CASE k # node[o].key
  <2>1. WithKey(visited, k)' = WithKey(visited, k)
    BY <1>3 DEF WithKey
  <2>. QED  BY <1>3, <2>1 DEF Passed
<1>. QED  BY <1>2, <1>3

LEMMA PassedNat == ASSUME TypeOK PROVE \A k \in Key : Passed(k) \in Nat
<1>1. \A k \in Key : WithKey(visited, k) \in SUBSET Occ
  BY DEF WithKey, TypeOK
<1>. QED  BY <1>1, OccFinite DEF Passed

LEMMA InitIInv == Init => IInv
BY InitTypeOK DEF Init, IInv, Ledger, WalkIsJust, Progress, ErrorsAreJust, NoCulprit

\* A mark takes a binding off the table and adds to the ledger's other side.
LEMMA MarkKeepsLedger ==
  ASSUME IInv, TypeOK', NEW operation, Rewriting(operation), NEW o \in Present, MarkAsSeen(node[o].key)
  PROVE  IInv'
<1>1. node[o].key \in Key
  BY DEF IInv, TypeOK, Present, Node
<1>2. phase = "rewriting" /\ visited = {} /\ UNCHANGED <<phase, visited, culprit, collected>>
  BY DEF Rewriting, IInv, Progress
<1>3. (\A k \in Key : Passed(k) = 0) /\ (\A k \in Key : Passed(k)' = 0)
  <2>1. \A k \in Key : WithKey(visited', k) = {}
    BY <1>2 DEF WithKey
  <2>2. \A k \in Key : WithKey(visited, k)' = {}
    BY <1>2 DEF WithKey
  <2>. QED  BY <1>2, <2>2, NonePassed, FS_EmptySet DEF Passed
<1>4. Ledger'
  <2>. SUFFICES ASSUME PerformChecks, NEW k \in Key
                PROVE  notSeen'[k] = Monus(collected[k], handled'[k])
    BY <1>2, <1>3 DEF Ledger, IInv, TypeOK
  <2>1. notSeen[k] = Monus(collected[k], handled[k])
    BY <1>2, <1>3 DEF Ledger, IInv, TypeOK
  <2>2. CASE k = node[o].key
    <3>1. notSeen'[k] = Monus(notSeen[k], 1) /\ handled'[k] = handled[k] + 1
      BY <1>1, <2>2 DEF MarkAsSeen, RemoveBinding, IInv, TypeOK
    <3>. QED  BY <2>1, <3>1, MonusMonus DEF IInv, TypeOK
  <2>3. CASE k # node[o].key
    BY <2>1, <2>3, <1>1 DEF MarkAsSeen, RemoveBinding, IInv, TypeOK
  <2>. QED  BY <2>2, <2>3
<1>. QED
  BY <1>2, <1>4 DEF IInv, WalkIsJust, Progress, ErrorsAreJust, NoCulprit

\* A pass that marks nothing leaves the ledger alone, whatever it does to the tree.
LEMMA UnmarkedKeepsLedger ==
  ASSUME IInv, TypeOK', NEW operation, Rewriting(operation), UNCHANGED <<notSeen, handled>>
  PROVE  IInv'
<1>1. phase = "rewriting" /\ visited = {} /\ UNCHANGED <<phase, visited, culprit, collected>>
  BY DEF Rewriting, IInv, Progress
<1>2. \A k \in Key : Passed(k)' = Passed(k)
  <2>1. \A k \in Key : WithKey(visited, k)' = {}
    BY <1>1 DEF WithKey
  <2>2. \A k \in Key : WithKey(visited, k) = {}
    BY <1>1 DEF WithKey
  <2>. QED  BY <2>1, <2>2 DEF Passed
<1>3. Ledger'
  BY <1>1, <1>2 DEF IInv, Ledger
<1>. QED
  BY <1>1, <1>3 DEF IInv, WalkIsJust, Progress, ErrorsAreJust, NoCulprit

LEMMA StartIInv == ASSUME IInv, TypeOK', Start PROVE IInv'
<1>1. \A k \in Key : Passed(k)' = 0
  <2>1. \A k \in Key : WithKey(visited, k)' = {}
    BY DEF WithKey, Start
  <2>. QED  BY <2>1, FS_EmptySet DEF Passed
<1>2. Ledger'
  <2>1. \A k \in Key : handled'[k] = 0 /\ collected'[k] \in Nat
    BY DEF Start, TypeOK
  <2>. QED  BY <1>1, <2>1 DEF Start, TableAfterReset, Ledger, Monus
<1>. QED
  BY <1>2 DEF Start, IInv, WalkIsJust, Progress, ErrorsAreJust, NoCulprit

LEMMA CheckFailsIInv ==
  ASSUME IInv, TypeOK', NEW o \in Occ, CheckFails(o) PROVE IInv'
<1>. DEFINE k == node[o].key
<1>1. k \in Key /\ o \in Present
  BY DEF CheckFails, CanVisit, Present, Node, IInv, TypeOK
<1>2. handled[k] < collected[k]
  <2>1. notSeen[k] = Monus(collected[k], handled[k] + Passed(k)) /\ notSeen[k] > 0
    BY <1>1 DEF CheckFails, CanVisit, IsUnused, IInv, Ledger, Progress
  <2>. QED  BY <1>1, <2>1, PassedNat DEF Monus, IInv, TypeOK
<1>3. Copies(k) > 0
  <2>1. WithKey(Present, k) \in SUBSET Occ /\ o \in WithKey(Present, k)
    BY <1>1 DEF WithKey, Present
  <2>. QED  BY <2>1, OccFinite, FS_EmptySet DEF Copies
<1>4. Copies(k)' = Copies(k)
  BY DEF CheckFails, Reject, Copies, WithKey, Present
<1>5. ErrorsAreJust'
  BY <1>2, <1>3, <1>4 DEF CheckFails, Reject, IsUnused, ErrorsAreJust
<1>. QED
  BY <1>5 DEF CheckFails, Reject, IInv, Ledger, WalkIsJust, Progress

LEMMA CheckPassesIInv ==
  ASSUME IInv, TypeOK', NEW o \in Occ, CheckPasses(o) PROVE IInv'
<1>. DEFINE j == node[o].key
<1>1. /\ j \in Key /\ o \in Present /\ o \notin visited
      /\ phase = "checking" /\ PerformChecks
      /\ UNCHANGED <<phase, node, culprit, collected, handled>>
  BY DEF CheckPasses, CanVisit, Present, Node, IInv, TypeOK, Progress
<1>2. \A k \in Key : Passed(k) \in Nat /\ handled[k] \in Nat /\ collected[k] \in Nat
  BY PassedNat DEF IInv, TypeOK
<1>3. \A k \in Key : Passed(k)' = IF k = j THEN Passed(k) + 1 ELSE Passed(k)
  BY <1>1, OneMorePassed DEF CheckPasses, IInv
<1>4. \A k \in Key : notSeen[k] = Monus(collected[k], handled[k] + Passed(k))
  BY <1>1 DEF IInv, Ledger
<1>5. Ledger'
  <2>. SUFFICES ASSUME NEW k \in Key
                PROVE  notSeen'[k] = Monus(collected[k], handled[k] + Passed(k)')
    BY <1>1 DEF Ledger
  <2>1. CASE k = j
    <3>1. notSeen'[k] = Monus(notSeen[k], 1)
      BY <1>1, <2>1 DEF CheckPasses, RemoveBinding, IInv, TypeOK
    <3>2. notSeen'[k] = Monus(collected[k], (handled[k] + Passed(k)) + 1)
      <4>1. handled[k] + Passed(k) \in Nat
        BY <1>2
      <4>. QED  BY <1>2, <1>4, <3>1, <4>1, MonusMonus
    <3>3. (handled[k] + Passed(k)) + 1 = handled[k] + Passed(k)'
      BY <1>2, <1>3, <2>1
    <3>. QED  BY <3>2, <3>3
  <2>2. CASE k # j
    <3>1. notSeen'[k] = notSeen[k]
      BY <2>2 DEF CheckPasses, RemoveBinding, IInv, TypeOK
    <3>. QED  BY <1>3, <1>4, <2>2, <3>1
  <2>. QED  BY <2>1, <2>2
<1>6. WalkIsJust'
  <2>. SUFFICES ASSUME NEW p \in visited', node[p].key \notin Exempt
                PROVE  collected[node[p].key] <= handled[node[p].key]
    BY <1>1 DEF WalkIsJust
  <2>1. CASE p \in visited
    BY <1>1, <2>1 DEF IInv, WalkIsJust
  <2>2. CASE node[p].key = j /\ WithKey(visited, j) = {}
    <3>1. Passed(j) = 0
      BY <2>2, FS_EmptySet DEF Passed
    <3>2. ~(notSeen[j] > 0)
      BY <2>2 DEF CheckPasses, IsUnused
    <3>. QED  BY <1>1, <1>2, <1>4, <2>2, <3>1, <3>2 DEF Monus
  <2>3. CASE node[p].key = j /\ WithKey(visited, j) # {}
    <3>1. PICK q \in visited : node[q].key = j
      BY <2>3 DEF WithKey
    <3>. QED  BY <1>1, <2>3, <3>1 DEF IInv, WalkIsJust
  <2>. QED  BY <2>1, <2>2, <2>3 DEF CheckPasses
<1>7. Progress' /\ ErrorsAreJust'
  <2>1. visited' \subseteq Present'
    BY <1>1 DEF CheckPasses, Present, IInv, Progress
  <2>. QED  BY <1>1, <2>1 DEF Progress, ErrorsAreJust, IInv, NoCulprit
<1>. QED  BY <1>5, <1>6, <1>7 DEF IInv

LEMMA SilentlyDroppedIInv ==
  ASSUME IInv, TypeOK', NEW k \in Key, SilentlyDropped(k) PROVE IInv'
<1>1. Copies(k) = Passed(k)
  BY DEF SilentlyDropped, Copies, Passed
<1>2. Copies(k)' = Copies(k)
  BY DEF SilentlyDropped, Reject, Copies, WithKey, Present
<1>3. handled[k] + Passed(k) < collected[k]
  <2>1. notSeen[k] = Monus(collected[k], handled[k] + Passed(k)) /\ notSeen[k] > 0
    BY DEF SilentlyDropped, IInv, Ledger, Progress
  <2>. QED  BY <2>1, PassedNat DEF Monus, IInv, TypeOK
<1>4. ErrorsAreJust'
  BY <1>1, <1>2, <1>3 DEF SilentlyDropped, Reject, ErrorsAreJust
<1>. QED
  BY <1>4 DEF SilentlyDropped, Reject, IInv, Ledger, WalkIsJust, Progress

LEMMA CheckAllSeenIInv == ASSUME IInv, TypeOK', CheckAllSeen PROVE IInv'
<1>1. \A k \in Key : Passed(k)' = Passed(k)
  BY DEF CheckAllSeen, Passed, WithKey
<1>2. Ledger'
  BY <1>1 DEF CheckAllSeen, IInv, Ledger, Progress
<1>3. Progress'
  BY DEF CheckAllSeen, IInv, Progress, Present
<1>. QED
  BY <1>2, <1>3 DEF CheckAllSeen, IInv, WalkIsJust, ErrorsAreJust, NoCulprit, Progress

LEMMA NextIInv == IInv /\ [Next]_vars => IInv'
<1>. SUFFICES ASSUME IInv, [Next]_vars PROVE IInv'
  OBVIOUS
<1>t. TypeOK'
  BY NextTypeOK DEF IInv
<1>1. CASE Start
  BY <1>1, <1>t, StartIInv
<1>2. ASSUME NEW o \in Occ, Get(o) \/ Consume(o) \/ ExplicitlyDrop(o) PROVE IInv'
  BY <1>2, <1>t, MarkKeepsLedger DEF Get, Consume, ExplicitlyDrop
<1>3. CASE \E o \in Occ : Drop(o) \/ RemoveSeen(o) \/ \E n \in Node : Generate(o, n)
  BY <1>3, <1>t, UnmarkedKeepsLedger DEF Drop, RemoveSeen, Generate
<1>4. CASE FailPass
  BY <1>4, <1>t DEF FailPass, IInv, Ledger, WalkIsJust, Progress, ErrorsAreJust
<1>5. CASE EndPasses
  <2>1. \A k \in Key : Passed(k)' = Passed(k)
    BY <1>5 DEF EndPasses, Passed, WithKey
  <2>2. Ledger'
    BY <1>5, <2>1 DEF EndPasses, IInv, Ledger
  <2>3. visited = {} /\ culprit = NoCulprit
    BY <1>5 DEF EndPasses, IInv, Progress
  <2>4. WalkIsJust' /\ Progress' /\ ErrorsAreJust'
    BY <1>5, <2>3 DEF EndPasses, WalkIsJust, Progress, ErrorsAreJust, NoCulprit
  <2>. QED  BY <1>t, <2>2, <2>4 DEF IInv
<1>6. ASSUME NEW o \in Occ, CheckFails(o) \/ CheckPasses(o) PROVE IInv'
  BY <1>6, <1>t, CheckFailsIInv, CheckPassesIInv
<1>7. ASSUME NEW k \in Key, SilentlyDropped(k) PROVE IInv'
  BY <1>7, <1>t, SilentlyDroppedIInv
<1>8. CASE CheckAllSeen
  BY <1>8, <1>t, CheckAllSeenIInv
<1>9. CASE UNCHANGED vars
  <2>1. \A k \in Key : Passed(k)' = Passed(k) /\ Copies(k)' = Copies(k)
    BY <1>9 DEF vars, Passed, Copies, WithKey, Present
  <2>2. Ledger'
    BY <1>9, <2>1 DEF vars, IInv, Ledger
  <2>3. Progress'
    BY <1>9 DEF vars, IInv, Progress, Present
  <2>4. culprit'.kind = "unused" => culprit' = culprit /\ culprit.key \in Key
    BY <1>9 DEF vars, IInv, TypeOK, Culprit, NoCulprit
  <2>5. culprit'.kind = "dropped" => culprit' = culprit /\ culprit.key \in Key
    BY <1>9 DEF vars, IInv, TypeOK, Culprit, NoCulprit
  <2>6. ErrorsAreJust'
    BY <1>9, <2>1, <2>4, <2>5 DEF vars, IInv, ErrorsAreJust
  <2>. QED  BY <1>9, <1>t, <2>2, <2>3, <2>6 DEF vars, IInv, WalkIsJust
<1>. QED
  BY <1>1, <1>2, <1>3, <1>4, <1>5, <1>6, <1>7, <1>8, <1>9 DEF Next, Rewrite, Check

LEMMA IInvNothingLost == IInv => NothingLost
<1>. SUFFICES ASSUME IInv, phase = "accepted", PerformChecks, NEW k \in Key \ Ignored
              PROVE  collected[k] <= handled[k] + (IF k \in Whitelisted THEN Copies(k) ELSE 0)
  BY DEF NothingLost
<1>1. /\ notSeen[k] = Monus(collected[k], handled[k] + Passed(k)) /\ notSeen[k] = 0
      /\ Copies(k) = Passed(k)
  BY DEF IInv, Ledger, Progress, Copies, Passed
<1>2. collected[k] <= handled[k] + Passed(k)
  BY <1>1, PassedNat DEF Monus, IInv, TypeOK
<1>3. CASE k \in Whitelisted
  BY <1>1, <1>2, <1>3
<1>4. CASE k \notin Whitelisted /\ WithKey(visited, k) = {}
  <2>1. Passed(k) = 0
    BY <1>4, FS_EmptySet DEF Passed
  <2>. QED  BY <1>2, <1>4, <2>1
<1>5. CASE k \notin Whitelisted /\ WithKey(visited, k) # {}
  <2>1. PICK o \in visited : node[o].key = k
    BY <1>5 DEF WithKey
  <2>2. collected[k] <= handled[k]
    BY <1>5, <2>1 DEF IInv, WalkIsJust, Exempt
  <2>. QED  BY <1>5, <2>2 DEF IInv, TypeOK
<1>. QED  BY <1>3, <1>4, <1>5

LEMMA IInvTableIsOfThisFile == IInv => TableIsOfThisFile
<1>. SUFFICES ASSUME IInv, phase = "rewriting", PerformChecks, NEW k \in Key
              PROVE  notSeen[k] = Monus(collected[k], handled[k])
  BY DEF TableIsOfThisFile
<1>1. Passed(k) = 0
  BY NonePassed DEF IInv, Progress
<1>. QED  BY <1>1 DEF IInv, Ledger, TypeOK

LEMMA Invariant == Spec => []IInv
BY InitIInv, NextIInv, PTL DEF Spec

\* A file whose checks pass lost no attribute: each was marked as seen as often
\* as it occurred, or the compiler knows it and it is still in the output.
THEOREM NoAttributeLost == Spec => []NothingLost
BY Invariant, IInvNothingLost, PTL

\* No error of check_unused or check_all_seen accuses an attribute wrongly.
THEOREM ErrorsJust == Spec => []ErrorsAreJust
<1>1. IInv => ErrorsAreJust
  BY DEF IInv
<1>. QED  BY <1>1, Invariant, PTL

\* What an earlier file left in the table has no part in the checks of this one.
THEOREM FreshTable == Spec => []TableIsOfThisFile
BY Invariant, IInvTableIsOfThisFile, PTL

\* remove_seen strips no attribute that was marked fewer times than it occurs.
THEOREM RemovedMarked == Spec => RemovedWereMarked
<1>1. ASSUME IInv, NEW o \in Occ, RemoveSeen(o), PerformChecks
      PROVE  collected[node[o].key] <= handled[node[o].key]
  <2>1. phase = "rewriting" /\ node[o].key \in Key /\ notSeen[node[o].key] = 0
    BY <1>1 DEF RemoveSeen, Rewriting, Present, Node, IInv, TypeOK
  <2>2. Monus(collected[node[o].key], handled[node[o].key]) = 0
    BY <1>1, <2>1, IInvTableIsOfThisFile DEF TableIsOfThisFile
  <2>. QED  BY <1>1, <2>1, <2>2 DEF Monus, IInv, TypeOK
<1>2. IInv /\ [Next]_vars =>
        [\A o \in Occ : RemoveSeen(o) /\ PerformChecks =>
           collected[node[o].key] <= handled[node[o].key]]_vars
  BY <1>1
<1>. QED  BY <1>2, Invariant, PTL DEF Spec, RemovedWereMarked
================================================================================
