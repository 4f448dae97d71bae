------------------------ MODULE RoleInheritanceProofs ------------------------
(* Proofs about RoleInheritance, for any set of names and any configuration. *)
EXTENDS RoleInheritance, FiniteSetTheorems, TLAPS

-----------------------------------------------------------------------------
(* What a role inherits.                                                    *)
\* A role's permissions are its own and those of its parents.
LEMMA AncestorsUnfold ==
  ASSUME inherits \in [Roles -> SUBSET Names], Roles \subseteq Names, NEW m \in Roles
  PROVE  Ancestors(m) = {m} \union UNION {Ancestors(d) : d \in inherits[m]}
<1> DEFINE Up == {m} \union UNION {Ancestors(d) : d \in inherits[m]}
<1>1. Up \in SUBSET Names
  BY DEF Ancestors
<1>2. ASSUME NEW d \in Names PROVE IsClosed(Ancestors(d)) /\ d \in Ancestors(d)
  BY DEF Ancestors, IsClosed
<1>3. inherits[m] \subseteq Up
  BY <1>2
<1>4. IsClosed(Up)
  <2> SUFFICES ASSUME NEW n \in Up \intersect Roles PROVE inherits[n] \subseteq Up
    BY DEF IsClosed
  <2>1. CASE n = m
    BY <1>3, <2>1
  <2>2. CASE n # m
    <3>1. PICK d \in inherits[m] : n \in Ancestors(d)
      BY <2>2
    <3>2. inherits[n] \subseteq Ancestors(d)
      BY <1>2, <3>1 DEF IsClosed
    <3> QED BY <3>1, <3>2
  <2> QED BY <2>1, <2>2
<1>5. Ancestors(m) \subseteq Up
  BY <1>1, <1>4 DEF Ancestors
<1>6. Up \subseteq Ancestors(m)
  <2> SUFFICES ASSUME NEW n \in Up, NEW C \in SUBSET Names, m \in C, IsClosed(C)
               PROVE  n \in C
    BY <1>1 DEF Ancestors
  <2>1. inherits[m] \subseteq C
    BY DEF IsClosed
  <2>2. CASE n = m
    BY <2>2
  <2>3. ASSUME NEW d \in inherits[m], n \in Ancestors(d) PROVE n \in C
    BY <2>1, <2>3 DEF Ancestors
  <2> QED BY <2>2, <2>3
<1> QED BY <1>5, <1>6

-----------------------------------------------------------------------------
(* Types.                                                                   *)
\* The initial state is typed.
LEMMA TypeInit == Init => TypeOK
<1> SUFFICES ASSUME Init PROVE TypeOK
  OBVIOUS
<1>1. PICK R \in SUBSET Names : inherits \in [R -> SUBSET Names]
  BY DEF Init
<1>2. Roles = R
  BY <1>1 DEF Roles
<1>3. order \in Seq(Roles) /\ resolved \in [Names -> SUBSET Names]
  BY DEF Init
<1>4. waits \in [Roles -> SUBSET Names] /\ Roles \subseteq Names
  BY <1>1, <1>2 DEF Init
<1> QED BY <1>3, <1>4 DEF Init, TypeOK

\* Every step keeps the types.
LEMMA TypeInductive == TypeOK /\ [Next]_vars => TypeOK'
<1> SUFFICES ASSUME TypeOK, [Next]_vars PROVE TypeOK'
  OBVIOUS
<1>1. ASSUME NEW m \in Roles, Visit(m) PROVE TypeOK'
  <2>1. Roles' = Roles
    BY <1>1 DEF Visit, Roles
  <2>2. CASE waits[m] = {}
    <3>1. /\ graph' = graph \ {m} /\ todo' = todo \ {m} /\ hasResolved' = TRUE
          /\ waits' = [n \in Roles |-> IF n \in graph' THEN waits[n] \ {m} ELSE waits[n]]
          /\ order' = Append(order, m)
          /\ UNCHANGED <<inherits, resolved, phase>>
      BY <1>1, <2>2 DEF Visit, Resolve
    <3>2. order' \in Seq(Roles)
      BY <3>1 DEF TypeOK
    <3>3. waits' \in [Roles -> SUBSET Names]
      BY <3>1 DEF TypeOK
    <3> QED BY <2>1, <3>1, <3>2, <3>3 DEF TypeOK
  <2>3. CASE waits[m] # {}
    BY <1>1, <2>1, <2>3 DEF Visit, TypeOK
  <2> QED BY <2>2, <2>3
<1>2. CASE EndRound
  <2>1. Roles' = Roles
    BY <1>2 DEF EndRound, Roles
  <2> QED BY <1>2, <2>1 DEF EndRound, TypeOK
<1>3. CASE Flatten
  <2>1. Roles' = Roles
    BY <1>3 DEF Flatten, Roles
  <2>2. Head(order) \in Roles /\ Tail(order) \in Seq(Roles)
    BY <1>3 DEF Flatten, TypeOK
  <2>3. {Head(order)} \union UNION {resolved[d] : d \in inherits[Head(order)]} \in SUBSET Names
    BY <2>2 DEF TypeOK
  <2>4. resolved' \in [Names -> SUBSET Names]
    BY <1>3, <2>3 DEF Flatten, TypeOK
  <2> QED BY <1>3, <2>1, <2>2, <2>4 DEF Flatten, TypeOK
<1>4. CASE Finish
  <2>1. Roles' = Roles
    BY <1>4 DEF Finish, Roles
  <2> QED BY <1>4, <2>1 DEF Finish, TypeOK
<1>5. CASE UNCHANGED vars
  BY <1>5 DEF vars, TypeOK, Roles
<1> QED BY <1>1, <1>2, <1>3, <1>4, <1>5 DEF Next

\* Every variable always has its type.
THEOREM TypeCorrect == Spec => []TypeOK
<1>1. TypeOK /\ [Next]_vars => TypeOK'
  BY TypeInductive
<1> QED BY <1>1, TypeInit, PTL DEF Spec

-----------------------------------------------------------------------------
(* The strengthening.                                                       *)
\* It holds initially.
LEMMA InvInit == Init => InheritanceInv
<1> SUFFICES ASSUME Init PROVE InheritanceInv
  OBVIOUS
<1>1. TypeOK
  BY TypeInit
<1>2. Placed = {} /\ Len(order) = 0
  BY DEF Init, Placed, Before
<1>3. Flat = {}
  BY <1>2 DEF Flat, Init
<1> QED BY <1>1, <1>2, <1>3 DEF Init, InheritanceInv

\* What appending a role to the order, and taking the first away, do to it.
LEMMA OrderAppend ==
  ASSUME order \in Seq(Roles), NEW m \in Roles, order' = Append(order, m)
  PROVE  /\ Len(order') = Len(order) + 1
         /\ \A i \in 1..Len(order) : order'[i] = order[i]
         /\ \A i \in 1..(Len(order) + 1) : Before(i)' = Before(i)
         /\ order'[Len(order) + 1] = m
         /\ Placed' = Placed \union {m}
<1>1. /\ Len(order') = Len(order) + 1 /\ Len(order) \in Nat
      /\ \A i \in 1..Len(order) : order'[i] = order[i]
      /\ order'[Len(order) + 1] = m
  OBVIOUS
<1>2. \A i \in 1..(Len(order) + 1) : Before(i)' = Before(i)
  BY <1>1 DEF Before
<1>3. Placed' = Placed \union {m}
  <2>1. 1..(Len(order') + 1 - 1) = 1..(Len(order) + 1 - 1) \union {Len(order) + 1}
    BY <1>1
  <2> QED BY <1>1, <2>1 DEF Placed, Before
<1> QED BY <1>1, <1>2, <1>3

LEMMA OrderTail ==
  ASSUME order \in Seq(Roles), order # << >>, order' = Tail(order)
  PROVE  /\ Len(order') = Len(order) - 1 /\ Len(order) \in Nat \ {0}
         /\ \A i \in 1..Len(order') : /\ order'[i] = order[i + 1]
                                      /\ Before(i + 1) = {Head(order)} \union Before(i)'
         /\ Placed = {Head(order)} \union Placed'
         /\ Head(order) = order[1] /\ Before(1) = {}
<1>1. /\ Len(order') = Len(order) - 1 /\ Len(order) \in Nat \ {0}
      /\ \A i \in 1..Len(order') : order'[i] = order[i + 1]
      /\ Head(order) = order[1]
  OBVIOUS
<1>2. ASSUME NEW i \in 1..(Len(order') + 1)
      PROVE  Before(i + 1) = {Head(order)} \union Before(i)'
  <2>1. \A j \in 1..i : j = 1 \/ (j - 1 \in 1..(i - 1) /\ order[j] = order'[j - 1])
    BY <1>1
  <2>2. \A j \in 1..(i - 1) : j + 1 \in 1..i /\ order'[j] = order[j + 1]
    BY <1>1
  <2>3. Before(i + 1) = {order[j] : j \in 1..i} /\ Before(i)' = {order'[j] : j \in 1..(i - 1)}
    BY DEF Before
  <2>4. 1 \in 1..i
    OBVIOUS
  <2>5. ASSUME NEW x \in Before(i + 1) PROVE x = Head(order) \/ x \in Before(i)'
    BY <1>1, <2>1, <2>3, <2>5
  <2>6. ASSUME NEW x \in Before(i)' PROVE x \in Before(i + 1)
    BY <2>2, <2>3, <2>6
  <2> QED BY <1>1, <2>3, <2>4, <2>5, <2>6
<1>3. Placed = {Head(order)} \union Placed'
  <2>1. Len(order') + 1 \in 1..(Len(order') + 1) /\ Len(order') + 1 + 1 = Len(order) + 1
    BY <1>1
  <2> QED BY <1>2, <2>1 DEF Placed
<1>4. Before(1) = {}
  BY DEF Before
<1> QED BY <1>1, <1>2, <1>3, <1>4

\* A turn of the inner loop preserves it.
LEMMA InvVisit == ASSUME InheritanceInv, NEW m \in Roles, Visit(m), TypeOK'
                  PROVE  InheritanceInv'
<1>0. /\ TypeOK /\ phase = "rounds" /\ Flat = {} /\ m \in graph /\ inherits' = inherits
      /\ Roles' = Roles /\ phase' = phase /\ resolved' = resolved /\ todo' = todo \ {m}
  BY DEF InheritanceInv, Visit, TypeOK, Roles
<1>1. CASE waits[m] = {}
  <2>1. /\ graph' = graph \ {m} /\ hasResolved' = TRUE /\ order' = Append(order, m)
        /\ waits' = [n \in Roles |-> IF n \in graph' THEN waits[n] \ {m} ELSE waits[n]]
    BY <1>1 DEF Visit, Resolve
  <2>2. inherits[m] \subseteq Roles \ graph
    BY <1>0, <1>1 DEF InheritanceInv
  <2>3. /\ Len(order') = Len(order) + 1
        /\ \A i \in 1..Len(order) : order'[i] = order[i]
        /\ \A i \in 1..(Len(order) + 1) : Before(i)' = Before(i)
        /\ order'[Len(order) + 1] = m
        /\ Placed' = Placed \union {m} /\ Len(order) \in Nat
    BY <1>0, <2>1, OrderAppend DEF TypeOK
  <2>4. Flat' = {} /\ Placed' \intersect graph' = {}
    BY <1>0, <2>1, <2>3 DEF Flat, InheritanceInv
  <2>5. \A n \in graph' : waits'[n] = inherits'[n] \ (Roles \ graph)'
    BY <1>0, <2>1 DEF InheritanceInv, TypeOK
  <2>6. ASSUME NEW i \in 1..Len(order')
        PROVE  /\ order'[i] \notin Before(i)'
               /\ inherits'[order'[i]] \subseteq Flat' \union Before(i)'
    <3>1. CASE i = Len(order) + 1
      <4>1. inherits[m] \subseteq Placed
        BY <1>0, <2>2 DEF Flat
      <4>2. Before(i)' = Placed
        BY <2>3, <3>1 DEF Placed
      <4> QED BY <1>0, <2>3, <2>4, <3>1, <4>1, <4>2 DEF InheritanceInv
    <3>2. CASE i \in 1..Len(order)
      BY <1>0, <2>3, <2>4, <3>2 DEF InheritanceInv
    <3> QED BY <2>3, <3>1, <3>2
  <2>7. ASSUME NEW S \in SUBSET Roles, Blocked(S)' PROVE S \subseteq graph'
    <3>1. Blocked(S) /\ S \subseteq graph
      BY <1>0, <2>7 DEF Blocked, InheritanceInv
    <3>2. m \notin S
      BY <2>2, <3>1 DEF Blocked
    <3> QED BY <2>1, <3>1, <3>2
  <2> QED BY <1>0, <2>1, <2>4, <2>5, <2>6, <2>7 DEF InheritanceInv
<1>2. CASE waits[m] # {}
  <2>1. UNCHANGED <<graph, waits, hasResolved, order>>
    BY <1>2 DEF Visit
  <2>2. /\ Placed' = Placed /\ Flat' = Flat /\ Len(order') = Len(order)
        /\ \A i : Before(i)' = Before(i)
        /\ \A S : Blocked(S)' = Blocked(S)
        /\ \A n : Ancestors(n)' = Ancestors(n)
    BY <1>0, <2>1 DEF Placed, Flat, Before, Blocked, Ancestors, IsClosed
  <2>3. ~hasResolved' => \A n \in graph' \ todo' : waits'[n] # {}
    BY <1>0, <1>2, <2>1 DEF InheritanceInv
  <2> QED BY <1>0, <2>1, <2>2, <2>3 DEF InheritanceInv
<1> QED BY <1>1, <1>2

\* The end of a round preserves it.
LEMMA InvEndRound == ASSUME InheritanceInv, EndRound, TypeOK' PROVE InheritanceInv'
<1>0. /\ TypeOK /\ phase = "rounds" /\ Flat = {} /\ inherits' = inherits /\ todo = {}
      /\ Roles' = Roles /\ UNCHANGED <<graph, waits, order, resolved>>
  BY DEF InheritanceInv, EndRound, Roles
<1>1. /\ Placed' = Placed /\ Flat' = Flat /\ Len(order') = Len(order)
      /\ \A i : Before(i)' = Before(i)
      /\ \A S : Blocked(S)' = Blocked(S)
      /\ \A n : Ancestors(n)' = Ancestors(n)
  BY <1>0 DEF Placed, Flat, Before, Blocked, Ancestors, IsClosed
<1>2. CASE graph = {}
  BY <1>0, <1>1, <1>2 DEF EndRound, InheritanceInv
<1>3. CASE graph # {} /\ hasResolved
  BY <1>0, <1>1, <1>3 DEF EndRound, InheritanceInv
<1>4. CASE graph # {} /\ ~hasResolved
  <2>1. phase' = "failed" /\ UNCHANGED <<todo, hasResolved>>
    BY <1>4 DEF EndRound
  <2>2. Blocked(graph)
    <3> SUFFICES ASSUME NEW m \in graph
                 PROVE  inherits[m] \intersect (graph \union (Names \ Roles)) # {}
      BY DEF Blocked
    <3>1. waits[m] # {} /\ waits[m] = inherits[m] \ (Roles \ graph)
      BY <1>0, <1>4 DEF InheritanceInv
    <3>2. inherits[m] \subseteq Names
      BY <1>0 DEF TypeOK
    <3> QED BY <3>1, <3>2
  <2>3. Blocked(graph)'
    BY <1>0, <2>2 DEF Blocked
  <2> QED BY <1>0, <1>1, <1>4, <2>1, <2>3 DEF InheritanceInv
<1> QED BY <1>2, <1>3, <1>4

\* A turn of the second loop preserves it: the parents of the role it takes have their
\* results, and these make up the role's own.
LEMMA InvFlatten == ASSUME InheritanceInv, Flatten, TypeOK' PROVE InheritanceInv'
<1> DEFINE m == Head(order)
<1>0. /\ TypeOK /\ phase = "flatten" /\ order # << >> /\ graph = {} /\ inherits' = inherits
      /\ order' = Tail(order) /\ m \in Roles
      /\ Roles' = Roles /\ UNCHANGED <<graph, waits, todo, hasResolved, phase>>
      /\ resolved' = [resolved EXCEPT ![m] = {m} \union UNION {resolved[d] : d \in inherits[m]}]
  BY DEF InheritanceInv, Flatten, Roles, TypeOK
<1>1. /\ Len(order') = Len(order) - 1 /\ Len(order) \in Nat \ {0}
      /\ \A i \in 1..Len(order') : /\ order'[i] = order[i + 1]
                                   /\ Before(i + 1) = {m} \union Before(i)'
      /\ Placed = {m} \union Placed'
      /\ m = order[1] /\ Before(1) = {}
  BY <1>0, OrderTail DEF TypeOK
<1>2. /\ \A S : Blocked(S)' = Blocked(S)
      /\ \A n : Ancestors(n)' = Ancestors(n)
  BY <1>0 DEF Blocked, Ancestors, IsClosed
<1>3. ASSUME NEW i \in 1..Len(order')
      PROVE  /\ i + 1 \in 1..Len(order) /\ order'[i] = order[i + 1]
             /\ order'[i] \notin Before(i)' /\ order'[i] # m
             /\ inherits[order'[i]] \subseteq Flat \union {m} \union Before(i)'
  <2>1. i + 1 \in 1..Len(order)
    BY <1>1
  <2>2. /\ order[i + 1] \notin Before(i + 1)
        /\ inherits[order[i + 1]] \subseteq Flat \union Before(i + 1)
    BY <2>1 DEF InheritanceInv
  <2> QED BY <1>1, <2>1, <2>2
<1>4. m \notin Placed'
  <2>1. Placed' = {order'[j] : j \in 1..(Len(order') + 1 - 1)}
    BY DEF Placed, Before
  <2> QED BY <1>1, <1>3, <2>1
<1>5. Flat' = Flat \union {m}
  BY <1>0, <1>1, <1>4 DEF Flat
<1>6. inherits[m] \subseteq Flat
  <2>1. 1 \in 1..Len(order)
    BY <1>1
  <2> QED BY <1>1, <2>1 DEF InheritanceInv
<1>7. ASSUME NEW n \in Flat' PROVE resolved'[n] = Ancestors(n)
  <2>1. CASE n = m
    <3>1. resolved'[m] = {m} \union UNION {resolved[d] : d \in inherits[m]}
      BY <1>0 DEF TypeOK
    <3>2. \A d \in inherits[m] : resolved[d] = Ancestors(d)
      BY <1>6 DEF InheritanceInv
    <3>3. Ancestors(m) = {m} \union UNION {Ancestors(d) : d \in inherits[m]}
      BY <1>0, AncestorsUnfold DEF TypeOK
    <3> QED BY <2>1, <3>1, <3>2, <3>3
  <2>2. CASE n # m
    <3>1. n \in Flat /\ n \in Names
      BY <1>0, <1>5, <2>2 DEF Flat, TypeOK
    <3> QED BY <1>0, <2>2, <3>1 DEF InheritanceInv, TypeOK
  <2> QED BY <2>1, <2>2
<1>8. /\ \A n \in graph' : waits'[n] = inherits'[n] \ (Roles \ graph)'
      /\ Placed' \intersect graph' = {}
      /\ \A i \in 1..Len(order') : /\ order'[i] \notin Before(i)'
                                   /\ inherits'[order'[i]] \subseteq Flat' \union Before(i)'
      /\ \A n \in Flat' : resolved'[n] = Ancestors(n)'
  BY <1>0, <1>2, <1>3, <1>5, <1>7
<1> QED BY <1>0, <1>2, <1>8 DEF InheritanceInv

\* The end of the second loop preserves it.
LEMMA InvFinish == ASSUME InheritanceInv, Finish \/ UNCHANGED vars, TypeOK' PROVE InheritanceInv'
<1>1. /\ UNCHANGED <<inherits, graph, waits, todo, hasResolved, order, resolved>> /\ Roles' = Roles
      /\ phase' = phase \/ (phase = "flatten" /\ phase' = "done" /\ order = << >>)
  BY DEF Finish, vars, Roles
<1>2. /\ Placed' = Placed /\ Flat' = Flat /\ Len(order') = Len(order)
      /\ \A i : Before(i)' = Before(i)
      /\ \A S : Blocked(S)' = Blocked(S)
      /\ \A n : Ancestors(n)' = Ancestors(n)
  BY <1>1 DEF Placed, Flat, Before, Blocked, Ancestors, IsClosed
<1>3. Blocked(graph)' = Blocked(graph)
  BY <1>1 DEF Blocked
<1> QED BY <1>1, <1>2, <1>3 DEF InheritanceInv

\* InheritanceInv is an invariant.
THEOREM Invariant == Spec => []InheritanceInv
<1>1. InheritanceInv /\ [Next]_vars => InheritanceInv'
  <2> SUFFICES ASSUME InheritanceInv, [Next]_vars PROVE InheritanceInv'
    OBVIOUS
  <2>1. TypeOK'
    BY TypeInductive DEF InheritanceInv
  <2> QED BY <2>1, InvVisit, InvEndRound, InvFlatten, InvFinish DEF Next
<1> QED BY <1>1, InvInit, PTL DEF Spec

\* For any configuration, the result is the closure of inheritance.
THEOREM Closure == Spec => []ResultIsClosure
<1>1. InheritanceInv => ResultIsClosure
  <2> SUFFICES ASSUME InheritanceInv, phase = "done", NEW m \in Roles
               PROVE  resolved[m] = Ancestors(m)
    BY DEF ResultIsClosure
  <2>1. Placed = {} /\ graph = {}
    BY DEF InheritanceInv, Placed, Before
  <2> QED BY <2>1 DEF InheritanceInv, Flat
<1> QED BY <1>1, Invariant, PTL

\* For any configuration, and whatever the order of the map, the error is returned if
\* and only if some roles cannot be resolved.
THEOREM Errors == Spec => []ErrorIsJustified
<1>1. InheritanceInv => ErrorIsJustified
  <2>1. InheritanceInv /\ phase = "failed" => Unresolvable
    BY DEF InheritanceInv, Unresolvable, TypeOK
  <2>2. InheritanceInv /\ phase = "done" => ~Unresolvable
    BY DEF InheritanceInv, Unresolvable
  <2> QED BY <2>1, <2>2 DEF ErrorIsJustified
<1> QED BY <1>1, Invariant, PTL

\* For any configuration it accepts, no role inherits from itself, however long the way
\* round, and none from a name the configuration does not define: two roles of a circle
\* would each have all the permissions of the other.
THEOREM Upwards == Spec => []NoCircles
<1>1. InheritanceInv /\ ResultIsClosure /\ ErrorIsJustified => NoCircles
  <2> SUFFICES ASSUME InheritanceInv, ResultIsClosure, ErrorIsJustified, phase = "done",
                      NEW m \in Roles, NEW d \in inherits[m]
               PROVE  d \in Roles /\ resolved[d] \subseteq resolved[m] \ {m}
    BY DEF NoCircles
  <2>0. /\ ~Unresolvable /\ inherits \in [Roles -> SUBSET Names] /\ Roles \subseteq Names
        /\ \A n \in Roles : resolved[n] = Ancestors(n)
    BY DEF ErrorIsJustified, ResultIsClosure, InheritanceInv, TypeOK
  <2>1. d \in Roles
    <3>1. d \notin Roles => Blocked({m})
      BY <2>0 DEF Blocked
    <3> QED BY <2>0, <3>1 DEF Unresolvable
  <2>2. Ancestors(d) \subseteq Ancestors(m)
    BY <2>0, AncestorsUnfold
  <2>3. m \notin Ancestors(d)
    <3> DEFINE Below == {n \in Roles : m \in Ancestors(n)}
    <3>1. m \in Ancestors(d) => Blocked(Below)
      <4> SUFFICES ASSUME m \in Ancestors(d), NEW n \in Below
                   PROVE  inherits[n] \intersect (Below \union (Names \ Roles)) # {}
        BY DEF Blocked
      <4>1. CASE n = m
        BY <2>1, <4>1
      <4>2. CASE n # m
        <5>1. PICK p \in inherits[n] : m \in Ancestors(p)
          BY <2>0, <4>2, AncestorsUnfold
        <5> QED BY <2>0, <5>1
      <4> QED BY <4>1, <4>2
    <3>2. m \in Ancestors(d) => d \in Below
      BY <2>1
    <3> QED BY <2>0, <3>1, <3>2 DEF Unresolvable
  <2> QED BY <2>0, <2>1, <2>2, <2>3
<1> QED BY <1>1, Invariant, Closure, Errors, PTL

-----------------------------------------------------------------------------
(* The turns of the loops.                                                  *)
\* The sets that are counted are finite, and no larger than Names.
LEMMA Counted ==
  ASSUME TypeOK
  PROVE  /\ IsFiniteSet(graph) /\ IsFiniteSet(todo) /\ Len(order) \in Nat
         /\ Cardinality(Names) \in Nat
         /\ RolesLeft \in Nat /\ RolesLeft <= Cardinality(Names)
         /\ Cardinality(todo) \in Nat /\ Cardinality(todo) <= RolesLeft
         /\ RoundsLeft \in Nat /\ LoopsLeft \in Nat
<1>1. graph \subseteq Names /\ todo \subseteq graph /\ Len(order) \in Nat
  BY DEF TypeOK
<1>2. IsFiniteSet(Names) /\ IsFiniteSet(graph) /\ IsFiniteSet(todo)
  BY <1>1, NamesAssumption, FS_Subset
<1>3. /\ Cardinality(Names) \in Nat /\ RolesLeft \in Nat /\ Cardinality(todo) \in Nat
      /\ RolesLeft <= Cardinality(Names) /\ Cardinality(todo) <= RolesLeft
  BY <1>1, <1>2, FS_CardinalityType, FS_Subset DEF RolesLeft
<1>4. RoundsLeft \in Nat
  BY <1>3 DEF RoundsLeft
<1>5. LoopsLeft \in Nat
  BY DEF LoopsLeft
<1> QED BY <1>1, <1>2, <1>3, <1>4, <1>5

\* The weight of a round.
LEMMA RoundWeight ==
  /\ \A k, n \in Nat : k * (n + 1) \in Nat /\ (k + 1) * (n + 1) = k * (n + 1) + n + 1
  /\ \A j, k, n \in Nat : j <= k => j * (n + 1) <= k * (n + 1)
<1>1. \A k, n \in Nat : k * (n + 1) \in Nat /\ (k + 1) * (n + 1) = k * (n + 1) + n + 1
  BY SMT
<1>2. ASSUME NEW j \in Nat, NEW k \in Nat, NEW n \in Nat, j <= k
      PROVE  j * (n + 1) <= k * (n + 1)
  BY <1>2, SMT
<1> QED BY <1>1, <1>2

\* Every turn makes progress: a visited role is not visited again in its round, a round
\* that is repeated has resolved a role, a role enters the order once and leaves it once.
LEMMA TurnsDecrease == ASSUME TypeOK, TypeOK', Next PROVE TurnsLeft' \in Nat /\ TurnsLeft' < TurnsLeft
<1> DEFINE N == Cardinality(Names)
           T == Cardinality(todo)
<1>1. /\ IsFiniteSet(graph) /\ IsFiniteSet(todo) /\ Len(order) \in Nat /\ N \in Nat
      /\ RolesLeft \in Nat /\ RolesLeft <= N /\ T \in Nat /\ T <= RolesLeft
      /\ RoundsLeft \in Nat /\ LoopsLeft \in Nat
  BY Counted
<1>2. /\ RolesLeft' \in Nat /\ RoundsLeft' \in Nat /\ LoopsLeft' \in Nat /\ T' \in Nat
      /\ Len(order') \in Nat
  <2>1. graph' \subseteq Names /\ todo' \subseteq graph' /\ Len(order') \in Nat
    BY DEF TypeOK
  <2>2. IsFiniteSet(graph') /\ IsFiniteSet(todo')
    BY <2>1, NamesAssumption, FS_Subset
  <2>3. RolesLeft' \in Nat /\ T' \in Nat
    BY <2>2, FS_CardinalityType DEF RolesLeft
  <2> QED BY <2>1, <2>3 DEF RoundsLeft, LoopsLeft
<1>3. VisitsLeft \in Nat /\ VisitsLeft' \in Nat
  <2>1. RoundsLeft * (N + 1) \in Nat /\ RoundsLeft' * (N + 1) \in Nat
    BY <1>1, <1>2, RoundWeight
  <2>2. VisitsLeft = RoundsLeft * (N + 1) + T /\ VisitsLeft' = RoundsLeft' * (N + 1) + T'
    BY DEF VisitsLeft
  <2>3. ASSUME NEW a \in Nat, NEW b \in Nat PROVE a + b \in Nat
    OBVIOUS
  <2> HIDE DEF N, T
  <2> QED BY <1>1, <1>2, <2>1, <2>2, <2>3, Zenon
<1>4. \/ /\ VisitsLeft' < VisitsLeft
         /\ RolesLeft' + Len(order') = RolesLeft + Len(order) /\ LoopsLeft' = LoopsLeft
      \/ /\ VisitsLeft' = VisitsLeft
         /\ RolesLeft' + Len(order') + LoopsLeft' < RolesLeft + Len(order) + LoopsLeft
  <2>1. ASSUME NEW m \in Roles, Visit(m)
        PROVE  /\ VisitsLeft' < VisitsLeft /\ LoopsLeft' = LoopsLeft
               /\ RolesLeft' + Len(order') = RolesLeft + Len(order)
    <3>1. m \in todo /\ m \in graph /\ todo' = todo \ {m} /\ LoopsLeft' = LoopsLeft
      BY <2>1 DEF Visit, LoopsLeft, TypeOK
    <3>2. T' = T - 1
      BY <1>1, <3>1, FS_RemoveElement
    <3>3. /\ RolesLeft' + Len(order') = RolesLeft + Len(order)
          /\ RoundsLeft' <= RoundsLeft
      <4>1. CASE waits[m] = {}
        <5>1. /\ graph' = graph \ {m} /\ hasResolved' = TRUE
              /\ Len(order') = Len(order) + 1
          BY <2>1, <4>1 DEF Visit, Resolve, TypeOK
        <5>2. RolesLeft' = RolesLeft - 1
          BY <1>1, <3>1, <5>1, FS_RemoveElement DEF RolesLeft
        <5> QED BY <1>1, <5>1, <5>2 DEF RoundsLeft
      <4>2. CASE waits[m] # {}
        BY <1>1, <2>1, <4>2 DEF Visit, RolesLeft, RoundsLeft
      <4> QED BY <4>1, <4>2
    <3>4. RoundsLeft' * (N + 1) <= RoundsLeft * (N + 1)
      BY <1>1, <1>2, <3>3, RoundWeight
    <3>5. RoundsLeft' * (N + 1) \in Nat /\ RoundsLeft * (N + 1) \in Nat
      BY <1>1, <1>2, RoundWeight
    <3> QED BY <1>1, <3>1, <3>2, <3>3, <3>4, <3>5 DEF VisitsLeft
  <2>2. CASE EndRound /\ graph # {} /\ hasResolved
    <3>1. /\ graph' = graph /\ order' = order /\ todo = {} /\ todo' = graph
          /\ hasResolved' = FALSE /\ LoopsLeft' = LoopsLeft
      BY <2>2 DEF EndRound, LoopsLeft
    <3>2. T = 0 /\ T' = RolesLeft /\ RolesLeft' = RolesLeft
      BY <3>1, FS_EmptySet DEF RolesLeft
    <3>3. RoundsLeft = RolesLeft + 1 /\ RoundsLeft' = RolesLeft
      BY <1>1, <2>2, <3>1, <3>2 DEF RoundsLeft
    <3>4. /\ RoundsLeft * (N + 1) = RolesLeft * (N + 1) + N + 1
          /\ RolesLeft * (N + 1) \in Nat
      BY <1>1, <3>3, RoundWeight
    <3>5. VisitsLeft = RolesLeft * (N + 1) + N + 1 /\ VisitsLeft' = RolesLeft * (N + 1) + RolesLeft
      BY <1>1, <3>2, <3>3, <3>4 DEF VisitsLeft
    <3> QED BY <1>1, <3>1, <3>2, <3>4, <3>5
  <2>3. CASE EndRound /\ ~(graph # {} /\ hasResolved)
    <3>1. UNCHANGED <<graph, order, todo, hasResolved>> /\ LoopsLeft' < LoopsLeft
      BY <2>3 DEF EndRound, LoopsLeft
    <3>2. UNCHANGED <<VisitsLeft, RolesLeft>>
      BY <3>1 DEF VisitsLeft, RoundsLeft, RolesLeft
    <3> QED BY <1>1, <1>2, <3>1, <3>2
  <2>4. CASE Flatten
    <3>1. UNCHANGED <<graph, todo, hasResolved, phase>> /\ Len(order') = Len(order) - 1
      BY <2>4 DEF Flatten, TypeOK
    <3>2. UNCHANGED <<VisitsLeft, RolesLeft, LoopsLeft>>
      BY <3>1 DEF VisitsLeft, RoundsLeft, RolesLeft, LoopsLeft
    <3> QED BY <1>1, <3>1, <3>2
  <2>5. CASE Finish
    <3>1. UNCHANGED <<graph, order, todo, hasResolved>> /\ LoopsLeft' < LoopsLeft
      BY <2>5 DEF Finish, LoopsLeft
    <3>2. UNCHANGED <<VisitsLeft, RolesLeft>>
      BY <3>1 DEF VisitsLeft, RoundsLeft, RolesLeft
    <3> QED BY <1>1, <1>2, <3>1, <3>2
  <2> QED BY <2>1, <2>2, <2>3, <2>4, <2>5 DEF Next
<1>5. /\ VisitsLeft \in Nat /\ RolesLeft \in Nat /\ Len(order) \in Nat /\ LoopsLeft \in Nat
      /\ VisitsLeft' \in Nat /\ RolesLeft' \in Nat /\ Len(order') \in Nat /\ LoopsLeft' \in Nat
  BY <1>1, <1>2, <1>3
<1> QED BY <1>4, <1>5 DEF TurnsLeft

\* What startup takes is bounded before it begins, for every configuration, circular ones
\* included: the turns left are a number, at most (N + 1)(N + 2) for N names, and every
\* turn takes from it.
THEOREM TurnsBounded == Spec => [](TurnsLeft \in 0..MaxTurns) /\ [][TurnsLeft' < TurnsLeft]_vars
<1> DEFINE N == Cardinality(Names)
<1>1. TypeOK => TurnsLeft \in Nat
  <2> SUFFICES ASSUME TypeOK PROVE TurnsLeft \in Nat
    OBVIOUS
  <2>1. /\ Len(order) \in Nat /\ N \in Nat /\ RolesLeft \in Nat /\ Cardinality(todo) \in Nat
        /\ RoundsLeft \in Nat /\ LoopsLeft \in Nat
    BY Counted
  <2>2. VisitsLeft \in Nat
    BY <2>1, RoundWeight DEF VisitsLeft
  <2> QED BY <2>1, <2>2 DEF TurnsLeft
<1>2. Init => TurnsLeft <= MaxTurns
  <2> SUFFICES ASSUME Init PROVE TurnsLeft <= MaxTurns
    OBVIOUS
  <2>1. TypeOK
    BY TypeInit
  <2>2. N \in Nat /\ RolesLeft \in Nat /\ RolesLeft <= N
    BY <2>1, Counted
  <2>3. /\ RoundsLeft = RolesLeft /\ Cardinality(todo) = RolesLeft /\ Len(order) = 0
        /\ LoopsLeft = 2
    BY <2>2 DEF Init, RoundsLeft, RolesLeft, LoopsLeft
  <2>4. TurnsLeft = RolesLeft * (N + 1) + RolesLeft + RolesLeft + 2
    BY <2>2, <2>3, RoundWeight DEF TurnsLeft, VisitsLeft
  <2>5. RolesLeft * (N + 1) <= N * (N + 1) /\ N * (N + 1) \in Nat /\ RolesLeft * (N + 1) \in Nat
    BY <2>2, RoundWeight
  <2>6. MaxTurns = N * (N + 1) + 2 * N + 2
    BY <2>2, SMT DEF MaxTurns
  <2> QED BY <2>2, <2>4, <2>5, <2>6
<1>3. TypeOK /\ TypeOK' /\ [Next]_vars => \/ TurnsLeft' < TurnsLeft
                                          \/ UNCHANGED vars /\ TurnsLeft' = TurnsLeft
  <2>1. UNCHANGED vars => TurnsLeft' = TurnsLeft
    BY DEF vars, TurnsLeft, VisitsLeft, RoundsLeft, RolesLeft, LoopsLeft
  <2> QED BY <2>1, TurnsDecrease
<1>4. Cardinality(Names) \in Nat => MaxTurns \in Nat
  BY SMT DEF MaxTurns
<1> DEFINE Bounded == TurnsLeft <= MaxTurns
<1>5. TypeOK /\ TypeOK' /\ Bounded /\ [Next]_vars => Bounded'
  <2> SUFFICES ASSUME TypeOK, TypeOK', Bounded, [Next]_vars PROVE Bounded'
    OBVIOUS
  <2>1. N \in Nat /\ MaxTurns \in Nat /\ TurnsLeft \in Nat
    BY <1>1, <1>4, Counted
  <2>2. TurnsLeft' \in Nat /\ TurnsLeft' <= TurnsLeft
    <3>1. CASE Next
      BY <2>1, <3>1, TurnsDecrease
    <3>2. CASE UNCHANGED vars
      BY <2>1, <3>2 DEF vars, TurnsLeft, VisitsLeft, RoundsLeft, RolesLeft, LoopsLeft
    <3> QED BY <3>1, <3>2
  <2>3. MaxTurns' = MaxTurns
    BY DEF MaxTurns
  <2> QED BY <2>1, <2>2, <2>3
<1>6. TypeOK /\ Bounded => TurnsLeft \in 0..MaxTurns
  <2> SUFFICES ASSUME TypeOK, Bounded PROVE TurnsLeft \in 0..MaxTurns
    OBVIOUS
  <2>1. N \in Nat
    BY Counted
  <2> QED BY <1>1, <1>4, <2>1
<1>7. Init => Bounded
  BY <1>2
<1> HIDE DEF Bounded
<1> QED BY <1>3, <1>5, <1>6, <1>7, TypeCorrect, PTL DEF Spec
=============================================================================
