--------------------------- MODULE RoleInheritance ---------------------------
(***************************************************************************)
(* ResolveDependants, as NewAuthHandler runs it at startup on the roles of *)
(* the configuration, to give every role the permissions it inherits.      *)
(*                                                                         *)
(* The first loop walks a Go map it deletes from: a round visits the roles *)
(* left in any order, and each at most once.  What a role contributes is   *)
(* represented by the role itself.                                         *)
(***************************************************************************)
EXTENDS Naturals, Sequences, FiniteSets

CONSTANT Names    \* names that can occur in the configuration
ASSUME NamesAssumption == IsFiniteSet(Names)

VARIABLES inherits,    \* inherits[m]: the parents of a role; the roles are its domain
          graph,       \* depsGraph: the roles not resolved yet
          waits,       \* depsGraph[m]: the parents m still waits for
          todo,        \* the roles the running round has still to visit
          hasResolved,
          order,       \* resolvedMods; the second loop consumes it
          resolved,    \* resolved[m]: whose permissions m has
          phase

vars == <<inherits, graph, waits, todo, hasResolved, order, resolved, phase>>

Roles == DOMAIN inherits

Init == /\ \E R \in SUBSET Names : inherits \in [R -> SUBSET Names]
        /\ graph = Roles /\ waits = inherits /\ todo = Roles
        /\ hasResolved = FALSE
        /\ order = << >>
        /\ resolved = [n \in Names |-> {}]
        /\ phase = "rounds"

\* The role leaves the graph, and the roles still in it stop waiting for it.
Resolve(m) == /\ graph' = graph \ {m}
              /\ waits' = [n \in Roles |-> IF n \in graph' THEN waits[n] \ {m} ELSE waits[n]]
              /\ hasResolved' = TRUE

\* Mutant: the newest role goes in front.
Visit_Prepends(m) ==
  /\ phase = "rounds" /\ m \in todo
  /\ todo' = todo \ {m}
  /\ IF waits[m] = {}
     THEN Resolve(m) /\ order' = <<m>> \o order
     ELSE UNCHANGED <<graph, waits, hasResolved, order>>
  /\ UNCHANGED <<inherits, resolved, phase>>

\* One turn of the inner loop.
Visit(m) ==
  /\ phase = "rounds" /\ m \in todo
  /\ todo' = todo \ {m}
  /\ IF waits[m] = {}
     THEN Resolve(m) /\ order' = Append(order, m)
     ELSE UNCHANGED <<graph, waits, hasResolved, order>>
  /\ UNCHANGED <<inherits, resolved, phase>>

\* Mutant: one round has to be enough.
EndRound_Impatient ==
  /\ phase = "rounds" /\ todo = {}
  /\ phase' = IF graph = {} THEN "flatten" ELSE "failed"
  /\ UNCHANGED <<inherits, graph, waits, todo, hasResolved, order, resolved>>

\* Mutant: hasResolved is declared outside the loop.
EndRound_NoReset ==
  /\ phase = "rounds" /\ todo = {}
  /\ IF graph = {} THEN phase' = "flatten" /\ UNCHANGED todo
     ELSE IF hasResolved THEN todo' = graph /\ UNCHANGED phase
     ELSE phase' = "failed" /\ UNCHANGED todo
  /\ UNCHANGED <<inherits, graph, waits, hasResolved, order, resolved>>

\* The end of a round, and the test of the outer loop.
EndRound ==
  /\ phase = "rounds" /\ todo = {}
  /\ IF graph = {} THEN phase' = "flatten" /\ UNCHANGED <<todo, hasResolved>>
     ELSE IF hasResolved THEN todo' = graph /\ hasResolved' = FALSE /\ UNCHANGED phase
     ELSE phase' = "failed" /\ UNCHANGED <<todo, hasResolved>>
  /\ UNCHANGED <<inherits, graph, waits, order, resolved>>

\* One turn of the second loop.
Flatten ==
  LET m == Head(order)
  IN /\ phase = "flatten" /\ order # << >>
     /\ resolved' = [resolved EXCEPT ![m] = {m} \union UNION {resolved[d] : d \in inherits[m]}]
     /\ order' = Tail(order)
     /\ UNCHANGED <<inherits, graph, waits, todo, hasResolved, phase>>

Finish == /\ phase = "flatten" /\ order = << >>
          /\ phase' = "done"
          /\ UNCHANGED <<inherits, graph, waits, todo, hasResolved, order, resolved>>

Next == (\E m \in Roles : Visit(m)) \/ EndRound \/ Flatten \/ Finish

Spec == Init /\ [][Next]_vars
\* The function runs on.
FairSpec == Spec /\ WF_vars(Next)

-----------------------------------------------------------------------------
(* Properties.                                                              *)
\* Every variable has its type.
TypeOK == /\ Roles \subseteq Names /\ inherits \in [Roles -> SUBSET Names]
          /\ graph \subseteq Roles /\ waits \in [Roles -> SUBSET Names]
          /\ todo \subseteq graph
          /\ hasResolved \in BOOLEAN
          /\ order \in Seq(Roles)
          /\ resolved \in [Names -> SUBSET Names]
          /\ phase \in {"rounds", "flatten", "done", "failed"}

IsClosed(C) == \A m \in C \intersect Roles : inherits[m] \subseteq C
\* m and everything it inherits from, directly or not.
Ancestors(m) == {n \in Names : \A C \in SUBSET Names : m \in C /\ IsClosed(C) => n \in C}

\* The result gives each role exactly its own permissions and those of every role it
\* inherits from, directly or not, in whatever order the map was walked.
ResultIsClosure == phase = "done" => \A m \in Roles : resolved[m] = Ancestors(m)

\* None of these roles can be resolved before another of them, or before a role the
\* configuration does not define.
Blocked(S) == \A m \in S : inherits[m] \intersect (S \union (Names \ Roles)) # {}
Unresolvable == \E S \in SUBSET Roles : S # {} /\ Blocked(S)

\* ErrCircularDependency is a function of the configuration, never of the order in which
\* the map was walked: it comes exactly when some roles cannot be resolved.
ErrorIsJustified == /\ phase = "failed" => Unresolvable
                    /\ phase = "done" => ~Unresolvable

\* Startup never hangs on a configuration, a circular one included.
Terminates == <>(phase \in {"done", "failed"})

\* Roles inherit upwards only: the parents of a role are defined, have no permission that
\* the role lacks, and none that is the role's own.
NoCircles == phase = "done" => \A m \in Roles : \A d \in inherits[m] :
                                 d \in Roles /\ resolved[d] \subseteq resolved[m] \ {m}

\* The turns the two loops can still take: a round for every role left, and one more when
\* the running one has resolved a role; the visits the running round still owes; a turn
\* of the second loop for every role; the ends of the loops.
RolesLeft == Cardinality(graph)
RoundsLeft == RolesLeft + (IF hasResolved THEN 1 ELSE 0)
LoopsLeft == CASE phase = "rounds" -> 2 [] phase = "flatten" -> 1 [] OTHER -> 0
VisitsLeft == RoundsLeft * (Cardinality(Names) + 1) + Cardinality(todo)
TurnsLeft == VisitsLeft + RolesLeft + Len(order) + LoopsLeft
MaxTurns == (Cardinality(Names) + 1) * (Cardinality(Names) + 2)

\* The inductive strengthening: a role enters the order once, after all its parents; the
\* roles that left the order have their result; a round that has resolved nothing yet
\* visited roles that wait; roles that block each other are never resolved.
Before(i) == {order[j] : j \in 1..(i - 1)}
Placed == Before(Len(order) + 1)
Flat == Roles \ (graph \union Placed)
InheritanceInv ==
  /\ TypeOK
  /\ \A m \in graph : waits[m] = inherits[m] \ (Roles \ graph)
  /\ Placed \intersect graph = {}
  /\ \A i \in 1..Len(order) : /\ order[i] \notin Before(i)
                             /\ inherits[order[i]] \subseteq Flat \union Before(i)
  /\ \A m \in Flat : resolved[m] = Ancestors(m)
  /\ ~hasResolved => \A m \in graph \ todo : waits[m] # {}
  /\ \A S \in SUBSET Roles : Blocked(S) => S \subseteq graph
  /\ phase = "rounds" => Flat = {}
  /\ phase = "failed" => graph # {} /\ Blocked(graph)
  /\ phase \in {"flatten", "done"} => graph = {}
  /\ phase = "done" => order = << >>
=============================================================================
