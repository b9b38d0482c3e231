---------------------------- MODULE CycleSearch ----------------------------
(***************************************************************************)
(* evaluateCycles (packages/core: law.ts): Tarjan's search for the sets of *)
(* files that import each other.  A call of `visit` is on the calls, with  *)
(* the files it imports that are left to look at; files and imports are    *)
(* taken in any order.  One import may be there twice, so that a file may  *)
(* be looked at again.                                                     *)
(***************************************************************************)
EXTENDS TreeLaw

CONSTANT Graphs   \* sets of runtime imports: pairs of files

ASSUME GraphsAssumption == \A g \in Graphs : IsFiniteSet(NodesOf(g)) /\ g \subseteq NodesOf(g) \X NodesOf(g)

VARIABLES graph,   \* the runtime imports
          index,   \* file -> when it was visited, from 1 on; 0 when it was not
          low,     \* file -> the earliest on the stack that it is known to reach
          stack,   \* the files that are in no set yet, as they were visited
          calls,   \* the files whose visit has not returned
          left,    \* file -> its imports that its visit has not looked at
          cycles   \* the sets that are found

searchVars == <<graph, index, low, stack, calls, left, cycles>>

Nodes == NodesOf(graph)
Imports(v) == {w \in Nodes : <<v, w>> \in graph}
OnStack == {stack[n] : n \in DOMAIN stack}
Visited == {v \in Nodes : index[v] # 0}

SearchInit == /\ graph \in Graphs
              /\ index = [v \in Nodes |-> 0]
              /\ low = index
              /\ left = [v \in Nodes |-> {}]
              /\ stack = << >> /\ calls = << >>
              /\ cycles = {}

Enter(v) == /\ index[v] = 0
            /\ index' = [index EXCEPT ![v] = Cardinality(Visited) + 1]
            /\ low' = [low EXCEPT ![v] = Cardinality(Visited) + 1]
            /\ stack' = Append(stack, v)
            /\ calls' = Append(calls, v)
            /\ left' = [left EXCEPT ![v] = Imports(v)]
            /\ UNCHANGED <<graph, cycles>>

VisitFile == /\ calls = << >>
             /\ \E v \in Nodes : Enter(v)

VisitImport == /\ calls # << >>
               /\ \E v \in left[calls[Len(calls)]] : Enter(v)

Least(m, n) == IF m < n THEN m ELSE n

\* Faulty variant: what was visited counts, also when it is off the stack.
LowOf_NoStack(v, w) == Least(low[v], index[w])

\* An import that was visited before: it counts while it is on the stack.
LowOf(v, w) == IF w \in OnStack THEN Least(low[v], index[w]) ELSE low[v]

LookAt(v) == /\ calls # << >> /\ v = calls[Len(calls)]
             /\ \E w \in Imports(v) : /\ index[w] # 0
                                      /\ low' = [low EXCEPT ![v] = LowOf(v, w)]
                                      /\ left' = [left EXCEPT ![v] = @ \ {w}]
             /\ UNCHANGED <<graph, index, stack, calls, cycles>>

\* A visit returns, to the one that called it if there is one.
Return(v) == /\ calls # << >> /\ v = calls[Len(calls)]
             /\ left[v] = {}
             /\ calls' = SubSeq(calls, 1, Len(calls) - 1)
             /\ IF Len(calls) = 1 THEN UNCHANGED <<low, left>>
                ELSE LET u == calls[Len(calls) - 1] IN
                     /\ low' = [low EXCEPT ![u] = Least(@, low[v])]
                     /\ left' = [left EXCEPT ![u] = @ \ {v}]
             /\ UNCHANGED <<graph, index>>

ReturnToEarlier(v) == /\ Return(v)
                      /\ low[v] # index[v]
                      /\ UNCHANGED <<stack, cycles>>

\* The stack is popped down to v; a set of one file is a cycle when the file imports itself.
ReturnWithSet(v) == LET at == CHOOSE n \in DOMAIN stack : stack[n] = v
                        members == {stack[n] : n \in at .. Len(stack)}
                    IN
                    /\ Return(v)
                    /\ low[v] = index[v]
                    /\ stack' = SubSeq(stack, 1, at - 1)
                    /\ cycles' = IF members # {v} \/ v \in Imports(v) THEN cycles \cup {members} ELSE cycles

SearchNext == \/ VisitFile \/ VisitImport
              \/ \E v \in Nodes : LookAt(v) \/ ReturnToEarlier(v) \/ ReturnWithSet(v)

SearchSpec == SearchInit /\ [][SearchNext]_searchVars
-----------------------------------------------------------------------------
(* Properties.                                                             *)

\* A search that has visited every file has found the sets of files that import each other, all of
\* them and no other, whatever the order in which it went ("One finding per strongly connected set").
CyclesAreFound == calls = << >> /\ Visited = Nodes => cycles = Cycles(graph)
=============================================================================
