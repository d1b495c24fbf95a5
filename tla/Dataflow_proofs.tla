--------------------------- MODULE Dataflow_proofs ---------------------------
(***************************************************************************)
(* Proofs about the dataflow engine of the MIR passes: whatever the analysis, *)
(* if its join only adds, the engine stops at a solution of its equations.   *)
(***************************************************************************)
EXTENDS Dataflow, Domains, TLAPS

(* The analysis of this graph, which the engine does not change, stays among *)
(* the blocks B and the states D.  It does for the two analyses of the MIR:  *)
(* GraphOrder lists blocks of cfg and PredNeighbours their predecessors, so  *)
(* B is DOMAIN cfg; ReachTransfer gives Reachable or the state it got, and   *)
(* GhostTransfer adds variables of the procedure and names the block.        *)
Closed(B, D) ==
  /\ Order(graph) \in Seq(B)
  /\ \A b \in B : Neighbours(graph, b) \in Seq(B)
  /\ \A b \in B, d \in D : Transfer(graph, b, d) \in D

(* The engine on a graph with the blocks B and states in D, as StartEngine   *)
(* leaves it.                                                               *)
EngineInit(B, D) ==
  /\ Closed(B, D)
  /\ queue = Order(graph) /\ edges = <<>> /\ dom \in [B -> D]
EngineSpec(B, D) == EngineInit(B, D) /\ [][EngineNext]_engine

Absorbed(n, s) == Join(n, dom[n], s) = dom[n]

(* The block at work: its state is the one its entry state has, and every    *)
(* edge it has left is still to be flowed along or has absorbed that state.  *)
InWork(b) ==
  /\ b = cur
  /\ state = Transfer(graph, b, dom[b])
  /\ \A i \in DOMAIN Neighbours(graph, b) :
       InSeq(Neighbours(graph, b)[i], edges) \/ Absorbed(Neighbours(graph, b)[i], state)

Types(B, D) ==
  /\ dom \in [B -> D]
  /\ queue \in Seq(B)
  /\ edges \in Seq(B)
  /\ edges # <<>> => state \in D

Pending == \A i \in DOMAIN Order(graph) :
  LET b == Order(graph)[i] IN InSeq(b, queue) \/ Stable(b) \/ InWork(b)

EngineInv(B, D) == Closed(B, D) /\ Types(B, D) /\ Pending

(* What Domains::join must satisfy on the states D: joining twice is joining  *)
(* once, and what a state has absorbed stays absorbed when it grows.         *)
Laws(J(_, _, _), B, D) ==
  /\ \A p \in B : \A d, e \in D : J(p, d, e) \in D /\ J(p, J(p, d, e), e) = J(p, d, e)
  /\ \A p \in B : \A d, e, f \in D : J(p, d, e) = d => J(p, J(p, d, f), e) = J(p, d, f)
JoinLaws(B, D) == Laws(Join, B, D)

LEMMA InTail ==
  ASSUME NEW S, NEW s \in Seq(S), s # <<>>, NEW x, InSeq(x, s)
  PROVE  x = Head(s) \/ InSeq(x, Tail(s))
<1>1. PICK i \in DOMAIN s : s[i] = x  BY DEF InSeq
<1>2. CASE i = 1  BY <1>1, <1>2
<1>3. CASE i # 1
  <2>1. i - 1 \in DOMAIN Tail(s) /\ Tail(s)[i - 1] = x  BY <1>1, <1>3
  <2> QED  BY <2>1 DEF InSeq
<1> QED  BY <1>2, <1>3

LEMMA InInsert ==
  ASSUME NEW S, queue \in Seq(S), NEW t \in S
  PROVE  /\ Insert(t) \in Seq(S)
         /\ InSeq(t, Insert(t))
         /\ \A x : InSeq(x, queue) => InSeq(x, Insert(t))
<1>1. CASE InSeq(t, queue)  BY <1>1 DEF Insert
<1>2. CASE ~InSeq(t, queue)
  <2>1. Insert(t) = Append(queue, t)  BY <1>2 DEF Insert
  <2>2. Len(queue) + 1 \in DOMAIN Append(queue, t) /\ Append(queue, t)[Len(queue) + 1] = t  OBVIOUS
  <2>3. \A i \in DOMAIN queue : i \in DOMAIN Append(queue, t) /\ Append(queue, t)[i] = queue[i]  OBVIOUS
  <2> QED  BY <2>1, <2>2, <2>3 DEF InSeq
<1> QED  BY <1>1, <1>2

LEMMA InitHolds ==
  ASSUME NEW B, NEW D, EngineInit(B, D)
  PROVE  EngineInv(B, D)
<1>1. Types(B, D)  BY DEF EngineInit, Types, Closed
<1>2. Pending  BY DEF EngineInit, Pending, InSeq
<1> QED  BY <1>1, <1>2 DEF EngineInv, EngineInit

LEMMA PopHolds ==
  ASSUME NEW B, NEW D, EngineInv(B, D), Pop
  PROVE  EngineInv(B, D)'
<1>1. Head(queue) \in B /\ Tail(queue) \in Seq(B) /\ dom[Head(queue)] \in D
  BY DEF EngineInv, Types, Pop
<1>2. Types(B, D)'  BY <1>1 DEF EngineInv, Types, Pop, Closed
<1>3. ASSUME NEW i \in DOMAIN Order(graph)
      PROVE  LET b == Order(graph)[i] IN InSeq(b, queue') \/ Stable(b)' \/ InWork(b)'
  <2> DEFINE b == Order(graph)[i]
  <2>1. InSeq(b, queue) \/ Stable(b) \/ InWork(b)  BY DEF EngineInv, Pending
  <2>2. CASE InSeq(b, queue)
    <3>1. b = Head(queue) \/ InSeq(b, Tail(queue))  BY <2>2, InTail DEF EngineInv, Types, Pop
    <3>2. CASE b = Head(queue)
      <4>1. b = cur' /\ state' = Transfer(graph, b, dom[b]) /\ edges' = Neighbours(graph, b)  BY <3>2 DEF Pop
      <4>2. \A j \in DOMAIN Neighbours(graph, b) : InSeq(Neighbours(graph, b)[j], edges')  BY <4>1 DEF InSeq
      <4> QED  BY <4>1, <4>2 DEF InWork, Pop
    <3> QED  BY <3>1, <3>2 DEF Pop
  <2>3. CASE Stable(b)  BY <2>3 DEF Stable, Pop
  <2>4. CASE InWork(b)
    <3>1. \A x : ~InSeq(x, edges)  BY DEF InSeq, Pop
    <3>2. Stable(b)  BY <2>4, <3>1 DEF InWork, Stable, Absorbed
    <3> QED  BY <3>2 DEF Stable, Pop
  <2> QED  BY <2>1, <2>2, <2>3, <2>4
<1>4. Pending'  BY <1>3 DEF Pending, Pop
<1>5. Closed(B, D)'  BY DEF EngineInv, Closed, Pop
<1> QED  BY <1>2, <1>4, <1>5 DEF EngineInv

LEMMA FlowHolds ==
  ASSUME NEW B, NEW D, JoinLaws(B, D), EngineInv(B, D), Flow
  PROVE  EngineInv(B, D)'
<1> DEFINE t == Head(edges)
<1>1. t \in B /\ Tail(edges) \in Seq(B) /\ state \in D /\ dom \in [B -> D] /\ queue \in Seq(B)
  BY DEF EngineInv, Types, Flow
<1>2. /\ dom'[t] = Join(t, dom[t], state)
      /\ \A b \in B \ {t} : dom'[b] = dom[b]
      /\ dom' \in [B -> D]
  BY <1>1 DEF Flow, JoinLaws, Laws
<1>3. /\ queue' \in Seq(B)
      /\ \A x : InSeq(x, queue) => InSeq(x, queue')
      /\ dom'[t] # dom[t] => InSeq(t, queue')
  BY <1>1, InInsert DEF Flow
<1>4. Types(B, D)'  BY <1>1, <1>2, <1>3 DEF Types, Flow
(* The edge is done: its target has absorbed the state. *)
<1>5. Join(t, dom'[t], state) = dom'[t]  BY <1>1, <1>2 DEF JoinLaws, Laws
(* What a target had absorbed it still has. *)
<1>6. ASSUME NEW n \in B, NEW s \in D, Join(n, dom[n], s) = dom[n]
      PROVE  Join(n, dom'[n], s) = dom'[n]
  <2>1. CASE n = t  BY <1>1, <1>2, <1>6, <2>1 DEF JoinLaws, Laws
  <2>2. CASE n # t  BY <1>2, <1>6, <2>2
  <2> QED  BY <2>1, <2>2
<1>7. ASSUME NEW i \in DOMAIN Order(graph)
      PROVE  LET b == Order(graph)[i] IN InSeq(b, queue') \/ Stable(b)' \/ InWork(b)'
  <2> DEFINE b == Order(graph)[i]
  <2>1. InSeq(b, queue) \/ Stable(b) \/ InWork(b)  BY DEF EngineInv, Pending
  <2>2. b \in B /\ Neighbours(graph, b) \in Seq(B)  BY DEF EngineInv, Closed
  <2>3. \A j \in DOMAIN Neighbours(graph, b) : Neighbours(graph, b)[j] \in B  BY <2>2
  <2>4. CASE InSeq(b, queue)  BY <2>4, <1>3
  <2>5. CASE dom'[b] # dom[b]
    <3>1. b = t  BY <2>2, <2>5, <1>2
    <3> QED  BY <3>1, <2>5, <1>3
  <2>6. CASE Stable(b) /\ dom'[b] = dom[b]
    <3>1. Transfer(graph, b, dom[b]) \in D  BY <1>1, <2>2 DEF EngineInv, Closed
    <3> QED  BY <2>3, <2>6, <3>1, <1>6 DEF Stable, Flow
  <2>7. CASE InWork(b) /\ dom'[b] = dom[b]
    <3>1. ASSUME NEW j \in DOMAIN Neighbours(graph, b)
          PROVE  LET n == Neighbours(graph, b)[j] IN InSeq(n, edges') \/ Join(n, dom'[n], state) = dom'[n]
      <4> DEFINE n == Neighbours(graph, b)[j]
      <4>1. InSeq(n, edges) \/ Absorbed(n, state)  BY <2>7 DEF InWork
      <4>2. CASE InSeq(n, edges)
        <5>1. n = t \/ InSeq(n, Tail(edges))  BY <4>2, InTail DEF EngineInv, Types, Flow
        <5> QED  BY <5>1, <1>5 DEF Flow
      <4>3. CASE Absorbed(n, state)  BY <4>3, <2>3, <1>1, <1>6 DEF Absorbed
      <4> QED  BY <4>1, <4>2, <4>3
    <3> QED  BY <2>7, <3>1 DEF InWork, Absorbed, Flow
  <2> QED  BY <2>1, <2>4, <2>5, <2>6, <2>7
<1>8. Pending'  BY <1>7 DEF Pending, Flow
<1>9. Closed(B, D)'  BY DEF EngineInv, Closed, Flow
<1> QED  BY <1>4, <1>8, <1>9 DEF EngineInv

LEMMA AtRestSolved ==
  ASSUME NEW B, NEW D, EngineInv(B, D)
  PROVE  FixpointAtRest
<1> SUFFICES ASSUME AtRest, NEW i \in DOMAIN Order(graph)
             PROVE  Stable(Order(graph)[i])
  BY DEF FixpointAtRest
<1>1. \A x : ~InSeq(x, queue) /\ ~InSeq(x, edges)  BY DEF AtRest, InSeq
<1> QED  BY <1>1 DEF EngineInv, Pending, Stable, InWork, Absorbed

(* What a state still has to pass on is never forgotten: its block is queued,  *)
(* stable or at work with the edges it has left.                             *)
THEOREM EngineInductive ==
  ASSUME NEW B, NEW D, JoinLaws(B, D)
  PROVE  EngineSpec(B, D) => []EngineInv(B, D)
<1>1. EngineInit(B, D) => EngineInv(B, D)  BY InitHolds
<1>2. EngineInv(B, D) /\ [EngineNext]_engine => EngineInv(B, D)'
  <2> SUFFICES ASSUME EngineInv(B, D), [EngineNext]_engine PROVE EngineInv(B, D)'  OBVIOUS
  <2>1. CASE Pop  BY <2>1, PopHolds
  <2>2. CASE Flow  BY <2>2, FlowHolds
  <2>3. CASE UNCHANGED engine
    BY <2>3 DEF engine, EngineInv, Closed, Types, Pending, InSeq, Stable, InWork, Absorbed
  <2> QED  BY <2>1, <2>2, <2>3 DEF EngineNext
<1> QED  BY <1>1, <1>2, PTL DEF EngineSpec

(* iterate_to_fixpoint_from solves the equations of the analysis: on every   *)
(* graph on which the analysis stays among its blocks and states, and for    *)
(* every join that obeys the laws, each block queued at the start is stable  *)
(* when the queue has run empty, in whatever order blocks were queued, and   *)
(* also along an edge from a block to itself.                                *)
THEOREM EngineSolves ==
  ASSUME NEW B, NEW D, JoinLaws(B, D)
  PROVE  EngineSpec(B, D) => []FixpointAtRest
<1>1. EngineInv(B, D) => FixpointAtRest  BY AtRestSolved
<1> QED  BY <1>1, EngineInductive, PTL

(* What a step of the engine brings: it joins the state at work into one     *)
(* block, which makes that block's state another, or it leaves the states    *)
(* and takes from the queue, or it leaves both and takes from the edges.     *)
EngineProgress ==
  IF dom' # dom
  THEN \E t \in DOMAIN dom : /\ dom' = [dom EXCEPT ![t] = Join(t, dom[t], state)]
                             /\ dom'[t] # dom[t]
  ELSE Len(queue') < Len(queue) \/ (queue' = queue /\ Len(edges') < Len(edges))

LEMMA TailIsShorter ==
  ASSUME NEW S, NEW s \in Seq(S), s # <<>>
  PROVE  Len(Tail(s)) < Len(s)
OBVIOUS

(* Every step is progress: a block is queued again only for a change of its  *)
(* state. With the two theorems on the joins below, by which a state that     *)
(* changes climbs and can do so only finitely often, the loop of             *)
(* iterate_to_fixpoint_from has a measure that decreases at every step.      *)
THEOREM EngineAlwaysProgresses ==
  ASSUME NEW B, NEW D, JoinLaws(B, D)
  PROVE  EngineSpec(B, D) => [][EngineProgress]_engine
<1>1. ASSUME EngineInv(B, D), Pop PROVE EngineProgress
  <2>1. dom' = dom /\ queue' = Tail(queue) /\ queue # <<>>  BY <1>1 DEF Pop
  <2>2. Len(Tail(queue)) < Len(queue)  BY <1>1, <2>1, TailIsShorter DEF EngineInv, Types
  <2> QED  BY <2>1, <2>2 DEF EngineProgress
<1>2. ASSUME EngineInv(B, D), Flow PROVE EngineProgress
  <2> DEFINE t == Head(edges)
  <2>1. t \in B /\ dom \in [B -> D]  BY <1>2 DEF EngineInv, Types, Flow
  <2>2. dom' = [dom EXCEPT ![t] = Join(t, dom[t], state)] /\ edges' = Tail(edges)  BY <1>2 DEF Flow
  <2>3. dom'[t] = dom[t] => dom' = dom /\ queue' = queue  BY <1>2, <2>1, <2>2 DEF Flow
  <2>4. Len(Tail(edges)) < Len(edges)  BY <1>2, TailIsShorter DEF EngineInv, Types, Flow
  <2>5. t \in DOMAIN dom  BY <2>1
  <2> HIDE DEF t
  <2> QED  BY <2>2, <2>3, <2>4, <2>5 DEF EngineProgress
<1>3. EngineInv(B, D) /\ [EngineNext]_engine => [EngineProgress]_engine
  BY <1>1, <1>2 DEF EngineNext
<1> QED  BY <1>3, EngineInductive, PTL DEF EngineSpec

(* Reachability's join obeys the laws. *)
THEOREM ReachJoinLaws ==
  ASSUME NEW B
  PROVE  Laws(ReachJoin, B, {Dead, Unreachable, Reachable})
BY DEF Laws, ReachJoin, Dead, Unreachable, Reachable

(* So does ghost propagation's, which is no least upper bound: which block a  *)
(* state names depends on where and in what order states met.                *)
THEOREM GhostJoinLaws ==
  ASSUME NEW V
  PROVE  Laws(GhostJoin, Nat \ {0}, [active : Nat, vars : SUBSET V])
<1> DEFINE D == [active : Nat, vars : SUBSET V]
           W(d, e) == d.vars \union e.vars
           A(p, d, e) == IF d.active = 0 THEN e.active
                         ELSE IF e.active # 0 /\ d.active # e.active THEN p ELSE d.active
<1>1. ASSUME NEW p \in Nat \ {0}, NEW d \in D, NEW e \in D
      PROVE  GhostJoin(p, d, e) = [vars |-> W(d, e), active |-> A(p, d, e)] /\ GhostJoin(p, d, e) \in D
  BY DEF GhostJoin
<1>2. ASSUME NEW p \in Nat \ {0}, NEW d \in D, NEW e \in D
      PROVE  GhostJoin(p, GhostJoin(p, d, e), e) = GhostJoin(p, d, e)
  <2> DEFINE m == GhostJoin(p, d, e)
  <2>1. m \in D /\ m.vars = W(d, e) /\ m.active = A(p, d, e)  BY <1>1, SMTT(60)
  <2>2. W(m, e) = m.vars  BY <2>1
  <2>3. A(p, m, e) = m.active  BY <2>1
  <2>4. GhostJoin(p, m, e) = [vars |-> W(m, e), active |-> A(p, m, e)]  BY <1>1, <2>1
  <2>5. m = [vars |-> m.vars, active |-> m.active]  BY <2>1
  <2> QED  BY <2>2, <2>3, <2>4, <2>5
<1>3. ASSUME NEW p \in Nat \ {0}, NEW d \in D, NEW e \in D, NEW f \in D, GhostJoin(p, d, e) = d
      PROVE  GhostJoin(p, GhostJoin(p, d, f), e) = GhostJoin(p, d, f)
  <2> DEFINE m == GhostJoin(p, d, f)
  <2>1. m \in D /\ m.vars = W(d, f) /\ m.active = A(p, d, f)  BY <1>1
  <2>2. d.vars = W(d, e) /\ d.active = A(p, d, e)  BY <1>1, <1>3
  <2>3. W(m, e) = m.vars  BY <2>1, <2>2
  <2>4. A(p, m, e) = m.active  BY <2>1, <2>2
  <2>5. GhostJoin(p, m, e) = [vars |-> W(m, e), active |-> A(p, m, e)]  BY <1>1, <2>1
  <2>6. m = [vars |-> m.vars, active |-> m.active]  BY <2>1
  <2> QED  BY <2>3, <2>4, <2>5, <2>6
<1> HIDE DEF W, A
<1> QED  BY <1>1, <1>2, <1>3 DEF Laws

(* A state of the reachability analysis that changes climbs: Dead,           *)
(* Unreachable, Reachable, and no further.                                   *)
THEOREM ReachJoinClimbs ==
  ASSUME NEW b, NEW d \in {Dead, Unreachable, Reachable}, NEW e \in {Dead, Unreachable, Reachable},
         ReachJoin(b, d, e) # d
  PROVE  d < ReachJoin(b, d, e)
BY DEF ReachJoin, Dead, Unreachable, Reachable

(* Why a branch matters: for nothing, for a reason elsewhere, for one here.  *)
Rank(p, d) == IF d.active = 0 THEN 0 ELSE IF d.active = p THEN 2 ELSE 1

(* A state of ghost propagation that changes climbs, although its join gives *)
(* no least upper bound: it gets variables or a higher rank and loses neither, *)
(* so it changes at most twice beside the variables that it gets.            *)
THEOREM GhostJoinClimbs ==
  ASSUME NEW V, NEW p \in Nat \ {0},
         NEW d \in [active : Nat, vars : SUBSET V], NEW e \in [active : Nat, vars : SUBSET V],
         GhostJoin(p, d, e) # d
  PROVE  LET m == GhostJoin(p, d, e) IN
         /\ d.vars \subseteq m.vars
         /\ Rank(p, d) <= Rank(p, m)
         /\ d.vars # m.vars \/ Rank(p, d) < Rank(p, m)
<1>1. PICK m : m = GhostJoin(p, d, e)  OBVIOUS
<1>2. /\ m.vars = d.vars \union e.vars
      /\ m.active = IF d.active = 0 THEN e.active
                    ELSE IF e.active # 0 /\ d.active # e.active THEN p ELSE d.active
      /\ m = [vars |-> m.vars, active |-> m.active]
  BY <1>1 DEF GhostJoin
<1>3. d.vars # m.vars \/ d.active # m.active
  <2>1. d = [vars |-> d.vars, active |-> d.active]  OBVIOUS
  <2> QED  BY <1>1, <1>2, <2>1
<1>4. d.active \in Nat /\ e.active \in Nat  OBVIOUS
<1>5. Rank(p, d) <= Rank(p, m) /\ (d.active # m.active => Rank(p, d) < Rank(p, m))
  BY <1>2, <1>4 DEF Rank
<1> QED  BY <1>1, <1>2, <1>3, <1>5

=============================================================================
