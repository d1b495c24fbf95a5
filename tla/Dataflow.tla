------------------------------ MODULE Dataflow ------------------------------
(***************************************************************************)
(* The dataflow engine of the MIR passes (mmcc mir_opt: WorkQueue and       *)
(* Analysis::iterate_to_fixpoint_from): a queue of blocks whose state may   *)
(* not have reached their neighbours yet.  The analyses instantiate it with *)
(* their transfer function and their join.                                  *)
(***************************************************************************)
EXTENDS Naturals, Sequences

CONSTANTS
  Order(_),           \* the blocks of a graph as preferred_traverse lists them
  Neighbours(_, _),   \* the blocks a block's result flows into, one per edge
  Transfer(_, _, _),  \* apply_trans_for_block: graph, block, state at the block
  Join(_, _, _)       \* Domains::join: block, its state, the incoming state

VARIABLES
  graph,  \* what is analysed; fixed while the engine runs
  queue,  \* the WorkQueue: its deque, whose range is its set
  dom,    \* entry_sets
  cur,    \* the block popped last
  state,  \* its state after the transfer
  edges   \* the edges of `cur` that `state` has not been joined along

engine == <<graph, queue, dom, cur, state, edges>>

InSeq(x, s) == \E i \in DOMAIN s : s[i] = x

(* iterate_to_fixpoint: everything preferred_traverse lists is queued. *)
StartEngine(g, bottom) ==
  /\ graph' = g
  /\ queue' = Order(g)
  /\ dom' = bottom
  /\ UNCHANGED <<cur, state, edges>>

Pop ==
  /\ edges = <<>>
  /\ queue # <<>>
  /\ cur' = Head(queue)
  /\ queue' = Tail(queue)
  /\ state' = Transfer(graph, cur', dom[cur'])
  /\ edges' = Neighbours(graph, cur')
  /\ UNCHANGED <<graph, dom>>

(* Broken variant: what was queued once is not queued again. *)
InsertOnce(t) == IF InSeq(t, Order(graph)) THEN queue ELSE Append(queue, t)
(* WorkQueue::insert adds only what its set does not hold. *)
Insert(t) == IF InSeq(t, queue) THEN queue ELSE Append(queue, t)

(* Broken variant: a neighbour is queued whether its state changed or not. *)
FlowAlways ==
  /\ edges # <<>>
  /\ dom' = [dom EXCEPT ![Head(edges)] = Join(Head(edges), @, state)]
  /\ queue' = Insert(Head(edges))
  /\ edges' = Tail(edges)
  /\ UNCHANGED <<graph, cur, state>>
(* join_state_into_successors, one edge at a time. *)
Flow ==
  /\ edges # <<>>
  /\ LET t == Head(edges) IN
       /\ dom' = [dom EXCEPT ![t] = Join(t, @, state)]
       /\ queue' = IF dom'[t] # dom[t] THEN Insert(t) ELSE queue
  /\ edges' = Tail(edges)
  /\ UNCHANGED <<graph, cur, state>>

EngineNext == Pop \/ Flow
AtRest == queue = <<>> /\ edges = <<>>

(* Whatever a block's state says has flowed along each of its edges.        *)
Stable(b) == \A i \in DOMAIN Neighbours(graph, b) :
  LET t == Neighbours(graph, b)[i] IN Join(t, dom[t], Transfer(graph, b, dom[b])) = dom[t]

(* When iterate_to_fixpoint_from returns, entry_sets solves the equations   *)
(* of the analysis at every block that was queued at the start: one that     *)
(* changed late, or along its own back edge, has flowed on.                 *)
FixpointAtRest == AtRest => \A i \in DOMAIN Order(graph) : Stable(Order(graph)[i])
=============================================================================
