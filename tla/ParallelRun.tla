----------------------------- MODULE ParallelRun -----------------------------
(***************************************************************************)
(* One run of a workflow graph by the parallel engine: DagScheduler decides *)
(* what runs next, _execution_loop_parallel launches the ready nodes as     *)
(* tasks, waits for some to finish and processes them one at a time.        *)
(*                                                                         *)
(* A graph is a sequence of edges. The code keys tokens by edge identity;   *)
(* here an edge is its position. A node's output and state write are the    *)
(* node itself: `state` holds the nodes whose write is in the run's state.  *)
(***************************************************************************)
EXTENDS Naturals, Sequences, FiniteSets, SequencesExt

CONSTANTS
    Nodes, Start, Ends, \* the workflow's nodes; where it starts and ends
    Routers,            \* its CONDITION nodes
    Graphs,             \* edge lists a saved workflow may have
    Branches,           \* indices a CONDITION may answer, with or without an edge
    Selected,           \* what an END with state_filter "selected" keeps
    Filters,            \* the state filters of END nodes, from {"all", "selected"}
    MaxSteps,           \* context.max_steps
    MaxNodeExecutions,  \* context.max_node_executions
    NoNode, Plain       \* no END yet; the handle of an edge that no branch selects

ASSUME RunAssumption ==
    /\ IsFiniteSet(Nodes)
    /\ Start \in Nodes \ Ends
    /\ Ends \subseteq Nodes
    /\ Routers \subseteq Nodes \ Ends
    /\ Selected \subseteq Nodes
    /\ \A g \in Graphs : Len(g) \in Nat /\ g = [i \in 1..Len(g) |-> g[i]]
    /\ NoNode \notin Nodes
    /\ Plain \notin Branches
    /\ MaxSteps \in Nat /\ MaxNodeExecutions \in Nat

VARIABLES
    edges,      \* the workflow's edges, in its order
    back,       \* self._back_edges
    tokens,     \* self._tokens: "none", "live" or "dead" on each forward edge
    dead,       \* self._dead
    ready,      \* nodes to launch
    running,    \* launched tasks not yet processed
    done,       \* the part of them asyncio.wait has returned
    steps,      \* context.step_number
    visits,     \* context.node_execution_count
    state,      \* context.state
    rows,       \* step numbers with an execution_steps row
    end,        \* the first END processed
    outcome,    \* "running", "completed" or "failed"
    taken       \* history: the edges a finished node has activated

scheduler == <<edges, back, tokens, dead>>
parallelVars == <<scheduler, ready, running, done, steps, visits, state, rows, end, outcome, taken>>

-----------------------------------------------------------------------------
(* The graph (DagScheduler.__init__). *)

Edge(source, target, handle) == [source |-> source, target |-> target, handle |-> handle]

\* Edges to missing nodes and self-loops are dropped; the source is not looked at.
Valid(e) == e.target \in Nodes /\ e.target # e.source

\* self._edges: the edges the scheduler looks at.
Links(g) == {i \in DOMAIN g : Valid(g[i])}

OutOf(g, n) == {i \in Links(g) : g[i].source = n}

\* _has_parallelism: an AND-split or a join. Here both ends of an edge must exist.
HasParallelism(g) ==
    LET known == {i \in Links(g) : g[i].source \in Nodes}
        targets(n) == {g[i].target : i \in {j \in known : g[j].source = n}}
        sources(n) == {g[i].source : i \in {j \in known : g[j].target = n}}
    IN  \/ \E n \in Nodes \ Routers : Cardinality(targets(n)) >= 2
        \/ \E n \in Nodes : Cardinality(sources(n)) >= 2

-----------------------------------------------------------------------------
(* graph_analysis.py: what the editor is warned of, from the graph alone. *)

\* _valid_edges, _out_adjacency: what the engine follows.
Follows(g) == {<<g[i].source, g[i].target>> :
                  i \in {j \in Links(g) : g[j].source \in Nodes}}

Targets(g, n) == {p[2] : p \in {q \in Follows(g) : q[1] = n}}

\* What can be reached from the nodes of S: the nodes in every set that holds S and that
\* no edge leaves.
Reachable(g, S) ==
    LET next == Follows(g)
        closed == {R \in SUBSET Nodes : S \subseteq R /\ \A p \in next : p[1] \in R => p[2] \in R}
    IN  {n \in Nodes : \A R \in closed : n \in R}

ReachableEnds(g, n) == Reachable(g, {n}) \intersect Ends

\* Mutant: two branches that reach the same ENDs are no danger.
ParallelEndsApart(g) ==
    UNION {UNION {ReachableEnds(g, t) : t \in Targets(g, n)} :
              n \in {m \in Nodes \ Routers :
                        \E t, u \in Targets(g, m) :
                            /\ ReachableEnds(g, t) # {} /\ ReachableEnds(g, u) # {}
                            /\ ReachableEnds(g, t) \intersect ReachableEnds(g, u) = {}}}

\* detect_parallel_ends: at an AND-split two branches reach an END each, and
\* together more than one.
ParallelEnds(g) ==
    LET ends(n) == UNION {ReachableEnds(g, t) : t \in Targets(g, n)}
        splits == {n \in Nodes \ Routers :
                      \E t, u \in Targets(g, n) : /\ t # u
                                                 /\ ReachableEnds(g, t) # {}
                                                 /\ ReachableEnds(g, u) # {}}
    IN  UNION {ends(n) : n \in {m \in splits : Cardinality(ends(m)) >= 2}}

\* _nodes_on_cycle.
OnCycle(g, n) == n \in Reachable(g, Targets(g, n))

\* Mutant: a join is where three branches meet.
JoinsInLoopOfThree(g) ==
    {n \in Nodes : Cardinality({p \in Follows(g) : p[2] = n}) >= 3 /\ OnCycle(g, n)}

\* detect_join_in_loop: joins that the engine cannot synchronise over iterations.
JoinsInLoop(g) ==
    {n \in Nodes : Cardinality({p \in Follows(g) : p[2] = n}) >= 2 /\ OnCycle(g, n)}

LeastOf(S) == CHOOSE i \in S : \A j \in S : i <= j

\* _compute_back_edges: depth-first from START, edges to a node on the stack. Each
\* step tries one edge of the top of the stack or pops it.
Search(g, d) ==
    LET left == OutOf(g, Last(d.stack)) \ d.tried
        i == LeastOf(left)
        t == g[i].target
    IN  IF d.stack = <<>> THEN d
        ELSE IF left = {} THEN [d EXCEPT !.stack = Front(@)]
        ELSE [tried |-> d.tried \union {i},
              back  |-> IF t \in Range(d.stack) THEN d.back \union {i} ELSE d.back,
              stack |-> IF t \in d.seen THEN d.stack ELSE Append(d.stack, t),
              seen  |-> d.seen \union {t}]

BackEdges(g) ==
    LET init == [stack |-> <<Start>>, seen |-> {Start}, tried |-> {}, back |-> {}]
        searched[k \in 0..(Len(g) + Cardinality(Nodes))] ==
            IF k = 0 THEN init ELSE Search(g, searched[k - 1])
    IN  searched[Len(g) + Cardinality(Nodes)].back

ForwardIn(n) == {i \in Links(edges) : edges[i].target = n} \ back

\* Edges in the order of the workflow, each with the token it gets.
WithToken(S, token) ==
    LET upTo[i \in 0..Len(edges)] ==
            IF i = 0 THEN <<>>
            ELSE IF i \in S THEN Append(upTo[i - 1], <<i, token>>) ELSE upTo[i - 1]
    IN  upTo[Len(edges)]

-----------------------------------------------------------------------------
(* DagScheduler.complete. *)

\* Mutant: a node is ready at its first live token.
DeliverEagerly(s) ==
    IF s.todo = <<>> THEN s
    ELSE LET i == Head(s.todo)[1]
             n == edges[i].target
         IN  [s EXCEPT !.todo = Tail(@),
                       !.ready = IF Head(s.todo)[2] # "dead" THEN Append(@, n) ELSE @]

\* _deliver, _maybe_fire and _propagate_dead: the first pending token. A dead node's
\* own edges come before the rest, as in the recursion.
Deliver(s) ==
    IF s.todo = <<>> THEN s ELSE
    LET i == Head(s.todo)[1]
        n == edges[i].target
        held == [s.tokens EXCEPT ![i] = Head(s.todo)[2]]
        gates == ForwardIn(n)
        rest == [s EXCEPT !.todo = Tail(@)]
        fired == [rest EXCEPT !.tokens = [j \in DOMAIN edges |->
                                             IF j \in gates THEN "none" ELSE held[j]]]
    IN  IF i \in back THEN [rest EXCEPT !.ready = Append(@, n)]
        ELSE IF \E j \in gates : held[j] = "none" THEN [rest EXCEPT !.tokens = held]
        ELSE IF \E j \in gates : held[j] = "live" THEN [fired EXCEPT !.ready = Append(@, n)]
        ELSE IF n \in s.dead THEN fired
        ELSE [fired EXCEPT !.dead = @ \union {n},
                           !.todo = WithToken(OutOf(edges, n) \ back, "dead") \o @]

\* The edges a finished node activates: all, or the branch a router chose.
Activated(n, branch) ==
    IF n \in Routers THEN {i \in OutOf(edges, n) : edges[i].handle = branch}
    ELSE OutOf(edges, n)

\* Mutant: the branches a router did not take get no token.
PrunedNone(n, branch) == {}

\* The siblings a router prunes; none while it loops back.
Pruned(n, branch) ==
    IF Activated(n, branch) \intersect back # {} THEN {}
    ELSE (OutOf(edges, n) \ Activated(n, branch)) \ back

\* The scheduler after node n has finished, with the nodes that became ready. An edge
\* gets at most one token from n and one from a dead node.
AfterComplete(n, branch) ==
    LET init == [tokens |-> tokens, dead |-> dead, ready |-> ready,
                 todo |-> WithToken(Activated(n, branch), "live")
                          \o WithToken(Pruned(n, branch), "dead")]
        delivered[k \in 0..(2 * Len(edges))] ==
            IF k = 0 THEN init ELSE Deliver(delivered[k - 1])
    IN  delivered[2 * Len(edges)]

-----------------------------------------------------------------------------
(* _execution_loop_parallel. *)

ParallelInit ==
    /\ edges \in Graphs /\ HasParallelism(edges)
    /\ back = BackEdges(edges)
    /\ tokens = [i \in DOMAIN edges |-> "none"]
    /\ dead = {}
    /\ ready = <<Start>>
    /\ running = {} /\ done = {}
    /\ steps = 0
    /\ visits = [n \in Nodes |-> 0]
    /\ state = {} /\ rows = {}
    /\ end = NoNode
    /\ outcome = "running"
    /\ taken = {}

\* can_execute_node.
CanExecute(n) == steps < MaxSteps /\ visits[n] < MaxNodeExecutions

\* An exception: the tasks are cancelled, the run fails.
Abort ==
    /\ outcome' = "failed"
    /\ running' = {} /\ done' = {} /\ ready' = <<>>

\* Mutant: the number is taken from the rows, not reserved.
LaunchUnnumbered ==
    /\ ready # <<>> /\ done = {}
    /\ CanExecute(Head(ready))
    /\ ready' = Tail(ready)
    /\ running' = running \union {[node |-> Head(ready), step |-> Cardinality(rows),
                                   saw |-> state]}
    /\ steps' = steps + 1
    /\ visits' = [visits EXCEPT ![Head(ready)] = @ + 1]
    /\ UNCHANGED <<scheduler, done, state, rows, end, outcome, taken>>

\* One turn of the launch loop: the task works on the context as it is now.
Launch ==
    /\ ready # <<>> /\ done = {}
    /\ CanExecute(Head(ready))
    /\ ready' = Tail(ready)
    /\ running' = running \union {[node |-> Head(ready), step |-> steps, saw |-> state]}
    /\ steps' = steps + 1
    /\ visits' = [visits EXCEPT ![Head(ready)] = @ + 1]
    /\ UNCHANGED <<scheduler, done, state, rows, end, outcome, taken>>

\* MaxStepsExceededError, NodeExecutionLimitError.
LimitReached ==
    /\ ready # <<>> /\ done = {}
    /\ ~CanExecute(Head(ready))
    /\ Abort
    /\ UNCHANGED <<scheduler, steps, visits, state, rows, end, taken>>

\* asyncio.wait returns the tasks that have finished by now, in no order.
Wait ==
    /\ ready = <<>> /\ done = {}
    /\ \E finished \in SUBSET running : finished # {} /\ done' = finished
    /\ UNCHANGED <<scheduler, ready, running, steps, visits, state, rows, end, outcome, taken>>

\* WorkflowTimeoutError: the global deadline.
Timeout ==
    /\ ready = <<>> /\ done = {} /\ running # {}
    /\ Abort
    /\ UNCHANGED <<scheduler, steps, visits, state, rows, end, taken>>

\* A node raised: record_failed, then NodeExecutionError.
NodeFailed(t) ==
    /\ t \in done
    /\ rows' = rows \union {t.step}
    /\ Abort
    /\ UNCHANGED <<scheduler, steps, visits, state, end, taken>>

Processed(t) ==
    /\ t \in done
    /\ done' = done \ {t} /\ running' = running \ {t}
    /\ rows' = rows \union {t.step}
    /\ UNCHANGED <<edges, back, steps, visits, outcome>>

\* record_completed and routing of a node that is not an END.
NodeCompleted(t) ==
    /\ t.node \notin Ends
    /\ Processed(t)
    /\ state' = state \union {t.node}
    /\ \E branch \in IF t.node \in Routers THEN Branches ELSE {Plain} :
          LET after == AfterComplete(t.node, branch)
          IN  /\ tokens' = after.tokens
              /\ dead' = after.dead
              /\ ready' = after.ready
              /\ taken' = taken \union Activated(t.node, branch)
    /\ UNCHANGED end

\* The first END decides the output. With a filter, the state becomes what that END
\* selected from the context it was launched with.
EndCompleted(t) ==
    /\ t.node \in Ends
    /\ Processed(t)
    /\ IF end = NoNode
       THEN /\ end' = t.node
            /\ \/ "all" \in Filters /\ UNCHANGED state
               \/ "selected" \in Filters /\ state' = t.saw \intersect Selected
       ELSE UNCHANGED <<end, state>>
    /\ UNCHANGED <<tokens, dead, ready, taken>>

\* Nothing ready and nothing running: the loop ends, with or without an END.
Finish ==
    /\ outcome = "running" /\ ready = <<>> /\ running = {}
    /\ outcome' = "completed"
    /\ UNCHANGED <<scheduler, ready, running, done, steps, visits, state, rows, end, taken>>

\* The last disjunct lets TLC tell a run that has ended from one that is stuck:
\* no step can recur (Launch uses up a step number, the others a task or the run), so a run
\* that never deadlocks ends.
ParallelNext ==
    \/ Launch \/ LimitReached \/ Wait \/ Timeout \/ Finish
    \/ \E t \in done : NodeFailed(t) \/ NodeCompleted(t) \/ EndCompleted(t)
    \/ outcome # "running" /\ UNCHANGED parallelVars

ParallelSpec == ParallelInit /\ [][ParallelNext]_parallelVars

-----------------------------------------------------------------------------
(* Properties. *)

Task == [node: Nodes, step: Nat, saw: SUBSET Nodes]

\* The nodes a path from START leads to.
FromStart(g) == Reachable(g, {Start})

\* Edges that gate a node of the run and that no node ever activates or prunes: from
\* an END, or from a node that START does not lead to.
Stray(g) ==
    LET run == FromStart(g)
    IN  {i \in Links(g) : g[i].target \in run /\ (g[i].source \in Ends \/ g[i].source \notin run)}

\* dag_scheduler.py: dead-path elimination prunes branches without a join hanging. A
\* completed run has run exactly the nodes some finished node led to, unless the
\* graph is one that detect_join_in_loop warns of, one with a loop through START, or one
\* with an edge that a join waits for and that never gets a token.
LiveBranchesRun ==
    outcome = "completed" =>
        \/ {n \in Nodes : visits[n] > 0} = {Start} \union {edges[i].target : i \in taken}
        \/ JoinsInLoop(edges) # {}
        \/ \E i \in back : edges[i].target = Start
        \/ Stray(edges) # {}

\* A node starts only when none of its predecessors is still to run or running, and
\* on a graph without loops it runs at most once: its input is complete.
JoinWaits ==
    back = {} =>
        /\ \A n \in Nodes : visits[n] <= 1
        /\ \A i \in Links(edges) :
              visits[edges[i].target] > 0 =>
                  edges[i].source \notin Range(ready) \union {t.node : t \in running}

\* Edges that a node activates together with another one, though it is no AND-split to
\* the analysis: of one handle of a CONDITION, or to one target.
Twins(g) ==
    {i \in Links(g) : \E j \in Links(g) \ {i} :
        /\ g[j].source = g[i].source
        /\ IF g[i].source \in Routers THEN g[j].handle = g[i].handle ELSE g[j].target = g[i].target}

\* graph_analysis.py, detect_parallel_ends: on a graph it has nothing to say of, no
\* END is silently ignored because another one has finished first. Provided that each
\* branch of a CONDITION is one edge, and that no other node has two edges to one node: a
\* loop that is closed twice runs twice from there on.
UnflaggedEndIsAlone ==
    outcome = "completed" /\ Cardinality({n \in Ends : visits[n] > 0}) > 1 =>
        ParallelEnds(edges) # {} \/ Twins(edges) # {}

\* workflow_executor.py: a completed run has a step row for every node execution,
\* however the tasks overlapped (a taken number would be skipped by has_step).
StepsRecorded ==
    outcome = "completed" => rows = 0..(steps - 1)

=============================================================================
