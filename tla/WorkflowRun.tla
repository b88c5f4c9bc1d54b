------------------------------ MODULE WorkflowRun ------------------------------
(***************************************************************************)
(* The turns of a conversation, each a run of the sequential engine over   *)
(* the workflow's graph: preparation, the loop over the nodes with a       *)
(* checkpoint after each, finalization or the error path. A queued run may *)
(* lose its worker at any step and is then resumed from its trace; an      *)
(* audio turn always runs in the request. Stored keys may be deleted       *)
(* meanwhile.                                                              *)
(*                                                                         *)
(* The workflows are those the code gives to this engine: graphs with a    *)
(* fork or a join go to the parallel one, which ParallelRun models.        *)
(* ExecutionQueue models how a run is delivered and ChatRuns how runs      *)
(* overlap; here one run is alive at a time and its nodes are real.        *)
(***************************************************************************)
EXTENDS NodeBehaviour

CONSTANTS
    Workflows,    \* records: node (id -> configuration), edges, greets, hears;
                  \* an edge is <<source, branch, target>>
    StateSchema,  \* the workflow's variables: name -> type and default value
    ProjectSchema,\* the project's, likewise
    ClientState,  \* the client's project state at the beginning; <<>>: no session yet
    Overrides,    \* variables a request may set: functions from names to values
    ReadAs,       \* what a text reads as when it is parsed as a number or as JSON
    HistoryLimit, \* messages of the chat that a run loads
    TurnKinds,    \* of turns: "text", "audio"
    MaxTurns, MaxCrashes, MaxDeleted, \* bounds
    MaxSteps, MaxNodeRuns             \* max_steps, max_node_executions

\* _has_parallelism: a fork, which is a node other than a condition with two
\* successors, or a join. Branches, and loops back to START, are neither.
HasParallelism(w) ==
    LET ways == {<<w.edges[i][1], w.edges[i][3]>> : i \in DOMAIN w.edges}
        real == {way \in ways : way[1] # way[2] /\ {way[1], way[2]} \subseteq DOMAIN w.node}
    IN \E p, q \in real :
          \/ p[1] = q[1] /\ p[2] # q[2] /\ w.node[p[1]].type # "condition"
          \/ p[2] = q[2] /\ p[1] # q[1]

ASSUME RunAssumption ==
    /\ TurnKinds \subseteq {"text", "audio"}
    /\ {MaxTurns, MaxCrashes, MaxDeleted, MaxSteps, MaxNodeRuns, HistoryLimit} \subseteq Nat
    /\ \A w \in Workflows : \A n \in DOMAIN w.node : Fits(w.node[n])
    /\ \A w \in Workflows : "none" \notin DOMAIN w.node /\ ~HasParallelism(w)
    /\ \A w \in Workflows :
         Cardinality({n \in DOMAIN w.node : w.node[n].type = "start"}) = 1

VARIABLES
    workflow,  \* the one published, fixed during a behaviour
    turn,      \* the request being served: kind, queued, fresh, input
    turns,     \* how many there were
    phase,     \* idle, asked, looping, recording, stuck, finalizing
    prepared,  \* the context as the preparation phase left it
    ctx,       \* the context as the loop carries it
    at,        \* the node to run, or that has run
    previous,  \* output of the node before it
    out,       \* the outcome of the node that has run
    trace,     \* the execution's rows in execution_steps, by step number
    row,       \* the execution's row: status, output, bill and what it reports
    chats,     \* chat sessions as the run's transaction sees them: state, messages, active
    stored,    \* the same, as last committed
    client,    \* project state of the client's session
    live,      \* stored keys that still exist
    before,    \* history: chats and client when the turn was asked
    spent,     \* history: what the run really used since it was (re)started, on whose key
    mixed,     \* history: a model answered on another kind of key than the first's
    endLost,   \* history: its worker died between the last checkpoint and the end
    crashes

runVars  == <<prepared, ctx, at, previous, out>>
rowVars  == <<trace, row>>
talkVars == <<chats, stored, client>>
pastVars == <<before, spent, mixed, endLost, crashes>>
turnVars == <<workflow, turn, turns, phase, prepared, ctx, at, previous, out, trace, row,
              chats, stored, client, live, before, spent, mixed, endLost, crashes>>

NoNode == "none"

\* A new session has the schema's bare defaults, null where there is none.
Chat == [state    |-> [v \in DOMAIN StateSchema |-> StateSchema[v].default],
         messages |-> <<>>, active |-> TRUE]
From(role, content) == [role |-> role, content |-> content]
LastOnes(messages, n) ==
    IF Len(messages) <= n THEN messages ELSE SubSeq(messages, Len(messages) - n + 1, Len(messages))

NoRow == [status |-> "none", output |-> <<>>, state |-> <<>>, bill |-> NoCost,
          steps |-> 0, closed |-> FALSE, chat |-> 0]

NoTurn == [kind |-> "text", queued |-> FALSE, fresh |-> FALSE, set |-> <<>>, input |-> <<>>]

-----------------------------------------------------------------------------
(* GraphNavigator. The branch of an edge is -1 for the only handle of a node *)
(* that is no condition.                                                     *)

Node(n) == workflow.node[n]

FindStartNode(w) == CHOOSE n \in DOMAIN w.node : w.node[n].type = "start"

\* find_next_node: the first edge that leads to another, existing node; from a
\* condition, one that leaves its branch.
FindNextNode(w, n, index) ==
    LET fits == SelectSeq(w.edges,
                          LAMBDA e : /\ e[1] = n /\ e[3] # n
                                     /\ e[3] \in DOMAIN w.node
                                     /\ index = -1 \/ e[2] = index)
    IN IF fits = <<>> THEN NoNode ELSE fits[1][3]

Completed(steps) == {i \in DOMAIN steps : steps[i].status = "COMPLETED"}

\* Mutant: resume takes the first edge of a condition.
ResumeUnrouted(steps) ==
    LET s == Newest(Completed(steps), steps) IN [node |-> s.node, index |-> -1, step |-> s]

\* find_resume_point: the newest completed step, with the branch it chose.
ResumePoint(steps) ==
    LET s == Newest(Completed(steps), steps)
    IN [node |-> s.node, index |-> BranchIndex(s.type, s.output), step |-> s]

\* with_chat_history, with_user_turn.
Heard(history, o) ==
    history \o (IF o.says = Null THEN <<>> ELSE <<From("assistant", o.says)>>)
            \o (IF o.hears = Null THEN <<>> ELSE <<From("user", o.hears)>>)

\* record_completed: the node's outputs folded into the context.
Folded(c, o) ==
    [c EXCEPT !.state = o.state @@ @, !.project = o.project @@ @,
              !.history = Heard(@, o), !.said = IF o.says = Null THEN @ ELSE o.says,
              !.cost = Adding(@, o.bill)]

Visited(c, n) ==
    [c EXCEPT !.step = @ + 1,
              !.visits = n :> (IF n \in DOMAIN @ THEN @[n] + 1 ELSE 1) @@ @]

CanExecute(c, n) ==
    c.step < MaxSteps /\ (n \in DOMAIN c.visits => c.visits[n] < MaxNodeRuns)

\* log_step behind has_step: a step number is written once.
Logged(steps, step) ==
    IF \E i \in DOMAIN steps : steps[i].number = step.number THEN steps ELSE Append(steps, step)

StepRow(n, c, status, output, state) ==
    [number |-> c.step, node |-> n, type |-> Node(n).type, status |-> status,
     output |-> output, earlier |-> c.state, state |-> state]

-----------------------------------------------------------------------------
(* The variables a run starts with. *)

\* get_typed_default_value: what a variable of the project is without a default.
TypedDefault(var) ==
    IF var.default # Null THEN var.default
    ELSE CASE var.type = "number"  -> Num(0)
           [] var.type = "boolean" -> Bool(FALSE)
           [] var.type = "object"  -> Dict(<<>>)
           [] OTHER                -> Text("")

\* get_or_create_by_client_id, sync_schema: variables the schema has and the
\* client has not are added, none is changed or removed.
Synced(state) ==
    [v \in DOMAIN state \cup DOMAIN ProjectSchema |->
        IF v \in DOMAIN state THEN state[v] ELSE TypedDefault(ProjectSchema[v])]

\* coerce_to_type: a value that does not fit the declared type is kept as it is.
Coerced(value, type) ==
    LET text == "text" \in DOMAIN value
        read == IF text /\ value.text \in DOMAIN ReadAs THEN ReadAs[value.text] ELSE Broken
    IN IF value = Null THEN value ELSE
       CASE type = "string" -> Str(value)
         [] type = "number" /\ "bool" \in DOMAIN value -> Num(IF value.bool THEN 1 ELSE 0)
         [] type = "number" /\ IsNum(read) -> read
         [] type = "boolean" /\ IsNum(value) -> Bool(value.num # 0)
         [] type = "boolean" /\ text /\ value.text \in {"true", "1", "yes"} -> Bool(TRUE)
         [] type = "boolean" /\ text /\ value.text \in {"false", "0", "no", ""} -> Bool(FALSE)
         [] type = "object" /\ IsDict(read) -> read
         [] OTHER -> value

\* _merge_with_coercion: a name the schema does not have is taken as it comes.
Overridden(state, set, schema) ==
    [v \in DOMAIN set |-> IF v \in DOMAIN schema THEN Coerced(set[v], schema[v].type)
                          ELSE set[v]] @@ state

\* A session asked for is opened, greeting first, each time the run is prepared.
Opened ==
    LET greeting == IF workflow.greets THEN <<From("assistant", Text("greeting"))>> ELSE <<>>
    IN IF turn.fresh THEN Append(chats, [Chat EXCEPT !.messages = greeting]) ELSE chats

\* get_chat_history, then the user's message unless it is empty.
History(messages) ==
    LastOnes(messages, HistoryLimit)
    \o (IF Truthy(turn.input.message) THEN <<From("user", turn.input.message)>> ELSE <<>>)

-----------------------------------------------------------------------------
TurnInit ==
    /\ workflow \in Workflows
    /\ turn = NoTurn /\ turns = 0 /\ phase = "idle"
    /\ prepared = <<>> /\ ctx = <<>> /\ at = NoNode /\ previous = <<>> /\ out = Failing
    /\ trace = <<>> /\ row = NoRow
    /\ chats = <<Chat>> /\ client = ClientState /\ live = Credentials
    /\ stored = [chats |-> <<Chat>>, client |-> ClientState]
    /\ before = [chats |-> <<Chat>>, client |-> ClientState]
    /\ spent = NoCost /\ mixed = FALSE /\ endLost = FALSE /\ crashes = 0

\* Audio is refused by a workflow that does not accept it and by the queue.
AcceptsAudio(queued) == workflow.hears /\ ~queued

\* _build_input_data; an audio turn arrives without text.
Input(kind) == [message    |-> Text(IF kind = "audio" THEN "" ELSE "question"),
                input_type |-> Text(kind)]

\* The request, for a session of its own or the one there is: that it was ended
\* is nothing the endpoint asks.
Ask(kind, queued, fresh, set) ==
    /\ phase = "idle"
    /\ turns < MaxTurns
    /\ kind = "audio" => AcceptsAudio(queued)
    /\ turn' = [kind |-> kind, queued |-> queued, fresh |-> fresh, set |-> set,
                input |-> Input(kind)]
    /\ turns' = turns + 1
    /\ phase' = "asked"
    /\ row' = [NoRow EXCEPT !.status = IF queued THEN "QUEUED" ELSE "none",
                            !.chat = IF fresh THEN 0 ELSE 1]
    /\ trace' = <<>>
    /\ before' = [chats |-> chats, client |-> client]
    /\ spent' = NoCost /\ mixed' = FALSE /\ endLost' = FALSE
    /\ UNCHANGED <<workflow, runVars, talkVars, live, crashes>>

\* _preparation_phase, and the engine's first node: the dispatch found no
\* parallelism, or a resume point. The state is the chat's with the request's own values
\* over it, or the one the resume point left; project state is always the
\* client's. The row of a queued run does not learn the id of a new session.
Prepare ==
    /\ phase = "asked"
    /\ LET chat    == IF turn.fresh THEN Len(chats) + 1 ELSE 1
           project == Synced(client)
           resumes == turn.queued /\ Completed(trace) # {}
           point   == ResumePoint(trace)
           next    == IF resumes THEN FindNextNode(workflow, point.node, point.index)
                      ELSE FindStartNode(workflow)
           c == [state   |-> IF resumes THEN point.step.state
                             ELSE Overridden(Opened[chat].state, turn.set, StateSchema),
                 project |-> project,
                 input   |-> turn.input,
                 audio   |-> turn.kind = "audio",
                 chat    |-> chat,
                 history |-> History(Opened[chat].messages),
                 said    |-> Null,
                 step    |-> IF resumes THEN point.step.number + 1 ELSE 0,
                 visits  |-> <<>>,
                 cost    |-> NoCost]
       IN /\ chats' = Opened
          /\ client' = project
          /\ prepared' = c /\ ctx' = c
          /\ at' = next
          /\ previous' = IF resumes THEN point.step.output ELSE <<>>
          \* nothing after the last completed node: finished, with an empty output
          /\ out' = Passing(<<>>)
          /\ phase' = IF next = NoNode THEN "finalizing" ELSE "looping"
          /\ row' = [row EXCEPT !.status = "RUNNING", !.chat = IF turn.queued THEN @ ELSE chat]
    /\ UNCHANGED <<workflow, turn, turns, trace, stored, live, pastVars>>

-----------------------------------------------------------------------------
\* What a commit of the run's transaction makes lasting.
Now == [chats |-> chats, client |-> client]

\* Mutant: the question is kept although the turn failed.
HandleErrorKeepsQuestion(steps) ==
    /\ row' = [row EXCEPT !.status = "FAILED", !.state = prepared.state, !.steps = prepared.step]
    /\ trace' = steps
    /\ chats' = [chats EXCEPT ![ctx.chat].messages = Append(@, From("user", turn.input.message))]
    /\ stored' = [chats |-> chats', client |-> client]
    /\ phase' = "idle"

\* _handle_error: the row of a failed run. When the loop raised, execute still
\* holds the context that the preparation made.
HandleError(steps) ==
    /\ row' = [row EXCEPT !.status = "FAILED", !.state = prepared.state, !.steps = prepared.step]
    /\ trace' = steps
    /\ chats' = chats /\ stored' = Now
    /\ phase' = "idle"

\* The time budget is over or a limit is reached; no step records it.
StopRun ==
    /\ phase = "looping"
    /\ HandleError(trace)
    /\ UNCHANGED <<workflow, turn, turns, runVars, client, live, pastVars>>

\* NodeRunner.run: the node takes one of its outcomes. An agent commits before
\* it calls its model.
RunNode ==
    /\ phase = "looping"
    /\ CanExecute(ctx, at)
    /\ \E o \in OutcomesOf(Node(at), ctx, previous, trace, live) :
          /\ ~o.fails
          /\ out' = o
          /\ spent' = Adding(spent, o.spent)
          /\ mixed' = (mixed \/ o.mixed)
          /\ chats' = IF o.saves = Null THEN chats
                      ELSE [chats EXCEPT ![ctx.chat].messages = Append(@, From("user", o.saves))]
    /\ stored' = IF Node(at).type = "agent" THEN Now ELSE stored
    /\ phase' = "recording"
    /\ UNCHANGED <<workflow, turn, turns, prepared, ctx, at, previous, rowVars, client, live,
                   before, endLost, crashes>>

\* record_failed, then the error path.
NodeFails ==
    /\ phase = "looping"
    /\ CanExecute(ctx, at)
    /\ Failing \in OutcomesOf(Node(at), ctx, previous, trace, live)
    /\ HandleError(Logged(trace, StepRow(at, ctx, "FAILED", <<>>, <<>>)))
    /\ UNCHANGED <<workflow, turn, turns, runVars, client, live, pastVars>>

\* record_completed, which commits, with_node_visited, and on to the next node;
\* END leaves the loop with the variables it lets out.
Record ==
    /\ phase = "recording"
    /\ LET c    == Folded(ctx, out)
           next == FindNextNode(workflow, at, BranchIndex(Node(at).type, out.data))
       IN /\ trace' = Logged(trace, StepRow(at, ctx, "COMPLETED", out.data, c.state))
          /\ IF Node(at).type = "end"
             THEN /\ phase' = "finalizing"
                  /\ ctx' = [Visited(c, at) EXCEPT
                               !.state   = Filtered(@, Node(at).filter, Node(at).variables),
                               !.project = Filtered(@, Node(at).projectFilter, {})]
                  /\ UNCHANGED <<at, previous>>
             ELSE /\ phase' = IF next = NoNode THEN "stuck" ELSE "looping"
                  /\ ctx' = Visited(c, at)
                  /\ at' = next
                  /\ previous' = out.data
    /\ stored' = Now
    /\ UNCHANGED <<workflow, turn, turns, prepared, out, row, chats, client, live, pastVars>>

\* NoNextNodeError: a node other than END without a way on.
NoNextNode ==
    /\ phase = "stuck"
    /\ HandleError(trace)
    /\ UNCHANGED <<workflow, turn, turns, runVars, client, live, pastVars>>

\* The two messages of a turn: the question, then what the last agent said, or
\* the run's answer when no agent said anything.
Stored ==
    LET answer  == IF ctx.said # Null THEN ctx.said ELSE Get(out.data, "message")
        Kept(m) == IF Truthy(m.content) THEN <<m>> ELSE <<>>
    IN Kept(From("user", turn.input.message)) \o Kept(From("assistant", answer))

\* _finalization_phase. After an END the flags are those of its configuration.
Finalize ==
    /\ phase = "finalizing"
    /\ LET ended  == at # NoNode
           closed == ended /\ Node(at).ends
       IN /\ chats' = [chats EXCEPT
                         ![ctx.chat].state = ctx.state @@ @,
                         ![ctx.chat].messages = @ \o Stored,
                         ![ctx.chat].active = @ /\ ~closed]
          /\ client' = ctx.project @@ client
          /\ stored' = [chats |-> chats', client |-> client']
          /\ row' = [row EXCEPT !.status = IF ended /\ Node(at).error THEN "ERROR" ELSE "COMPLETED",
                                !.output = out.data, !.state = ctx.state,
                                !.bill = ctx.cost, !.steps = ctx.step, !.closed = closed]
    /\ phase' = "idle"
    /\ UNCHANGED <<workflow, turn, turns, runVars, trace, live, pastVars>>

\* The worker dies: what it had in memory is gone, the job is delivered again.
Crash ==
    /\ phase \in {"looping", "recording", "stuck", "finalizing"}
    /\ turn.queued
    /\ crashes < MaxCrashes
    /\ crashes' = crashes + 1
    /\ endLost' = (endLost \/ phase \in {"stuck", "finalizing"})
    /\ spent' = NoCost /\ mixed' = FALSE
    /\ phase' = "asked"
    /\ chats' = stored.chats /\ client' = stored.client
    /\ prepared' = <<>> /\ ctx' = <<>> /\ at' = NoNode /\ previous' = <<>> /\ out' = Failing
    /\ UNCHANGED <<workflow, turn, turns, rowVars, stored, live, before>>

DeleteCredential ==
    /\ Cardinality(Credentials \ live) < MaxDeleted
    /\ \E c \in live : live' = live \ {c}
    /\ UNCHANGED <<workflow, turn, turns, phase, runVars, rowVars, talkVars, pastVars>>

TurnNext ==
    \/ \E kind \in TurnKinds, queued \in BOOLEAN, fresh \in BOOLEAN,
         set \in Overrides : Ask(kind, queued, fresh, set)
    \/ Prepare \/ StopRun \/ RunNode \/ NodeFails \/ Record \/ NoNextNode
    \/ Finalize \/ Crash \/ DeleteCredential

TurnSpec == TurnInit /\ [][TurnNext]_turnVars

-----------------------------------------------------------------------------
Settled == phase = "idle" /\ row.status \in {"COMPLETED", "ERROR"}

\* The trace is one way through the graph, whatever crashes it went through:
\* numbers without a gap, each completed step the successor of the one before
\* along the branch that one chose, starting from the state it left behind.
TraceFollowsTheGraph ==
    \A i \in DOMAIN trace :
        /\ trace[i].number = i - 1
        /\ i = 1 => trace[i].node = FindStartNode(workflow)
        /\ i > 1 => LET s == trace[i - 1]
                    IN /\ s.status = "COMPLETED"
                       /\ trace[i].node = FindNextNode(workflow, s.node, BranchIndex(s.type, s.output))
                       /\ trace[i].earlier = s.state

\* The messages that were there, then what transcription nodes heard.
OnlyTranscripts(old, new) ==
    /\ Len(old) <= Len(new)
    /\ \A j \in DOMAIN new :
          new[j] = IF j <= Len(old) THEN old[j] ELSE From("user", Text("transcript"))

\* A turn that fails leaves no sign of itself in the conversation: the client's
\* variables, the chat's and whether it is open are as they were, whatever the
\* request set and the nodes wrote, nothing is billed, and the only messages
\* more are the greeting of a new session and transcripts.
FailedTurnLeavesNothing ==
    phase = "idle" /\ row.status = "FAILED" =>
        /\ \A k \in DOMAIN client :
              client[k] = IF k \in DOMAIN before.client THEN before.client[k]
                          ELSE TypedDefault(ProjectSchema[k])
        /\ row.bill = NoCost
        /\ \A i \in DOMAIN before.chats :
              /\ chats[i].state = before.chats[i].state
              /\ chats[i].active = before.chats[i].active
              /\ OnlyTranscripts(before.chats[i].messages, chats[i].messages)

\* The same use of models, on whosever key, and of voices, key by key.
SameUse(bill, use) ==
    /\ bill["systemLlm"] + bill["ownLlm"] = use["systemLlm"] + use["ownLlm"]
    /\ bill["systemVoice"] = use["systemVoice"] /\ bill["ownVoice"] = use["ownVoice"]

\* A run is billed what it used since it was started, or resumed, neither less nor
\* twice: in the bucket of the key that paid, or, when a fallback answered on
\* another kind of key than the first model's, at least in the right amount.
\* (CostAccumulator, the metadata of agents, Jev and transcription)
BilledWhatItUsed ==
    Settled => SameUse(row.bill, spent) /\ (~mixed => row.bill = spent)

\* What a settled run reports is what END put out, and with "last agent" this
\* is the newest agent step of the trace, also when the agent answered before
\* the crash the run was resumed from. A crash between the last checkpoint and
\* the end of the run loses it.  (resume, EndNode)
AnswersForTheLastAgent ==
    Settled /\ ~endLost =>
        LET agents == {i \in Completed(trace) : trace[i].type = "agent"}
            end    == Last(trace)
        IN /\ end.type = "end" /\ row.output = end.output
           /\ row.closed <=> Node(end.node).ends
           /\ Node(end.node).mode = "last_agent" /\ agents # {} =>
                 row.output = Newest(agents, trace).output
=============================================================================
