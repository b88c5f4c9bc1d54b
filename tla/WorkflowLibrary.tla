--------------------------- MODULE WorkflowLibrary ---------------------------
(***************************************************************************)
(* The workflows of a project, their published versions, and the voice     *)
(* agents whose analysis hooks name workflows.  A draft has draft = None   *)
(* and version = 0; a version names its draft.  The definition (nodes,     *)
(* edges, state, configuration) is a value of 0 .. 1 that an edit changes. *)
(***************************************************************************)
EXTENDS Accounts, FiniteSetsExt

CONSTANTS Workflows, Agents,
          FirstDraft, FirstVersion  \* a draft and version 1 of it, present at the start

VARIABLES workflows,  \* workflow -> NoRow, Gone or [project, draft, version, body]
          agents,     \* agent -> NoRow, Gone or [project, hook]
          relocated   \* the workflows that have changed project

libraryVars == <<workflows, agents, relocated>>

\* The rows of workflows and of voice_agents, and new ones of them.
WorkflowRows == [project : Projects, draft : Workflows \cup {None}, version : Nat, body : 0..1]
AgentRows == [project : Projects, hook : Workflows \cup {None}]
WorkflowRow(p, draft, version) == [project |-> p, draft |-> draft, version |-> version, body |-> 0]
AgentRow(p, hook) == [project |-> p, hook |-> hook]

ASSUME LibraryAssumption ==
  /\ {FirstDraft, FirstVersion} \subseteq Workflows /\ FirstDraft # FirstVersion
  /\ IsFiniteSet(Workflows) /\ None \notin Workflows
  /\ {NoRow, Gone} \cap (WorkflowRows \cup AgentRows) = {}

VersionsOf(d) == {w \in Workflows : Live(workflows, w) /\ workflows[w].draft = d}

IsDraft(w) == workflows[w].draft = None

\* Mutant: the number of versions there are, plus one.
NextVersionByCount(d) == 1 + Cardinality(VersionsOf(d))

\* get_latest_published, get_next_version
NextVersion(d) == 1 + Max({0} \cup {workflows[v].version : v \in VersionsOf(d)})

\* Published copies and copies of a workflow: every column but identity and statistics.
PublishedRow(w) == [workflows[w] EXCEPT !.draft = w, !.version = NextVersion(w)]
CopiedRow(w) == [workflows[w] EXCEPT !.draft = None, !.version = 0]

\* Every handler loads the workflow and authorises against the project it is in.
Opens(c, w) == Live(workflows, w) /\ Authorized(c, workflows[w].project)

FirstProject == CHOOSE p \in FirstProjects : TRUE

LibraryInit ==
  /\ workflows = [w \in Workflows |->
       CASE w = FirstDraft   -> WorkflowRow(FirstProject, None, 0)
         [] w = FirstVersion -> WorkflowRow(FirstProject, FirstDraft, 1)
         [] OTHER            -> NoRow]
  /\ agents = [a \in Agents |-> NoRow]
  /\ relocated = {}

CreateWorkflow(c, p) ==
  /\ AtOnce /\ Authorized(c, p) /\ FreshIn(workflows) # {}
  /\ workflows' = [workflows EXCEPT ![Fresh(workflows)] = WorkflowRow(p, None, 0)]
  /\ UNCHANGED <<agents, relocated>>

\* update_workflow asks who owns the workflow, not whether it is a draft.
EditWorkflow(c, w) ==
  /\ AtOnce /\ Opens(c, w)
  /\ workflows' = [workflows EXCEPT ![w].body = 1 - @]
  /\ UNCHANGED <<agents, relocated>>

\* The versions of a draft go with it (foreign key published_for_workflow_id).
DeleteWorkflow(c, w) ==
  /\ AtOnce /\ Opens(c, w)
  /\ workflows' = [v \in Workflows |-> IF v = w \/ v \in VersionsOf(w) THEN Gone ELSE workflows[v]]
  /\ UNCHANGED <<agents, relocated>>

\* One UPDATE over the draft and its versions as they are now.
MoveWorkflow(c, w, p) ==
  LET moved == {w} \cup VersionsOf(w) IN
  /\ AtOnce /\ Opens(c, w) /\ Authorized(c, p) /\ IsDraft(w)
  /\ workflows' = [v \in Workflows |-> IF v \in moved THEN [workflows[v] EXCEPT !.project = p]
                                       ELSE workflows[v]]
  /\ relocated' = relocated \cup {v \in moved : workflows[v].project # p}
  /\ UNCHANGED agents

\* publish_workflow: the draft's columns and the next version number are read here.
BeginPublish(s, c, w) ==
  /\ Opens(c, w) /\ IsDraft(w)
  /\ Begin(s, [op |-> "insert", row |-> PublishedRow(w)])
  /\ UNCHANGED libraryVars

BeginCopy(s, c, w) ==
  /\ Opens(c, w)
  /\ Begin(s, [op |-> "insert", row |-> CopiedRow(w)])
  /\ UNCHANGED libraryVars

\* Mutant: no foreign key on the project.
ParentDraftLive(row) == row.draft \in {None} \cup {w \in Workflows : Live(workflows, w)}

\* The rows that the new row's foreign keys name.
ParentsLive(row) ==
  /\ Live(projects, row.project)
  /\ row.draft \in {None} \cup {w \in Workflows : Live(workflows, w)}

FinishInsert(s) ==
  LET row == request[s].row
      d   == row.draft
  IN
  /\ Doing(s, "insert") /\ ParentsLive(row) /\ FreshIn(workflows) # {}
  /\ workflows' = [workflows EXCEPT ![Fresh(workflows)] = row]
  /\ Finish(s, IF d # None /\ (workflows[d].project # row.project \/ NextVersion(d) # row.version)
               THEN {d} ELSE {})
  /\ UNCHANGED <<agents, relocated>>

ParentWasDeleted(s) ==
  /\ Doing(s, "insert")
  /\ ~ParentsLive(request[s].row)
  /\ Finish(s, {})
  /\ UNCHANGED libraryVars

\* Mutant: any workflow will do.
HookExists(p, hook) == hook \in {None} \cup {w \in Workflows : Live(workflows, w)}

\* _assert_hook_workflows_in_project
HookFits(p, hook) ==
  hook \in {None} \cup {w \in Workflows : Live(workflows, w) /\ workflows[w].project = p}

BeginCreateAgent(s, c, p, hook) ==
  /\ Authorized(c, p) /\ HookFits(p, hook)
  /\ Begin(s, [op |-> "agent", agent |-> None, row |-> AgentRow(p, hook)])
  /\ UNCHANGED libraryVars

BeginUpdateAgent(s, c, a, hook) ==
  /\ Live(agents, a) /\ Authorized(c, agents[a].project)
  /\ HookFits(agents[a].project, hook)
  /\ Begin(s, [op |-> "agent", agent |-> a, row |-> AgentRow(agents[a].project, hook)])
  /\ UNCHANGED libraryVars

FinishAgent(s) ==
  LET r == request[s] IN
  /\ Doing(s, "agent")
  /\ IF r.agent = None
     THEN /\ Live(projects, r.row.project) /\ FreshIn(agents) # {}
          /\ agents' = [agents EXCEPT ![Fresh(agents)] = r.row]
     ELSE /\ Live(agents, r.agent)
          /\ agents' = [agents EXCEPT ![r.agent] = r.row]
  /\ Finish(s, {})
  /\ UNCHANGED <<workflows, relocated>>

AgentWasDeleted(s) ==
  LET r == request[s] IN
  /\ Doing(s, "agent")
  /\ IF r.agent = None THEN ~Live(projects, r.row.project) ELSE ~Live(agents, r.agent)
  /\ Finish(s, {})
  /\ UNCHANGED libraryVars

DeleteAgent(c, a) ==
  /\ AtOnce /\ Live(agents, a) /\ Authorized(c, agents[a].project)
  /\ agents' = [agents EXCEPT ![a] = Gone]
  /\ UNCHANGED <<workflows, relocated>>

\* What deleting project p takes with it.
DropLibraryOf(p) ==
  LET gone == {w \in Workflows : Live(workflows, w) /\ workflows[w].project = p} IN
  /\ workflows' = [w \in Workflows |-> IF w \in gone \cup UNION {VersionsOf(d) : d \in gone}
                                       THEN Gone ELSE workflows[w]]
  /\ agents' = [a \in Agents |-> IF Live(agents, a) /\ agents[a].project = p THEN Gone ELSE agents[a]]
  /\ UNCHANGED relocated

LibraryNext ==
  \/ \E s \in Sessions :
       \/ FinishInsert(s) \/ ParentWasDeleted(s) \/ FinishAgent(s) \/ AgentWasDeleted(s)
       \/ \E c \in Callers, w \in Workflows : BeginPublish(s, c, w) \/ BeginCopy(s, c, w)
       \/ \E c \in Callers, hook \in Workflows \cup {None} :
            \/ \E p \in Projects : BeginCreateAgent(s, c, p, hook)
            \/ \E a \in Agents : BeginUpdateAgent(s, c, a, hook)
  \/ \E c \in Callers :
       \/ \E p \in Projects : CreateWorkflow(c, p)
       \/ \E w \in Workflows : EditWorkflow(c, w) \/ DeleteWorkflow(c, w)
       \/ \E w \in Workflows, p \in Projects : MoveWorkflow(c, w, p)
       \/ \E a \in Agents : DeleteAgent(c, a)

-----------------------------------------------------------------------------
\* Every published version has its draft, lives in the draft's project and has a number of
\* its own, unless a publication was overtaken by a move or by another publication of the
\* same draft.  (publish_workflow inserts what it read; move_to_project updates what is there)
VersionsFollowTheirDraft ==
  \A v \in Workflows : Live(workflows, v) /\ ~IsDraft(v) =>
    LET d == workflows[v].draft IN
    /\ Live(workflows, d) /\ IsDraft(d)
    /\ d \notin torn =>
         /\ workflows[v].project = workflows[d].project
         /\ \A w \in VersionsOf(d) \ {v} : workflows[w].version # workflows[v].version

\* A hook that names a live workflow names one of the agent's own project, unless that
\* workflow has been moved since.  (_assert_hook_workflows_in_project looks when the agent is saved)
HooksStayInTheirProject ==
  \A a \in Agents : Live(agents, a) /\ agents[a].hook # None =>
    LET w == agents[a].hook IN
    \/ ~Live(workflows, w)
    \/ workflows[w].project = agents[a].project
    \/ w \in relocated

=============================================================================
