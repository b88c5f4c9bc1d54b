------------------------------ MODULE Workspace ------------------------------
(***************************************************************************)
(* The workspace as one system: requests on accounts, knowledge bases,     *)
(* workflows and a project's other assets run side by side in the same     *)
(* sessions, and deleting a project takes everything in it along.          *)
(***************************************************************************)
EXTENDS WorkflowLibrary, KnowledgeBases, ProjectAssets

vars == <<accountVars, requestVars, libraryVars, knowledgeVars, assets>>

Init == AccountsInit /\ LibraryInit /\ KnowledgeInit /\ AssetsInit

\* delete_project with the cascades of the foreign keys on projects.id.
DeleteProject(c, p) ==
  /\ AtOnce /\ Authorized(c, p)
  /\ DropProject(p) /\ DropLibraryOf(p) /\ DropBasesOf(p) /\ DropAssetsOf(p)

Next ==
  \/ AccountsNext /\ UNCHANGED <<libraryVars, knowledgeVars, assets>>
  \/ LibraryNext /\ UNCHANGED <<accountVars, knowledgeVars, assets>>
  \/ KnowledgeNext /\ UNCHANGED <<accountVars, libraryVars, assets>>
  \/ AssetsNext /\ UNCHANGED <<accountVars, libraryVars, knowledgeVars>>
  \/ \E c \in Callers, p \in Projects : DeleteProject(c, p)

Spec == Init /\ [][Next]_vars

-----------------------------------------------------------------------------
\* Whoever has an account owns the organisation made for it and is a member of it,
\* whatever the owners of other organisations do.  (_create_personal_organization_and_project,
\* remove_member: an owner cannot be removed). One way leads in, the one it registered with,
\* also when two registrations of the address overlapped.
EveryoneHasAHome ==
  \A u \in Users : accounts[u] # NoRow =>
    /\ [org |-> u, user |-> u, owner |-> TRUE] \in members
    /\ accounts[accounts[u]] # NoRow
    /\ Cardinality({way \in Ways : LetsIn(u, way)}) = 1

\* Every key leads to a user, every row to a project that exists: a cascade leaves
\* nothing behind and no request that began before it brings anything back. An agent's
\* hook leads to a workflow of the agent's project.
\* (resolve_context; ON DELETE CASCADE on projects.id; _assert_hook_workflows_in_project)
NothingDangles ==
  LET Homed(table) == \A i \in DOMAIN table : Live(table, i) => Live(projects, table[i].project) IN
  /\ \A p \in keys : Live(projects, p) /\ accounts[projects[p]] # NoRow
  /\ Homed(workflows) /\ Homed(agents) /\ Homed(bases) /\ Homed(assets)
  /\ \A d \in Documents : Live(documents, d) => Live(bases, documents[d].base)
  /\ HooksStayInTheirProject
=============================================================================
