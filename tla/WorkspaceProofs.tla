--------------------------- MODULE WorkspaceProofs ---------------------------
(***************************************************************************)
(* Proofs about Workspace, for any users, projects, tables and sessions.   *)
(*                                                                         *)
(* The inductive invariant has one layer for each part of the workspace.   *)
(* AccountsInv speaks of the accounts and of nothing else; LibraryInv,     *)
(* KnowledgeInv and AssetsInv are each about one group of tables and use   *)
(* of the projects only that rows name live ones. A layer says what is in  *)
(* the tables and what a request that has begun may still write. Each is   *)
(* kept by its own module's requests, by deleting a project, and by every  *)
(* request of the other modules because those leave its tables alone.      *)
(***************************************************************************)
EXTENDS Workspace, Integers, FiniteSetTheorems, Sums, TLAPS

\* What a session may turn to in a step: another request of the kinds ops, or none.
Moves(ops) ==
  \A s \in Sessions : \/ request'[s] = request[s]
                      \/ request'[s] = Idle
                      \/ request'[s].op \in ops

-----------------------------------------------------------------------------
(* The layers *)

\* Who has an account, in which organisations, and what the projects and keys name.
AccountsInv ==
  /\ accounts \in [Users -> Users \cup {NoRow}]
  /\ ways \in [Users -> Ways \cup {NoRow}]
  /\ members \subseteq [org : Users, user : Users, owner : BOOLEAN]
  /\ projects \in [Projects -> Users \cup {NoRow, Gone}]
  /\ keys \subseteq Projects
  /\ \A u \in Users : accounts[u] # NoRow =>
       /\ MemberRow(u, u, TRUE) \in members
       /\ accounts[accounts[u]] # NoRow
       /\ ways[u] \in Ways
  /\ \A m \in members : accounts[m.org] # NoRow
  /\ \A p \in Projects : Live(projects, p) => accounts[projects[p]] # NoRow
  /\ \A p \in keys : Live(projects, p)

\* Nobody is about to be removed from the organisation of their own.
AccountsPending ==
  \A s \in Sessions :
    /\ Doing(s, "register") => request[s].user \in Users /\ request[s].way \in Ways
    /\ Doing(s, "add") => /\ request[s].org \in Users /\ request[s].user \in Users
                          /\ request[s].owner \in BOOLEAN
                          /\ accounts[request[s].org] # NoRow
    /\ Doing(s, "remove") => /\ request[s].org \in Users /\ request[s].user \in Users
                             /\ request[s].org # request[s].user

\* What a hook or a version names was there once, so no new row takes its place.
HookKept(row) ==
  row.hook # None =>
    /\ workflows[row.hook] # NoRow
    /\ \/ ~Live(workflows, row.hook)
       \/ workflows[row.hook].project = row.project
       \/ row.hook \in relocated

LibraryInv ==
  /\ workflows \in [Workflows -> WorkflowRows \cup {NoRow, Gone}]
  /\ agents \in [Agents -> AgentRows \cup {NoRow, Gone}]
  /\ \A w \in Workflows : Live(workflows, w) => Live(projects, workflows[w].project)
  /\ \A a \in Agents : Live(agents, a) => Live(projects, agents[a].project)
  /\ \A a \in Agents : Live(agents, a) => HookKept(agents[a])
  /\ VersionsFollowTheirDraft

\* A version about to be inserted is one of a draft, if that is still there; an agent about
\* to be written stays in the project it was read in.
LibraryPending ==
  \A s \in Sessions :
    /\ Doing(s, "insert") =>
         LET row == request[s].row IN
         /\ row \in WorkflowRows
         /\ row.draft # None => /\ workflows[row.draft] # NoRow
                                /\ Live(workflows, row.draft) => IsDraft(row.draft)
    /\ Doing(s, "agent") =>
         LET r == request[s] IN
         /\ r.agent \in Agents \cup {None} /\ r.row \in AgentRows
         /\ HookKept(r.row)
         /\ r.agent # None => /\ agents[r.agent] # NoRow
                              /\ Live(agents, r.agent) => agents[r.agent].project = r.row.project

\* The counters are right where no write was lost, and no document outlives its base.
KnowledgeInv ==
  /\ bases \in [Bases -> BaseRows \cup {NoRow, Gone}]
  /\ documents \in [Documents -> DocumentRows \cup {NoRow, Gone}]
  /\ \A b \in Bases : Live(bases, b) => Live(projects, bases[b].project)
  /\ \A d \in Documents : Live(documents, d) => Live(bases, documents[d].base)
  /\ CountersTellTheDocuments

\* What the request read of base b is not newer than what is there.
Read(b, seen) ==
  /\ b \in Bases /\ seen \in BaseRows
  /\ bases[b] # NoRow
  /\ Live(bases, b) => seen.writes <= bases[b].writes

\* As long as the base is as it was read, what an upload checked holds, and the document
\* of a deletion is the one that was read.
KnowledgePending ==
  \A s \in Sessions :
    LET r == request[s] IN
    /\ Doing(s, "upload") => Read(r.base, r.seen) /\ r.text \in Texts
    /\ Doing(s, "store") =>
         /\ Read(r.base, r.seen) /\ r.text \in Texts
         /\ Fits(r.seen.chars, r.text)
         /\ bases[r.base] = r.seen => SameContent(r.base, r.text) = {}
    /\ Doing(s, "drop") =>
         /\ Read(r.base, r.seen) /\ r.text \in Texts /\ r.doc \in Documents
         /\ documents[r.doc] # NoRow
         /\ Live(documents, r.doc) => documents[r.doc] = DocumentRow(r.base, r.text)

AssetsInv ==
  /\ assets \in [Assets -> AssetRows \cup {NoRow, Gone}]
  /\ \A a \in Assets : Live(assets, a) => Live(projects, assets[a].project)

Inv == /\ request = [s \in Sessions |-> request[s]]
       /\ AccountsInv /\ AccountsPending
       /\ LibraryInv /\ LibraryPending
       /\ KnowledgeInv /\ KnowledgePending
       /\ AssetsInv

-----------------------------------------------------------------------------
(* Accounts *)

\* A caller is a user with an account: signed in, or the owner a key leads to.
LEMMA CallerHasAccount ==
  ASSUME AccountsInv, NEW c \in Callers
  PROVE  c.user \in Users /\ accounts[c.user] # NoRow
<1>1. CASE c \in {[user |-> u, scope |-> None] : u \in SignedIn}
  <2>1. PICK u \in SignedIn : c = [user |-> u, scope |-> None]
    BY <1>1
  <2>2. PICK way \in Ways : LetsIn(u, way)
    BY <2>1 DEF SignedIn
  <2>3. u \in Users
    BY <2>1 DEF SignedIn
  <2>4. accounts[u] # NoRow
    <3>1. accounts[u] = NoRow => PasswordAnswer(u, TRUE) = "registered"
      BY DEF PasswordAnswer
    <3>2. accounts[u] = NoRow => ProviderAnswer(u, way) = "registered"
      BY DEF ProviderAnswer
    <3> QED BY <2>2, <3>1, <3>2 DEF LetsIn
  <2> QED BY <2>1, <2>3, <2>4
<1>2. CASE c \in {KeyCaller(p) : p \in keys}
  <2>1. PICK p \in keys : c = [user |-> projects[p], scope |-> p]
    BY <1>2 DEF KeyCaller
  <2>2. p \in Projects /\ Live(projects, p) /\ accounts[projects[p]] # NoRow
    BY <2>1 DEF AccountsInv
  <2>3. projects[p] \in Users
    BY <2>2 DEF AccountsInv, Live
  <2> QED BY <2>1, <2>2, <2>3
<1> QED BY <1>1, <1>2 DEF Callers

\* The id of a new row was never used.
LEMMA FreshIsFree ==
  ASSUME NEW table, FreshIn(table) # {}
  PROVE  Fresh(table) \in DOMAIN table /\ table[Fresh(table)] = NoRow
BY DEF Fresh, FreshIn

\* One way leads into an account.
LEMMA OneWayIn ==
  ASSUME AccountsInv, NEW u \in Users, accounts[u] # NoRow
  PROVE  Cardinality({way \in Ways : LetsIn(u, way)}) = 1
<1>1. ways[u] \in Ways
  BY DEF AccountsInv
<1>2. \A way \in Ways : LetsIn(u, way) <=> ways[u] = way
  <2> TAKE way \in Ways
  <2>1. CASE way = "password"
    BY <2>1 DEF LetsIn, PasswordAnswer
  <2>2. CASE way # "password"
    BY <2>2 DEF LetsIn, ProviderAnswer
  <2> QED BY <2>1, <2>2
<1>3. {way \in Ways : LetsIn(u, way)} = {ways[u]}
  BY <1>1, <1>2
<1> QED BY <1>3, FS_Singleton

\* What the invariant asks of the accounts for EveryoneHasAHome.
LEMMA HomeFromInv == AccountsInv => EveryoneHasAHome
<1> SUFFICES ASSUME AccountsInv, NEW u \in Users, accounts[u] # NoRow
             PROVE  /\ [org |-> u, user |-> u, owner |-> TRUE] \in members
                    /\ accounts[accounts[u]] # NoRow
                    /\ Cardinality({way \in Ways : LetsIn(u, way)}) = 1
  BY DEF EveryoneHasAHome
<1>1. Cardinality({way \in Ways : LetsIn(u, way)}) = 1
  BY OneWayIn
<1> QED BY <1>1 DEF AccountsInv, MemberRow

LEMMA InitAccounts == AccountsInit => AccountsInv /\ AccountsPending
<1> SUFFICES ASSUME AccountsInit PROVE AccountsInv /\ AccountsPending
  OBVIOUS
<1> USE AccountsAssumption
<1>1. AccountsPending
  BY DEF AccountsInit, AccountsPending, Doing
<1>2. members \subseteq [org : Users, user : Users, owner : BOOLEAN]
  BY DEF AccountsInit, MemberRow
<1>3. /\ accounts \in [Users -> Users \cup {NoRow}] /\ ways \in [Users -> Ways \cup {NoRow}]
      /\ projects \in [Projects -> Users \cup {NoRow, Gone}]
      /\ keys \subseteq Projects
  BY DEF AccountsInit, Ways
<1>4. \A u \in Users : accounts[u] # NoRow => u = FirstUser
  BY DEF AccountsInit
<1>5. /\ MemberRow(FirstUser, FirstUser, TRUE) \in members
      /\ accounts[accounts[FirstUser]] # NoRow /\ ways[FirstUser] \in Ways
  BY DEF AccountsInit, Ways
<1>6. \A m \in members : accounts[m.org] # NoRow
  BY DEF AccountsInit, MemberRow
<1>7. \A p \in Projects : Live(projects, p) => accounts[projects[p]] # NoRow
  BY DEF AccountsInit, Live
<1>8. keys = {}
  BY DEF AccountsInit
<1> QED BY <1>1, <1>2, <1>3, <1>4, <1>5, <1>6, <1>7, <1>8 DEF AccountsInv

\* Requests of the other parts leave the accounts alone, and what is pending on them.
LEMMA AccountsAside ==
  ASSUME AccountsInv, AccountsPending, UNCHANGED accountVars, NEW ops, Moves(ops),
         "register" \notin ops, "add" \notin ops, "remove" \notin ops
  PROVE  AccountsInv' /\ AccountsPending'
<1>1. AccountsInv'
  BY DEF AccountsInv, accountVars, Live, MemberRow
<1>2. accounts' = accounts
  BY DEF accountVars
<1>3. AccountsPending'
  BY <1>2 DEF AccountsPending, Doing, Moves
<1> QED BY <1>1, <1>3

\* Registration: the account, its organisation and the first project come in one commit.
LEMMA RegisterAccounts ==
  ASSUME AccountsInv, AccountsPending, NEW s \in Sessions, Doing(s, "register"),
         request = [x \in Sessions |-> request[x]],
         accounts[request[s].user] = NoRow, PersonalSpace(request[s].user),
         ways' = [ways EXCEPT ![request[s].user] = request[s].way],
         Finish(s, {}), UNCHANGED keys
  PROVE  AccountsInv' /\ AccountsPending'
<1> USE AccountsAssumption
<1>1. PICK u \in Users, way \in Ways : request[s].user = u /\ request[s].way = way
  BY DEF AccountsPending
<1>2. PICK p \in Projects : projects[p] = NoRow /\ projects' = [projects EXCEPT ![p] = u]
  <2>1. DOMAIN projects = Projects
    BY DEF AccountsInv
  <2> QED BY <1>1, <2>1, FreshIsFree DEF PersonalSpace
<1>3. /\ accounts[u] = NoRow
      /\ accounts' = [accounts EXCEPT ![u] = u] /\ ways' = [ways EXCEPT ![u] = way]
      /\ members' = members \cup {MemberRow(u, u, TRUE)} /\ keys' = keys
  BY <1>1 DEF PersonalSpace
<1>4. \A x \in Users : /\ accounts'[x] = (IF x = u THEN u ELSE accounts[x])
                       /\ ways'[x] = (IF x = u THEN way ELSE ways[x])
  BY <1>3 DEF AccountsInv
<1>5. \A x \in Users : accounts[x] # NoRow => accounts[x] \in Users
  BY DEF AccountsInv
<1>6. /\ accounts' \in [Users -> Users \cup {NoRow}] /\ ways' \in [Users -> Ways \cup {NoRow}]
      /\ projects' \in [Projects -> Users \cup {NoRow, Gone}] /\ keys' \subseteq Projects
  BY <1>1, <1>2, <1>3 DEF AccountsInv
<1>7. members' \subseteq [org : Users, user : Users, owner : BOOLEAN]
  <2>1. MemberRow(u, u, TRUE) \in [org : Users, user : Users, owner : BOOLEAN]
    BY <1>1 DEF MemberRow
  <2> QED BY <1>3, <2>1 DEF AccountsInv
<1>8. \A x \in Users : accounts'[x] # NoRow =>
        /\ MemberRow(x, x, TRUE) \in members'
        /\ accounts'[accounts'[x]] # NoRow
        /\ ways'[x] \in Ways
  BY <1>3, <1>4, <1>5 DEF AccountsInv
<1>9. \A m \in members' : accounts'[m.org] # NoRow
  <2> TAKE m \in members'
  <2>1. CASE m \in members
    BY <1>4, <2>1 DEF AccountsInv
  <2>2. CASE m = MemberRow(u, u, TRUE)
    BY <1>4, <2>2 DEF MemberRow
  <2> QED BY <1>3, <2>1, <2>2
<1>10. \A q \in Projects : Live(projects, q)' => accounts'[projects'[q]] # NoRow
  <2> SUFFICES ASSUME NEW q \in Projects, Live(projects, q)' PROVE accounts'[projects'[q]] # NoRow
    OBVIOUS
  <2>1. CASE q = p
    BY <1>2, <1>4, <2>1 DEF AccountsInv
  <2>2. CASE q # p
    <3>1. projects'[q] = projects[q] /\ Live(projects, q)
      BY <1>2, <2>2 DEF AccountsInv, Live
    <3>2. projects[q] \in Users /\ accounts[projects[q]] # NoRow
      BY <3>1 DEF AccountsInv, Live
    <3> QED BY <1>4, <3>1, <3>2
  <2> QED BY <2>1, <2>2
<1>11. \A q \in keys' : Live(projects, q)'
  BY <1>2, <1>3 DEF AccountsInv, Live
<1>12. AccountsPending'
  BY <1>4 DEF AccountsPending, Doing, Finish
<1> QED BY <1>6, <1>7, <1>8, <1>9, <1>10, <1>11, <1>12 DEF AccountsInv

\* The requests on members and organisations.
LEMMA MembersAccounts ==
  ASSUME AccountsInv, AccountsPending, request = [x \in Sessions |-> request[x]],
         NEW s, NEW c, NEW o \in Users, NEW u \in Users, NEW owner \in BOOLEAN,
         \/ /\ s \in Sessions
            /\ \/ BeginRegister(s, u) \/ \E provider \in Providers : BeginOAuth(s, u, provider)
               \/ AddressTaken(s)
               \/ BeginAddMember(s, c, o, u, owner) \/ FinishAddMember(s)
               \/ BeginRemoveMember(s, c, o, u) \/ FinishRemoveMember(s)
         \/ c \in Callers /\ SetCurrentOrganization(c, o)
  PROVE  AccountsInv' /\ AccountsPending'
<1> USE AccountsAssumption
<1>1. CASE UNCHANGED accountVars
  <2>1. AccountsInv'
    BY <1>1 DEF AccountsInv, accountVars, Live, MemberRow
  <2>2. accounts' = accounts /\ members' = members
    BY <1>1 DEF accountVars
  <2>3. CASE s \in Sessions /\ BeginRegister(s, u)
    BY <2>1, <2>2, <2>3 DEF BeginRegister, Begin, AccountsPending, Doing, Ways
  <2>4. CASE s \in Sessions /\ (\E provider \in Providers : BeginOAuth(s, u, provider))
    BY <2>1, <2>2, <2>4 DEF BeginOAuth, Begin, AccountsPending, Doing, Ways
  <2>5. CASE s \in Sessions /\ AddressTaken(s)
    BY <2>1, <2>2, <2>5 DEF AddressTaken, Finish, AccountsPending, Doing
  <2>6. CASE s \in Sessions /\ BeginAddMember(s, c, o, u, owner)
    <3>1. PICK m \in members : m.org = o
      BY <2>6 DEF BeginAddMember, IsOwner, Membership
    <3>2. accounts[o] # NoRow
      BY <3>1 DEF AccountsInv
    <3> QED BY <2>1, <2>2, <2>6, <3>2 DEF BeginAddMember, Begin, AccountsPending, Doing
  <2>7. CASE s \in Sessions /\ BeginRemoveMember(s, c, o, u)
    <3>1. PICK m \in members : m.org = o
      BY <2>7 DEF BeginRemoveMember, IsOwner, Membership
    <3>2. MemberRow(o, o, TRUE) \in members
      BY <3>1 DEF AccountsInv
    <3>3. IsOwner(o, o)
      BY <3>2 DEF IsOwner, Membership, MemberRow
    <3>4. o # u
      BY <2>7, <3>3 DEF BeginRemoveMember
    <3> QED BY <2>1, <2>2, <2>7, <3>4 DEF BeginRemoveMember, Begin, AccountsPending, Doing
  <2>8. CASE s \in Sessions /\ FinishAddMember(s)
    BY <2>1, <2>2, <2>8 DEF FinishAddMember, Finish, AccountsPending, Doing
  <2>9. CASE s \in Sessions /\ FinishRemoveMember(s)
    BY <2>1, <2>2, <2>9 DEF FinishRemoveMember, Finish, AccountsPending, Doing
  <2>10. CASE c \in Callers /\ SetCurrentOrganization(c, o)
    BY <2>1, <2>2, <2>10 DEF SetCurrentOrganization, AtOnce, AccountsPending, Doing
  <2> QED BY <2>3, <2>4, <2>5, <2>6, <2>7, <2>8, <2>9, <2>10
<1>2. CASE s \in Sessions /\ FinishAddMember(s)
  <2>1. PICK org \in Users, user \in Users, own \in BOOLEAN :
           /\ request[s].org = org /\ request[s].user = user /\ request[s].owner = own
           /\ accounts[org] # NoRow
    BY <1>2 DEF FinishAddMember, AccountsPending
  <2>2. /\ members' = members \/ members' = members \cup {MemberRow(org, user, own)}
        /\ accounts' = accounts /\ ways' = ways /\ projects' = projects /\ keys' = keys
    BY <1>2, <2>1 DEF FinishAddMember
  <2>3. /\ members' \subseteq [org : Users, user : Users, owner : BOOLEAN]
        /\ \A m \in members' : accounts'[m.org] # NoRow
    BY <2>1, <2>2 DEF AccountsInv, MemberRow
  <2>4. AccountsInv'
    BY <2>2, <2>3 DEF AccountsInv, Live, MemberRow
  <2>5. AccountsPending'
    BY <1>2, <2>2 DEF FinishAddMember, Finish, AccountsPending, Doing
  <2> QED BY <2>4, <2>5
<1>3. CASE s \in Sessions /\ FinishRemoveMember(s)
  <2>1. PICK org \in Users, user \in Users :
           request[s].org = org /\ request[s].user = user /\ org # user
    BY <1>3 DEF FinishRemoveMember, AccountsPending
  <2>2. /\ members' = members \ Membership(org, user)
        /\ accounts' = accounts /\ ways' = ways /\ projects' = projects /\ keys' = keys
    BY <1>3, <2>1 DEF FinishRemoveMember
  <2>3. \A x \in Users : MemberRow(x, x, TRUE) \in members => MemberRow(x, x, TRUE) \in members'
    BY <2>1, <2>2 DEF Membership, MemberRow
  <2>4. members' \subseteq members
    BY <2>2
  <2>5. AccountsInv'
    BY <2>2, <2>3, <2>4 DEF AccountsInv, Live, MemberRow
  <2>6. AccountsPending'
    BY <1>3, <2>2 DEF FinishRemoveMember, Finish, AccountsPending, Doing
  <2> QED BY <2>5, <2>6
<1>4. CASE c \in Callers /\ SetCurrentOrganization(c, o)
  <2>1. /\ c.user \in Users /\ accounts[c.user] # NoRow
    BY <1>4, CallerHasAccount
  <2>2. /\ accounts[o] # NoRow /\ accounts' = [accounts EXCEPT ![c.user] = o]
        /\ ways' = ways /\ members' = members /\ projects' = projects /\ keys' = keys
        /\ request' = request
    BY <1>4 DEF SetCurrentOrganization, AtOnce
  <2>3. \A x \in Users : accounts'[x] = (IF x = c.user THEN o ELSE accounts[x])
    BY <2>1, <2>2 DEF AccountsInv
  <2>4. \A x \in Users : accounts[x] # NoRow <=> accounts'[x] # NoRow
    BY <2>1, <2>3
  <2>5. \A x \in Users : accounts[x] # NoRow => accounts[x] \in Users
    BY DEF AccountsInv
  <2>6. accounts' \in [Users -> Users \cup {NoRow}]
    BY <2>2 DEF AccountsInv
  <2>7. \A x \in Users : accounts'[x] # NoRow => accounts'[accounts'[x]] # NoRow
    BY <2>2, <2>3, <2>4, <2>5 DEF AccountsInv
  <2>8. \A m \in members' : accounts'[m.org] # NoRow
    BY <2>2, <2>4 DEF AccountsInv
  <2>9. \A p \in Projects : Live(projects, p)' => accounts'[projects'[p]] # NoRow
    <3>1. \A p \in Projects : Live(projects, p) => projects[p] \in Users
      BY DEF AccountsInv, Live
    <3> QED BY <2>2, <2>4, <3>1 DEF AccountsInv, Live
  <2>10. AccountsInv'
    BY <2>2, <2>4, <2>6, <2>7, <2>8, <2>9 DEF AccountsInv, Live, MemberRow
  <2>11. AccountsPending'
    BY <2>2, <2>4 DEF AccountsPending, Doing
  <2> QED BY <2>10, <2>11
<1> QED BY <1>1, <1>2, <1>3, <1>4 DEF BeginRegister, BeginOAuth, AddressTaken,
          BeginAddMember, BeginRemoveMember

\* Projects and keys: a project comes to an organisation with an account, a key to a
\* project that is there.
LEMMA ProjectsAccounts ==
  ASSUME AccountsInv, AccountsPending, NEW c \in Callers, NEW p \in Projects,
         CreateProject(c) \/ CreateKey(c, p) \/ DeleteKey(c, p)
  PROVE  AccountsInv' /\ AccountsPending'
<1> USE AccountsAssumption
<1>1. /\ accounts' = accounts /\ ways' = ways /\ members' = members /\ request' = request
  BY DEF CreateProject, CreateKey, DeleteKey, AtOnce
<1>2. AccountsPending'
  BY <1>1 DEF AccountsPending, Doing
<1>3. CASE CreateProject(c)
  <2>1. c.user \in Users /\ accounts[c.user] # NoRow
    BY CallerHasAccount
  <2>2. accounts[c.user] \in Users /\ accounts[accounts[c.user]] # NoRow
    BY <2>1 DEF AccountsInv
  <2>3. PICK o \in Users : o = accounts[c.user] /\ accounts[o] # NoRow
    BY <2>2
  <2>4. PICK q \in Projects : projects[q] = NoRow /\ projects' = [projects EXCEPT ![q] = o]
    <3>1. DOMAIN projects = Projects
      BY DEF AccountsInv
    <3> QED BY <1>3, <2>3, <3>1, FreshIsFree DEF CreateProject
  <2>5. keys' = keys
    BY <1>3 DEF CreateProject
  <2>6. projects' \in [Projects -> Users \cup {NoRow, Gone}]
    BY <2>3, <2>4 DEF AccountsInv
  <2>7. \A x \in Projects : Live(projects, x)' => accounts'[projects'[x]] # NoRow
    BY <1>1, <2>3, <2>4 DEF AccountsInv, Live
  <2>8. \A x \in keys' : Live(projects, x)'
    BY <2>4, <2>5 DEF AccountsInv, Live
  <2>9. AccountsInv'
    BY <1>1, <2>5, <2>6, <2>7, <2>8 DEF AccountsInv, MemberRow
  <2> QED BY <1>2, <2>9
<1>4. CASE CreateKey(c, p)
  <2>1. Live(projects, p) /\ keys' = keys \cup {p} /\ projects' = projects
    BY <1>4 DEF CreateKey, Authorized
  <2>2. AccountsInv'
    BY <1>1, <2>1 DEF AccountsInv, Live, MemberRow
  <2> QED BY <1>2, <2>2
<1>5. CASE DeleteKey(c, p)
  <2>1. keys' \subseteq keys /\ projects' = projects
    BY <1>5 DEF DeleteKey
  <2>2. AccountsInv'
    BY <1>1, <2>1 DEF AccountsInv, Live, MemberRow
  <2> QED BY <1>2, <2>2
<1> QED BY <1>3, <1>4, <1>5

\* A deleted project takes its keys along.
LEMMA DropAccounts ==
  ASSUME AccountsInv, AccountsPending, NEW p \in Projects, DropProject(p), UNCHANGED request
  PROVE  AccountsInv' /\ AccountsPending'
<1> USE AccountsAssumption
<1>1. /\ accounts' = accounts /\ ways' = ways /\ members' = members /\ request' = request
      /\ projects' = [projects EXCEPT ![p] = Gone] /\ keys' = keys \ {p}
  BY DEF DropProject
<1>2. AccountsPending'
  BY <1>1 DEF AccountsPending, Doing
<1>3. projects' \in [Projects -> Users \cup {NoRow, Gone}]
  BY <1>1 DEF AccountsInv
<1>4. \A x \in Projects : Live(projects, x)' => accounts'[projects'[x]] # NoRow
  BY <1>1 DEF AccountsInv, Live
<1>5. \A x \in keys' : Live(projects, x)'
  BY <1>1 DEF AccountsInv, Live
<1>6. AccountsInv'
  BY <1>1, <1>3, <1>4, <1>5 DEF AccountsInv, MemberRow
<1> QED BY <1>2, <1>6

\* Every request on accounts keeps the invariant, and deletes no project.
LEMMA NextAccounts ==
  ASSUME AccountsInv, AccountsPending, request = [x \in Sessions |-> request[x]], AccountsNext
  PROVE  /\ AccountsInv' /\ AccountsPending'
<1> USE AccountsAssumption
<1>1. ASSUME NEW s \in Sessions, FinishRegister(s) PROVE AccountsInv' /\ AccountsPending'
  <2>1. request[s].way = "password" /\ ways' = [ways EXCEPT ![request[s].user] = request[s].way]
    BY <1>1 DEF FinishRegister
  <2> QED BY <1>1, <2>1, RegisterAccounts DEF FinishRegister
<1>2. ASSUME NEW s \in Sessions, FinishOAuth(s) PROVE AccountsInv' /\ AccountsPending'
  BY <1>2, RegisterAccounts DEF FinishOAuth
<1>3. ASSUME NEW s \in Sessions, AddressTaken(s) \/ FinishAddMember(s) \/ FinishRemoveMember(s)
      PROVE  AccountsInv' /\ AccountsPending'
  BY <1>3, MembersAccounts
<1>4. ASSUME NEW s \in Sessions, NEW u \in Users,
             BeginRegister(s, u) \/ \E provider \in Providers : BeginOAuth(s, u, provider)
      PROVE  AccountsInv' /\ AccountsPending'
  BY <1>4, MembersAccounts
<1>5. ASSUME NEW s \in Sessions, NEW c \in Callers, NEW o \in Users, NEW u \in Users,
             BeginRemoveMember(s, c, o, u) \/ \E owner \in BOOLEAN : BeginAddMember(s, c, o, u, owner)
      PROVE  AccountsInv' /\ AccountsPending'
  BY <1>5, MembersAccounts
<1>6. ASSUME NEW c \in Callers, NEW o \in Users, SetCurrentOrganization(c, o)
      PROVE  AccountsInv' /\ AccountsPending'
  BY <1>6, MembersAccounts
<1>7. ASSUME NEW c \in Callers, CreateProject(c) PROVE AccountsInv' /\ AccountsPending'
  BY <1>7, ProjectsAccounts
<1>8. ASSUME NEW c \in Callers, NEW p \in Projects, CreateKey(c, p) \/ DeleteKey(c, p)
      PROVE  AccountsInv' /\ AccountsPending'
  BY <1>8, ProjectsAccounts
<1> QED BY <1>1, <1>2, <1>3, <1>4, <1>5, <1>6, <1>7, <1>8 DEF AccountsNext

\* Only deleting a project ends it; the other requests leave it or make it.
LEMMA ProjectsStay ==
  ASSUME AccountsInv, AccountsNext
  PROVE  \A p \in Projects : Live(projects, p) => Live(projects, p)'
<1> USE AccountsAssumption
<1>1. ASSUME NEW q \in Projects, NEW o, projects[q] = NoRow, projects' = [projects EXCEPT ![q] = o]
      PROVE  \A p \in Projects : Live(projects, p) => Live(projects, p)'
  BY <1>1 DEF AccountsInv, Live
<1>2. DOMAIN projects = Projects
  BY DEF AccountsInv
<1>3. ASSUME NEW u, PersonalSpace(u) PROVE \A p \in Projects : Live(projects, p) => Live(projects, p)'
  BY <1>1, <1>2, <1>3, FreshIsFree DEF PersonalSpace
<1>4. ASSUME NEW c \in Callers, CreateProject(c)
      PROVE  \A p \in Projects : Live(projects, p) => Live(projects, p)'
  BY <1>1, <1>2, <1>4, FreshIsFree DEF CreateProject
<1>5. CASE projects' = projects
  BY <1>5 DEF Live
<1> QED BY <1>3, <1>4, <1>5 DEF AccountsNext, accountVars, FinishRegister, FinishOAuth, AddressTaken,
          FinishAddMember, FinishRemoveMember, BeginRegister, BeginOAuth, BeginRemoveMember,
          BeginAddMember, SetCurrentOrganization, CreateKey, DeleteKey

-----------------------------------------------------------------------------
(* The workflow library *)

\* The greatest of finitely many numbers.
LEMMA MaxOfNumbers ==
  ASSUME NEW S, IsFiniteSet(S), S # {}, S \subseteq Nat
  PROVE  Max(S) \in S /\ \A y \in S : y <= Max(S)
<1> DEFINE HasMax(T) == \E x \in T : \A y \in T : x >= y
           Bad == {T \in SUBSET S : T # {} /\ ~HasMax(T)}
<1>1. HasMax(S)
  <2>1. SUFFICES ASSUME Bad # {} PROVE FALSE
    OBVIOUS
  <2>2. PICK T \in Bad : \A U \in SUBSET T : U # T => U \notin Bad
    <3>1. Bad \in SUBSET SUBSET S
      OBVIOUS
    <3> HIDE DEF Bad
    <3> QED BY <2>1, <3>1, SmallestSet
  <2>3. PICK x \in T : TRUE
    OBVIOUS
  <2>4. T \ {x} = {} \/ HasMax(T \ {x})
    BY <2>2, <2>3
  <2>5. x \in Nat /\ T \subseteq Nat
    BY <2>3
  <2>6. CASE T \ {x} = {}
    BY <2>3, <2>5, <2>6
  <2>7. CASE HasMax(T \ {x})
    <3>1. PICK z \in T \ {x} : \A y \in T \ {x} : z >= y
      BY <2>7
    <3>2. HasMax(T)
      <4>1. CASE z >= x
        BY <2>5, <3>1, <4>1
      <4>2. CASE x >= z
        BY <2>3, <2>5, <3>1, <4>2
      <4> QED BY <2>5, <3>1, <4>1, <4>2
    <3> QED BY <2>2, <3>2
  <2> QED BY <2>4, <2>6, <2>7
<1>2. PICK x \in S : \A y \in S : x >= y
  BY <1>1
<1>3. Max(S) \in S /\ \A y \in S : Max(S) >= y
  BY <1>2 DEF Max
<1> QED BY <1>3

\* The next version's number is above those there are.
LEMMA NextVersionAbove ==
  ASSUME workflows \in [Workflows -> WorkflowRows \cup {NoRow, Gone}], NEW d
  PROVE  /\ NextVersion(d) \in Nat
         /\ \A v \in VersionsOf(d) : workflows[v].version < NextVersion(d)
<1> USE LibraryAssumption
<1> DEFINE Numbers == {0} \cup {workflows[v].version : v \in VersionsOf(d)}
<1>1. \A v \in VersionsOf(d) : workflows[v].version \in Nat
  BY DEF VersionsOf, Live, WorkflowRows
<1>2. IsFiniteSet(VersionsOf(d))
  BY FS_Subset DEF VersionsOf
<1>3. IsFiniteSet(Numbers)
  <2> DEFINE used == {workflows[v].version : v \in VersionsOf(d)}
             number == [v \in VersionsOf(d) |-> workflows[v].version]
  <2>0. number \in Surjection(VersionsOf(d), used)
    BY DEF Surjection
  <2> HIDE DEF number, used
  <2>1. IsFiniteSet(used)
    BY <1>2, <2>0, FS_Surjection
  <2> QED BY <2>1, FS_Singleton, FS_Union DEF used
<1>4. Numbers # {} /\ Numbers \subseteq Nat
  BY <1>1
<1> HIDE DEF Numbers
<1>5. Max(Numbers) \in Nat /\ \A y \in Numbers : y <= Max(Numbers)
  BY <1>3, <1>4, MaxOfNumbers
<1>6. NextVersion(d) = 1 + Max(Numbers)
  BY DEF NextVersion, Numbers
<1>7. \A v \in VersionsOf(d) : workflows[v].version \in Numbers
  BY DEF Numbers
<1> QED BY <1>1, <1>5, <1>6, <1>7

\* What may happen to a workflow in a step: it is made, deleted or altered, and a row that
\* was there keeps its draft, and its project unless it is noted as relocated.
WorkflowsMove ==
  /\ relocated \subseteq relocated'
  /\ \A w \in Workflows :
       \/ workflows'[w] = workflows[w]
       \/ workflows[w] = NoRow
       \/ Live(workflows, w) /\ workflows'[w] = Gone
       \/ /\ Live(workflows, w) /\ workflows'[w].draft = workflows[w].draft
          /\ workflows'[w] # NoRow
          /\ workflows'[w].project = workflows[w].project \/ w \in relocated'

\* What may happen to an agent.
AgentsMove ==
  \A a \in Agents :
    \/ agents'[a] = agents[a]
    \/ agents[a] = NoRow
    \/ Live(agents, a) /\ agents'[a] = Gone
    \/ /\ Live(agents, a) /\ agents'[a].project = agents[a].project
       /\ agents'[a] # NoRow

\* A hook that is kept stays so, whatever happens to the workflows.
LEMMA HookStaysKept ==
  ASSUME WorkflowsMove, NEW row \in AgentRows, HookKept(row)
  PROVE  HookKept(row)'
<1> USE LibraryAssumption, AccountsAssumption
<1>1. CASE row.hook = None
  BY <1>1 DEF HookKept
<1>2. CASE row.hook # None
  <2>1. PICK w \in Workflows : w = row.hook
    BY <1>2 DEF AgentRows
  <2>2. workflows[w] # NoRow
    BY <1>2, <2>1 DEF HookKept
  <2> QED BY <1>2, <2>1, <2>2 DEF HookKept, WorkflowsMove, Live
<1> QED BY <1>1, <1>2

\* So does what is pending in the library.
LEMMA PendingStays ==
  ASSUME LibraryPending, WorkflowsMove, AgentsMove, NEW ops, Moves(ops),
         "insert" \notin ops, "agent" \notin ops
  PROVE  LibraryPending'
<1> USE LibraryAssumption, AccountsAssumption
<1> SUFFICES ASSUME NEW s \in Sessions
             PROVE  /\ Doing(s, "insert")' =>
                         (/\ request[s].row \in WorkflowRows
                          /\ request[s].row.draft # None =>
                               /\ workflows[request[s].row.draft] # NoRow
                               /\ Live(workflows, request[s].row.draft) => IsDraft(request[s].row.draft))'
                    /\ Doing(s, "agent")' =>
                         (/\ request[s].agent \in Agents \cup {None} /\ request[s].row \in AgentRows
                          /\ HookKept(request[s].row)
                          /\ request[s].agent # None =>
                               /\ agents[request[s].agent] # NoRow
                               /\ Live(agents, request[s].agent) =>
                                    agents[request[s].agent].project = request[s].row.project)'
  BY DEF LibraryPending
<1>1. /\ Doing(s, "insert")' => request'[s] = request[s] /\ Doing(s, "insert")
      /\ Doing(s, "agent")' => request'[s] = request[s] /\ Doing(s, "agent")
  BY DEF Moves, Doing
<1>2. ASSUME Doing(s, "insert"), request'[s] = request[s]
      PROVE  (/\ request[s].row \in WorkflowRows
              /\ request[s].row.draft # None =>
                   /\ workflows[request[s].row.draft] # NoRow
                   /\ Live(workflows, request[s].row.draft) => IsDraft(request[s].row.draft))'
  <2>1. PICK row \in WorkflowRows : row = request[s].row
    BY <1>2 DEF LibraryPending
  <2>2. row.draft # None => row.draft \in Workflows
    BY <2>1 DEF WorkflowRows
  <2>3. row.draft # None => /\ workflows[row.draft] # NoRow
                            /\ Live(workflows, row.draft) => IsDraft(row.draft)
    BY <1>2, <2>1 DEF LibraryPending
  <2>4. row.draft # None => /\ workflows'[row.draft] # NoRow
                            /\ Live(workflows, row.draft)' => IsDraft(row.draft)'
    BY <2>2, <2>3 DEF WorkflowsMove, Live, IsDraft
  <2> QED BY <1>2, <2>1, <2>4 DEF Live, IsDraft
<1>3. ASSUME Doing(s, "agent"), request'[s] = request[s]
      PROVE  (/\ request[s].agent \in Agents \cup {None} /\ request[s].row \in AgentRows
              /\ HookKept(request[s].row)
              /\ request[s].agent # None =>
                   /\ agents[request[s].agent] # NoRow
                   /\ Live(agents, request[s].agent) =>
                        agents[request[s].agent].project = request[s].row.project)'
  <2>1. PICK row \in AgentRows, a \in Agents \cup {None} : row = request[s].row /\ a = request[s].agent
    BY <1>3 DEF LibraryPending
  <2>2. HookKept(row)
    BY <1>3, <2>1 DEF LibraryPending
  <2>3. HookKept(row)'
    BY <2>2, HookStaysKept
  <2>4. a # None => /\ agents[a] # NoRow
                    /\ Live(agents, a) => agents[a].project = row.project
    BY <1>3, <2>1 DEF LibraryPending
  <2>5. a # None => /\ agents'[a] # NoRow
                    /\ Live(agents, a)' => agents'[a].project = row.project
    BY <2>4 DEF AgentsMove, Live
  <2>6. HookKept(request[s].row)'
    BY <1>3, <2>1, <2>3 DEF HookKept, Live
  <2> QED BY <1>3, <2>1, <2>5, <2>6 DEF Live
<1> QED BY <1>1, <1>2, <1>3

\* What a request that writes workflows owes the invariant.
WorkflowsKept ==
  /\ workflows' \in [Workflows -> WorkflowRows \cup {NoRow, Gone}]
  /\ WorkflowsMove
  /\ \A w \in Workflows : Live(workflows, w)' => Live(projects', workflows'[w].project)
  /\ VersionsFollowTheirDraft'

\* A version and its draft after a step, given where each of them was before it.
LEMMA VersionsStay ==
  ASSUME VersionsFollowTheirDraft, torn \subseteq torn',
         \* nothing is new
         \A w \in Workflows : Live(workflows, w)' =>
            /\ Live(workflows, w)
            /\ workflows'[w].draft = workflows[w].draft
            /\ workflows'[w].version = workflows[w].version,
         \* and a version stays in the place of its draft
         \A w \in Workflows : Live(workflows, w)' /\ workflows[w].draft # None =>
            LET d == workflows[w].draft IN
            /\ Live(workflows, d)'
            /\ workflows[w].project = workflows[d].project => workflows'[w].project = workflows'[d].project,
         \A w \in Workflows : Live(workflows, w) => workflows[w].draft \in Workflows \cup {None}
  PROVE  VersionsFollowTheirDraft'
<1> SUFFICES ASSUME NEW v \in Workflows, NEW d, Live(workflows, v)', d = workflows'[v].draft, d # None
             PROVE  /\ Live(workflows, d)' /\ workflows'[d].draft = None
                    /\ d \notin torn' =>
                         /\ workflows'[v].project = workflows'[d].project
                         /\ \A w \in VersionsOf(d)' \ {v} : workflows'[w].version # workflows'[v].version
  BY DEF VersionsFollowTheirDraft, IsDraft, VersionsOf
<1>1. d \in Workflows /\ d = workflows[v].draft
  OBVIOUS
<1>2. /\ Live(workflows, v)
      /\ Live(workflows, d) /\ workflows[d].draft = None
      /\ d \notin torn => /\ workflows[v].project = workflows[d].project
                          /\ \A w \in VersionsOf(d) \ {v} : workflows[w].version # workflows[v].version
  BY <1>1 DEF VersionsFollowTheirDraft, IsDraft
<1>3. Live(workflows, d)' /\ workflows'[d].draft = None
  BY <1>1, <1>2
<1>4. \A w \in VersionsOf(d)' : w \in VersionsOf(d) /\ workflows'[w].version = workflows[w].version
  BY DEF VersionsOf
<1>5. workflows'[v].version = workflows[v].version
  OBVIOUS
<1> QED BY <1>1, <1>2, <1>3, <1>4, <1>5

\* A row for a new draft.
LEMMA NewDraftRow ==
  ASSUME NEW p \in Projects
  PROVE  /\ WorkflowRow(p, None, 0) \in WorkflowRows
         /\ WorkflowRow(p, None, 0).draft = None /\ WorkflowRow(p, None, 0).project = p
BY DEF WorkflowRow, WorkflowRows

\* A new draft.
LEMMA CreateWorkflowKept ==
  ASSUME LibraryInv, NEW c, NEW p \in Projects, CreateWorkflow(c, p), UNCHANGED projects
  PROVE  WorkflowsKept
<1> USE AccountsAssumption, LibraryAssumption
<1>1. DOMAIN workflows = Workflows
  BY DEF LibraryInv
<1>2. PICK n \in Workflows : /\ workflows[n] = NoRow
                             /\ workflows' = [workflows EXCEPT ![n] = WorkflowRow(p, None, 0)]
  BY <1>1, FreshIsFree DEF CreateWorkflow
<1>3. Live(projects, p) /\ torn' = torn /\ relocated' = relocated /\ projects' = projects
  BY DEF CreateWorkflow, Authorized, AtOnce
<1>4. PICK row \in WorkflowRows :
         row = WorkflowRow(p, None, 0) /\ row.draft = None /\ row.project = p
  BY NewDraftRow
<1>5. \A w \in Workflows : workflows'[w] = IF w = n THEN row ELSE workflows[w]
  BY <1>2, <1>4 DEF LibraryInv
<1>6. workflows' \in [Workflows -> WorkflowRows \cup {NoRow, Gone}]
  BY <1>2, <1>4 DEF LibraryInv
<1>7. WorkflowsMove
  BY <1>2, <1>3, <1>5 DEF WorkflowsMove
<1>8. \A w \in Workflows : Live(workflows, w)' => Live(projects', workflows'[w].project)
  BY <1>3, <1>4, <1>5 DEF LibraryInv, Live
<1>9. VersionsFollowTheirDraft'
  <2>1. \A w \in Workflows : w # n => (Live(workflows, w)' <=> Live(workflows, w))
    BY <1>5 DEF Live
  <2>2. ~Live(workflows, n) /\ workflows'[n].draft = None
    BY <1>2, <1>4, <1>5 DEF Live
  <2>3. \A d \in Workflows : VersionsOf(d)' = VersionsOf(d) /\ n \notin VersionsOf(d)
    BY <1>4, <1>5, <2>1, <2>2 DEF VersionsOf
  <2> SUFFICES ASSUME NEW v \in Workflows, NEW d, Live(workflows, v)', d = workflows'[v].draft, d # None
               PROVE  /\ Live(workflows, d)' /\ workflows'[d].draft = None
                      /\ d \notin torn' =>
                           /\ workflows'[v].project = workflows'[d].project
                           /\ \A w \in VersionsOf(d)' \ {v} : workflows'[w].version # workflows'[v].version
      BY DEF VersionsFollowTheirDraft, IsDraft, VersionsOf
  <2>4. v # n /\ Live(workflows, v) /\ workflows'[v] = workflows[v]
    BY <1>5, <2>1, <2>2
  <2>5. d \in Workflows /\ d = workflows[v].draft
    BY <2>4 DEF LibraryInv, Live, WorkflowRows
  <2>6. /\ Live(workflows, d) /\ workflows[d].draft = None
        /\ d \notin torn => /\ workflows[v].project = workflows[d].project
                            /\ \A w \in VersionsOf(d) \ {v} : workflows[w].version # workflows[v].version
    BY <2>4, <2>5 DEF LibraryInv, VersionsFollowTheirDraft, IsDraft
  <2>7. d # n /\ workflows'[d] = workflows[d] /\ Live(workflows, d)'
    BY <1>5, <2>1, <2>2, <2>5, <2>6
  <2>8. \A w \in VersionsOf(d)' : w \in VersionsOf(d) /\ workflows'[w] = workflows[w]
    BY <1>5, <2>3, <2>5 DEF VersionsOf
  <2> QED BY <1>3, <2>4, <2>5, <2>6, <2>7, <2>8
<1> QED BY <1>6, <1>7, <1>8, <1>9 DEF WorkflowsKept

\* An edit changes the definition only.
LEMMA EditWorkflowKept ==
  ASSUME LibraryInv, NEW c, NEW w \in Workflows, EditWorkflow(c, w), UNCHANGED projects
  PROVE  WorkflowsKept
<1> USE AccountsAssumption, LibraryAssumption
<1>1. /\ Live(workflows, w) /\ workflows' = [workflows EXCEPT ![w].body = 1 - @]
      /\ torn' = torn /\ relocated' = relocated /\ projects' = projects
  BY DEF EditWorkflow, Opens, AtOnce
<1>2. PICK row \in WorkflowRows : row = workflows[w]
  BY <1>1 DEF LibraryInv, Live
<1>3. PICK new \in WorkflowRows : /\ new = [row EXCEPT !.body = 1 - @]
                                  /\ new.draft = row.draft /\ new.project = row.project
                                  /\ new.version = row.version
  <2>1. PICK p \in Projects, d \in Workflows \cup {None}, n \in Nat, b \in 0..1 :
           row = [project |-> p, draft |-> d, version |-> n, body |-> b]
    BY DEF WorkflowRows
  <2>2. [row EXCEPT !.body = 1 - @] = [project |-> p, draft |-> d, version |-> n, body |-> 1 - b]
    BY <2>1
  <2>3. 1 - b \in 0..1
    OBVIOUS
  <2>4. [project |-> p, draft |-> d, version |-> n, body |-> 1 - b] \in WorkflowRows
    BY <2>3 DEF WorkflowRows
  <2> QED BY <2>1, <2>2, <2>4
<1>4. workflows' = [workflows EXCEPT ![w] = new]
  BY <1>1, <1>2, <1>3
<1>5. \A x \in Workflows : workflows'[x] = IF x = w THEN new ELSE workflows[x]
  BY <1>4 DEF LibraryInv
<1>6. workflows' \in [Workflows -> WorkflowRows \cup {NoRow, Gone}]
  BY <1>3, <1>4 DEF LibraryInv
<1>7. WorkflowsMove
  BY <1>1, <1>2, <1>3, <1>5 DEF WorkflowsMove
<1>8. \A x \in Workflows : /\ Live(workflows, x)' <=> Live(workflows, x)
                           /\ Live(workflows, x) =>
                                /\ workflows'[x].draft = workflows[x].draft
                                /\ workflows'[x].version = workflows[x].version
                                /\ workflows'[x].project = workflows[x].project
  BY <1>1, <1>2, <1>3, <1>5 DEF Live
<1>9. \A x \in Workflows : Live(workflows, x)' => Live(projects', workflows'[x].project)
  BY <1>1, <1>8 DEF LibraryInv, Live
<1>10. \A x \in Workflows : Live(workflows, x) => workflows[x].draft \in Workflows \cup {None}
  BY DEF LibraryInv, Live, WorkflowRows
<1>11. \A x \in Workflows : Live(workflows, x) /\ workflows[x].draft # None =>
          Live(workflows, workflows[x].draft)
  BY DEF LibraryInv, VersionsFollowTheirDraft, IsDraft
<1>12. VersionsFollowTheirDraft'
  <2>1. VersionsFollowTheirDraft
    BY DEF LibraryInv
  <2> QED BY <1>1, <1>8, <1>10, <1>11, <2>1, VersionsStay
<1> QED BY <1>6, <1>7, <1>9, <1>12 DEF WorkflowsKept

\* Live workflows are deleted, and with a draft its versions.
LEMMA DeletionKept ==
  ASSUME LibraryInv, NEW G \in SUBSET Workflows,
         \A w \in G : Live(workflows, w),
         \A v \in Workflows : Live(workflows, v) /\ workflows[v].draft \in G => v \in G,
         workflows' = [v \in Workflows |-> IF v \in G THEN Gone ELSE workflows[v]],
         relocated' = relocated, torn' = torn,
         \A v \in Workflows \ G : Live(workflows, v) => Live(projects', workflows[v].project)
  PROVE  WorkflowsKept
<1> USE AccountsAssumption, LibraryAssumption
<1>1. \A v \in Workflows : workflows'[v] = IF v \in G THEN Gone ELSE workflows[v]
  OBVIOUS
<1>2. workflows' \in [Workflows -> WorkflowRows \cup {NoRow, Gone}]
  BY DEF LibraryInv
<1>3. WorkflowsMove
  BY <1>1 DEF WorkflowsMove
<1>4. \A v \in Workflows : Live(workflows, v)' => v \notin G /\ Live(workflows, v) /\ workflows'[v] = workflows[v]
  BY <1>1 DEF Live
<1>5. \A v \in Workflows : Live(workflows, v)' => Live(projects', workflows'[v].project)
  BY <1>4
<1>6. \A v \in Workflows : Live(workflows, v) => workflows[v].draft \in Workflows \cup {None}
  BY DEF LibraryInv, Live, WorkflowRows
<1>7. \A v \in Workflows : Live(workflows, v)' /\ workflows[v].draft # None =>
         /\ Live(workflows, workflows[v].draft)'
         /\ workflows'[workflows[v].draft] = workflows[workflows[v].draft]
  <2> SUFFICES ASSUME NEW v \in Workflows, NEW d, Live(workflows, v)', d = workflows[v].draft, d # None
               PROVE  Live(workflows, d)' /\ workflows'[d] = workflows[d]
    BY DEF Live
  <2>1. v \notin G /\ Live(workflows, v) /\ d \in Workflows
    BY <1>4, <1>6
  <2>2. d \notin G
    BY <2>1
  <2>3. Live(workflows, d)
    BY <2>1 DEF LibraryInv, VersionsFollowTheirDraft, IsDraft
  <2> QED BY <1>1, <2>1, <2>2, <2>3 DEF Live
<1>8. VersionsFollowTheirDraft'
  <2>1. VersionsFollowTheirDraft
    BY DEF LibraryInv
  <2> QED BY <1>4, <1>6, <1>7, <2>1, VersionsStay
<1> QED BY <1>2, <1>3, <1>5, <1>8 DEF WorkflowsKept

\* A draft is no version, so deleting one takes nothing but its versions.
LEMMA DeleteWorkflowKept ==
  ASSUME LibraryInv, NEW c, NEW w \in Workflows, DeleteWorkflow(c, w), UNCHANGED projects
  PROVE  WorkflowsKept
<1> USE LibraryAssumption
<1> DEFINE G == {w} \cup VersionsOf(w)
<1>1. /\ Live(workflows, w) /\ torn' = torn /\ relocated' = relocated
      /\ workflows' = [v \in Workflows |-> IF v = w \/ v \in VersionsOf(w) THEN Gone ELSE workflows[v]]
  BY DEF DeleteWorkflow, Opens, AtOnce
<1>2. G \in SUBSET Workflows /\ \A v \in G : Live(workflows, v)
  BY <1>1 DEF VersionsOf
<1>3. workflows' = [v \in Workflows |-> IF v \in G THEN Gone ELSE workflows[v]]
  BY <1>1
<1>4. ASSUME NEW v \in Workflows, Live(workflows, v), workflows[v].draft \in G PROVE v \in G
  <2>1. CASE workflows[v].draft = w
    BY <1>4, <2>1 DEF VersionsOf
  <2>2. CASE workflows[v].draft \in VersionsOf(w)
    <3>1. workflows[v].draft \in Workflows /\ workflows[workflows[v].draft].draft = w
      BY <2>2 DEF VersionsOf
    <3>2. workflows[workflows[v].draft].draft = None
      BY <1>4, <3>1 DEF LibraryInv, VersionsFollowTheirDraft, IsDraft
    <3> QED BY <3>1, <3>2
  <2> QED BY <1>4, <2>1, <2>2
<1>5. \A v \in Workflows : Live(workflows, v) => Live(projects', workflows[v].project)
  BY DEF LibraryInv
<1> HIDE DEF G
<1> QED BY <1>1, <1>2, <1>3, <1>4, <1>5, DeletionKept

\* The same for everything of a project.
LEMMA DropWorkflowsKept ==
  ASSUME LibraryInv, NEW p \in Projects, DropLibraryOf(p), torn' = torn,
         \A q \in Projects : Live(projects, q) /\ q # p => Live(projects, q)'
  PROVE  WorkflowsKept
<1> USE LibraryAssumption
<1> DEFINE gone == {w \in Workflows : Live(workflows, w) /\ workflows[w].project = p}
           G == gone \cup UNION {VersionsOf(d) : d \in gone}
<1>1. /\ relocated' = relocated
      /\ workflows' = [w \in Workflows |-> IF w \in G THEN Gone ELSE workflows[w]]
  BY DEF DropLibraryOf
<1>2. G \in SUBSET Workflows /\ \A v \in G : Live(workflows, v)
  BY DEF VersionsOf
<1>3. ASSUME NEW v \in Workflows, Live(workflows, v), workflows[v].draft \in G PROVE v \in G
  <2>1. CASE workflows[v].draft \in gone
    BY <1>3, <2>1 DEF VersionsOf
  <2>2. CASE workflows[v].draft \notin gone
    <3>1. PICK d \in gone : workflows[v].draft \in VersionsOf(d)
      BY <1>3, <2>2
    <3>2. workflows[v].draft \in Workflows /\ workflows[workflows[v].draft].draft = d
      BY <3>1 DEF VersionsOf
    <3>3. workflows[workflows[v].draft].draft = None
      BY <1>3, <3>2 DEF LibraryInv, VersionsFollowTheirDraft, IsDraft
    <3> QED BY <3>2, <3>3
  <2> QED BY <2>1, <2>2
<1>4. \A v \in Workflows \ G : Live(workflows, v) => Live(projects', workflows[v].project)
  <2> TAKE v \in Workflows \ G
  <2>1. Live(workflows, v) => workflows[v].project # p
    OBVIOUS
  <2>2. Live(workflows, v) => workflows[v].project \in Projects
    BY DEF LibraryInv, Live, WorkflowRows
  <2> QED BY <2>1, <2>2 DEF LibraryInv
<1> HIDE DEF G
<1> QED BY <1>1, <1>2, <1>3, <1>4, DeletionKept

\* A draft moves with its versions as they are.
LEMMA MoveWorkflowKept ==
  ASSUME LibraryInv, NEW c, NEW w \in Workflows, NEW p \in Projects, MoveWorkflow(c, w, p),
         UNCHANGED projects
  PROVE  WorkflowsKept
<1> USE AccountsAssumption, LibraryAssumption
<1> DEFINE moved == {w} \cup VersionsOf(w)
<1>1. /\ Live(workflows, w) /\ workflows[w].draft = None /\ Live(projects, p)
      /\ torn' = torn /\ projects' = projects
      /\ workflows' = [v \in Workflows |-> IF v \in moved THEN [workflows[v] EXCEPT !.project = p]
                                           ELSE workflows[v]]
      /\ relocated' = relocated \cup {v \in moved : workflows[v].project # p}
  BY DEF MoveWorkflow, Opens, Authorized, IsDraft, AtOnce
<1>2. moved \subseteq Workflows /\ \A v \in moved : Live(workflows, v)
  BY <1>1 DEF VersionsOf
<1>3. \A v \in Workflows : v \in moved <=> v = w \/ (Live(workflows, v) /\ workflows[v].draft = w)
  BY DEF VersionsOf
<1>4. \A row \in WorkflowRows :
         /\ [row EXCEPT !.project = p] \in WorkflowRows
         /\ [row EXCEPT !.project = p].project = p
         /\ [row EXCEPT !.project = p].draft = row.draft
         /\ [row EXCEPT !.project = p].version = row.version
  <2> TAKE row \in WorkflowRows
  <2>1. PICK q \in Projects, d \in Workflows \cup {None}, n \in Nat, b \in 0..1 :
           row = [project |-> q, draft |-> d, version |-> n, body |-> b]
    BY DEF WorkflowRows
  <2>2. [row EXCEPT !.project = p] = [project |-> p, draft |-> d, version |-> n, body |-> b]
    BY <2>1
  <2>3. [project |-> p, draft |-> d, version |-> n, body |-> b] \in WorkflowRows
    BY DEF WorkflowRows
  <2> QED BY <2>1, <2>2, <2>3
<1> HIDE DEF moved
<1>5. \A v \in Workflows : v \in moved =>
         /\ workflows[v] \in WorkflowRows
         /\ workflows'[v] = [workflows[v] EXCEPT !.project = p]
  BY <1>1, <1>2 DEF LibraryInv, Live
<1>6. \A v \in Workflows : v \in moved =>
         /\ workflows'[v] \in WorkflowRows /\ workflows'[v].project = p
         /\ workflows'[v].draft = workflows[v].draft /\ workflows'[v].version = workflows[v].version
  <2> TAKE v \in Workflows
  <2>1. SUFFICES ASSUME v \in moved
                 PROVE  /\ workflows'[v] \in WorkflowRows /\ workflows'[v].project = p
                        /\ workflows'[v].draft = workflows[v].draft
                        /\ workflows'[v].version = workflows[v].version
    OBVIOUS
  <2>2. PICK row \in WorkflowRows : row = workflows[v] /\ workflows'[v] = [row EXCEPT !.project = p]
    BY <1>5, <2>1
  <2> QED BY <1>4, <2>2
<1>7. \A v \in Workflows : v \notin moved => workflows'[v] = workflows[v]
  BY <1>1
<1>8. workflows' \in [Workflows -> WorkflowRows \cup {NoRow, Gone}]
  BY <1>1, <1>6, <1>7 DEF LibraryInv
<1>9. \A v \in Workflows : v \in moved /\ workflows[v].project # p => v \in relocated'
  BY <1>1
<1>10. relocated \subseteq relocated'
  BY <1>1
<1>11. WorkflowsMove
  BY <1>2, <1>6, <1>7, <1>9, <1>10 DEF WorkflowsMove
<1>12. \A v \in Workflows : Live(workflows, v)' <=> Live(workflows, v)
  BY <1>2, <1>6, <1>7 DEF Live
<1>13. \A v \in Workflows : Live(workflows, v)' => Live(projects', workflows'[v].project)
  BY <1>1, <1>6, <1>7, <1>12 DEF LibraryInv
<1>14. \A v \in Workflows : Live(workflows, v) => workflows[v].draft \in Workflows \cup {None}
  BY DEF LibraryInv, Live, WorkflowRows
<1>15. ASSUME NEW v \in Workflows, Live(workflows, v), workflows[v].draft # None
       PROVE  LET d == workflows[v].draft IN
              /\ Live(workflows, d)'
              /\ workflows[v].project = workflows[d].project => workflows'[v].project = workflows'[d].project
  <2>1. PICK d \in Workflows : d = workflows[v].draft
    BY <1>14, <1>15
  <2>2. Live(workflows, d) /\ workflows[d].draft = None
    BY <1>15, <2>1 DEF LibraryInv, VersionsFollowTheirDraft, IsDraft
  <2>3. v \in moved <=> d \in moved
    BY <1>1, <1>3, <1>15, <2>1, <2>2
  <2> QED BY <1>6, <1>7, <1>12, <2>1, <2>2, <2>3
<1>16. VersionsFollowTheirDraft'
  <2>1. VersionsFollowTheirDraft
    BY DEF LibraryInv
  <2>2. \A v \in Workflows : Live(workflows, v)' =>
            /\ Live(workflows, v)
            /\ workflows'[v].draft = workflows[v].draft
            /\ workflows'[v].version = workflows[v].version
    BY <1>6, <1>7, <1>12
  <2> QED BY <1>1, <1>12, <1>14, <1>15, <2>1, <2>2, VersionsStay
<1> QED BY <1>8, <1>11, <1>13, <1>16 DEF WorkflowsKept

\* A copy, or a version of a draft that is still there: with the next number and in the
\* place of its draft, or the draft is noted.
LEMMA InsertKept ==
  ASSUME LibraryInv, LibraryPending, NEW s \in Sessions, FinishInsert(s), UNCHANGED projects
  PROVE  WorkflowsKept
<1> USE AccountsAssumption, LibraryAssumption
<1>1. PICK row \in WorkflowRows : row = request[s].row
  BY DEF FinishInsert, LibraryPending
<1>2. row.draft # None /\ Live(workflows, row.draft) => IsDraft(row.draft)
  BY <1>1 DEF FinishInsert, LibraryPending
<1>3. DOMAIN workflows = Workflows
  BY DEF LibraryInv
<1>4. PICK n \in Workflows : workflows[n] = NoRow /\ workflows' = [workflows EXCEPT ![n] = row]
  BY <1>1, <1>3, FreshIsFree DEF FinishInsert
<1>5. /\ Live(projects, row.project) /\ projects' = projects /\ relocated' = relocated
      /\ row.draft # None => row.draft \in Workflows /\ Live(workflows, row.draft)
  BY <1>1 DEF FinishInsert, ParentsLive
<1>6. /\ torn \subseteq torn'
      /\ row.draft # None /\ row.draft \notin torn' =>
           /\ workflows[row.draft].project = row.project
           /\ NextVersion(row.draft) = row.version
  BY <1>1 DEF FinishInsert, Finish
<1>7. \A w \in Workflows : workflows'[w] = IF w = n THEN row ELSE workflows[w]
  BY <1>4 DEF LibraryInv
<1>8. workflows' \in [Workflows -> WorkflowRows \cup {NoRow, Gone}]
  BY <1>4 DEF LibraryInv
<1>9. WorkflowsMove
  BY <1>4, <1>5, <1>7 DEF WorkflowsMove
<1>10. \A w \in Workflows : Live(workflows, w)' => Live(projects', workflows'[w].project)
  BY <1>5, <1>7 DEF LibraryInv, Live
<1>11. ~Live(workflows, n) /\ \A w \in Workflows : w # n => (Live(workflows, w)' <=> Live(workflows, w))
  BY <1>4, <1>7 DEF Live
<1>12. VersionsFollowTheirDraft'
  <2> SUFFICES ASSUME NEW v \in Workflows, NEW d, Live(workflows, v)', d = workflows'[v].draft, d # None
               PROVE  /\ Live(workflows, d)' /\ workflows'[d].draft = None
                      /\ d \notin torn' =>
                           /\ workflows'[v].project = workflows'[d].project
                           /\ \A w \in VersionsOf(d)' \ {v} : workflows'[w].version # workflows'[v].version
    BY DEF VersionsFollowTheirDraft, IsDraft, VersionsOf
  <2>1. d \in Workflows
    BY <1>5, <1>7, <1>11 DEF LibraryInv, Live, WorkflowRows
  <2>2. Live(workflows, d) /\ workflows[d].draft = None
    <3>1. CASE v = n
      BY <1>2, <1>5, <1>7, <3>1 DEF IsDraft
    <3>2. CASE v # n
      BY <1>7, <1>11, <3>2 DEF LibraryInv, VersionsFollowTheirDraft, IsDraft
    <3> QED BY <3>1, <3>2
  <2>3. d # n /\ workflows'[d] = workflows[d] /\ Live(workflows, d)'
    BY <1>7, <1>11, <2>1, <2>2
  <2>4. \A w \in VersionsOf(d)' : \/ w = n /\ row.draft = d
                                  \/ w # n /\ w \in VersionsOf(d) /\ workflows'[w] = workflows[w]
    BY <1>7, <1>11 DEF VersionsOf
  <2>5. \A w \in VersionsOf(d) : workflows[w].version \in Nat /\ workflows[w].version < NextVersion(d)
    <3>1. \A w \in VersionsOf(d) : workflows[w].version \in Nat
      BY DEF LibraryInv, VersionsOf, Live, WorkflowRows
    <3> QED BY <3>1, NextVersionAbove DEF LibraryInv
  <2>6. NextVersion(d) \in Nat
    BY NextVersionAbove DEF LibraryInv
  <2>7. v # n => /\ v \in VersionsOf(d) /\ workflows'[v] = workflows[v]
                 /\ d \notin torn =>
                      /\ workflows[v].project = workflows[d].project
                      /\ \A w \in VersionsOf(d) \ {v} : workflows[w].version # workflows[v].version
    <3>1. v # n => Live(workflows, v) /\ workflows'[v] = workflows[v] /\ workflows[v].draft = d
      BY <1>7, <1>11
    <3>2. v # n => v \in VersionsOf(d)
      BY <3>1 DEF VersionsOf
    <3> QED BY <3>1, <3>2 DEF LibraryInv, VersionsFollowTheirDraft, IsDraft
  <2>8. v = n => workflows'[v] = row /\ row.draft = d
    BY <1>7
  <2>9. ASSUME d \notin torn', row.draft = d
        PROVE  workflows[d].project = row.project /\ NextVersion(d) = row.version
    BY <1>6, <2>9
  <2>10. ASSUME d \notin torn' PROVE workflows'[v].project = workflows'[d].project
    <3>1. CASE v = n
      BY <2>3, <2>8, <2>9, <2>10, <3>1
    <3>2. CASE v # n
      BY <1>6, <2>3, <2>7, <2>10, <3>2
    <3> QED BY <3>1, <3>2
  <2>11. ASSUME d \notin torn', NEW w \in VersionsOf(d)' \ {v}
         PROVE  workflows'[w].version # workflows'[v].version
    <3>1. CASE v = n
      <4>1. w \in VersionsOf(d) /\ workflows'[w] = workflows[w]
        BY <2>4, <3>1
      <4> QED BY <2>5, <2>6, <2>8, <2>9, <2>11, <3>1, <4>1
    <3>2. CASE v # n /\ w = n
      <4>1. row.draft = d /\ workflows'[w] = row
        BY <1>7, <2>4, <3>2
      <4> QED BY <2>5, <2>6, <2>7, <2>9, <2>11, <3>2, <4>1
    <3>3. CASE v # n /\ w # n
      BY <1>6, <2>4, <2>7, <2>11, <3>3
    <3> QED BY <3>1, <3>2, <3>3
  <2> QED BY <2>2, <2>3, <2>10, <2>11
<1> QED BY <1>8, <1>9, <1>10, <1>12 DEF WorkflowsKept

\* Requests that write no workflow keep them, too.
LEMMA WorkflowsAside ==
  ASSUME LibraryInv, workflows' = workflows, relocated' = relocated, torn \subseteq torn',
         \A p \in Projects : Live(projects, p) => Live(projects, p)'
  PROVE  WorkflowsKept
<1> USE AccountsAssumption, LibraryAssumption
<1>1. WorkflowsMove
  BY DEF WorkflowsMove
<1>2. \A w \in Workflows : Live(workflows, w)' <=> Live(workflows, w)
  BY DEF Live
<1>3. \A w \in Workflows : Live(workflows, w) => workflows[w].project \in Projects
  BY DEF LibraryInv, Live, WorkflowRows
<1>4. \A w \in Workflows : Live(workflows, w)' => Live(projects', workflows'[w].project)
  BY <1>2, <1>3 DEF LibraryInv
<1>5. VersionsFollowTheirDraft'
  <2>1. VersionsFollowTheirDraft
    BY DEF LibraryInv
  <2>2. \A w \in Workflows : Live(workflows, w) => workflows[w].draft \in Workflows \cup {None}
    BY DEF LibraryInv, Live, WorkflowRows
  <2>3. \A w \in Workflows : Live(workflows, w)' /\ workflows[w].draft # None =>
           Live(workflows, workflows[w].draft)'
    <3> SUFFICES ASSUME NEW w \in Workflows, NEW d, Live(workflows, w)', d = workflows[w].draft, d # None
                 PROVE  Live(workflows, d)'
      BY DEF Live
    <3>1. d \in Workflows /\ Live(workflows, w)
      BY <1>2, <2>2
    <3>2. Live(workflows, d)
      BY <3>1 DEF LibraryInv, VersionsFollowTheirDraft, IsDraft
    <3> QED BY <1>2, <3>1, <3>2
  <2> QED BY <1>2, <2>1, <2>2, <2>3, VersionsStay
<1> QED BY <1>1, <1>4, <1>5 DEF WorkflowsKept, LibraryInv

\* What a request owes the invariant as for the agents.
AgentsKept ==
  /\ agents' \in [Agents -> AgentRows \cup {NoRow, Gone}]
  /\ AgentsMove
  /\ \A a \in Agents : \A row \in AgentRows : Live(agents, a)' /\ row = agents'[a] =>
       Live(projects', row.project) /\ HookKept(row)'

\* Agents that nobody writes or that are deleted.
LEMMA AgentsAside ==
  ASSUME LibraryInv, WorkflowsMove,
         agents' \in [Agents -> AgentRows \cup {NoRow, Gone}],
         \A a \in Agents : \/ agents'[a] = agents[a]
                           \/ Live(agents, a) /\ agents'[a] = Gone,
         \A a \in Agents : Live(agents, a) /\ agents'[a] = agents[a] =>
                             Live(projects', agents[a].project)
  PROVE  AgentsKept
<1> USE AccountsAssumption, LibraryAssumption
<1>1. AgentsMove
  BY DEF AgentsMove
<1>2. ASSUME NEW a \in Agents, NEW row \in AgentRows, Live(agents, a)', row = agents'[a]
      PROVE  Live(projects', row.project) /\ HookKept(row)'
  <2>1. Live(agents, a) /\ agents[a] = row
    BY <1>2 DEF Live
  <2>2. HookKept(row)
    BY <2>1 DEF LibraryInv, HookKept
  <2>3. HookKept(row)'
    BY <2>2, HookStaysKept
  <2> QED BY <1>2, <2>1, <2>3
<1> QED BY <1>1, <1>2 DEF AgentsKept

LEMMA DeleteAgentKept ==
  ASSUME LibraryInv, NEW c, NEW a \in Agents, DeleteAgent(c, a), UNCHANGED projects
  PROVE  AgentsKept
<1>1. Live(agents, a) /\ agents' = [agents EXCEPT ![a] = Gone]
  BY DEF DeleteAgent
<1>2. WorkflowsMove
  BY DEF DeleteAgent, WorkflowsMove
<1>3. agents' \in [Agents -> AgentRows \cup {NoRow, Gone}]
  BY <1>1 DEF LibraryInv
<1>4. \A x \in Agents : \/ agents'[x] = agents[x]
                        \/ Live(agents, x) /\ agents'[x] = Gone
  BY <1>1 DEF LibraryInv
<1>5. \A x \in Agents : Live(agents, x) => Live(projects', agents[x].project)
  BY DEF LibraryInv
<1> QED BY <1>2, <1>3, <1>4, <1>5, AgentsAside

LEMMA DropAgentsKept ==
  ASSUME LibraryInv, WorkflowsMove, NEW p \in Projects, DropLibraryOf(p),
         \A q \in Projects : Live(projects, q) /\ q # p => Live(projects, q)'
  PROVE  AgentsKept
<1> USE AccountsAssumption, LibraryAssumption
<1>1. agents' = [a \in Agents |-> IF Live(agents, a) /\ agents[a].project = p THEN Gone ELSE agents[a]]
  BY DEF DropLibraryOf
<1>2. agents' \in [Agents -> AgentRows \cup {NoRow, Gone}]
  BY <1>1 DEF LibraryInv
<1>3. \A a \in Agents : \/ agents'[a] = agents[a]
                        \/ Live(agents, a) /\ agents'[a] = Gone
  BY <1>1
<1>4. ASSUME NEW a \in Agents, Live(agents, a), agents'[a] = agents[a]
      PROVE  Live(projects', agents[a].project)
  <2>1. agents[a].project # p
    BY <1>1, <1>4 DEF Live
  <2>2. agents[a].project \in Projects
    BY <1>4 DEF LibraryInv, Live, AgentRows
  <2> QED BY <1>4, <2>1, <2>2 DEF LibraryInv
<1> QED BY <1>2, <1>3, <1>4, AgentsAside

\* An agent is written as it was checked, and into the project it was read in.
LEMMA FinishAgentKept ==
  ASSUME LibraryInv, LibraryPending, NEW s \in Sessions, FinishAgent(s), UNCHANGED projects
  PROVE  AgentsKept
<1> USE AccountsAssumption, LibraryAssumption
<1>1. PICK row \in AgentRows, a \in Agents \cup {None} : row = request[s].row /\ a = request[s].agent
  BY DEF FinishAgent, LibraryPending
<1>2. /\ HookKept(row)
      /\ a # None => agents[a] # NoRow /\ (Live(agents, a) => agents[a].project = row.project)
  BY <1>1 DEF FinishAgent, LibraryPending
<1>3. WorkflowsMove
  BY DEF FinishAgent, WorkflowsMove
<1>4. HookKept(row)'
  BY <1>2, <1>3, HookStaysKept
<1>5. \A x \in Agents : \A r \in AgentRows : Live(agents, x) /\ r = agents[x] =>
         Live(projects, r.project) /\ HookKept(r)'
  <2> TAKE x \in Agents
  <2> TAKE r \in AgentRows
  <2>1. Live(agents, x) /\ r = agents[x] => Live(projects, r.project) /\ HookKept(r)
    BY DEF LibraryInv, HookKept
  <2> QED BY <1>3, <2>1, HookStaysKept
<1>6. PICK n \in Agents :
         /\ agents' = [agents EXCEPT ![n] = row]
         /\ Live(projects, row.project)
         /\ \/ agents[n] = NoRow
            \/ Live(agents, n) /\ agents[n].project = row.project
  <2>1. CASE a = None
    <3>1. DOMAIN agents = Agents
      BY DEF LibraryInv
    <3> QED BY <1>1, <2>1, <3>1, FreshIsFree DEF FinishAgent
  <2>2. CASE a # None
    <3>1. /\ a \in Agents /\ Live(agents, a) /\ agents' = [agents EXCEPT ![a] = row]
      BY <1>1, <2>2 DEF FinishAgent
    <3>2. agents[a].project = row.project /\ Live(projects, row.project)
      BY <1>2, <2>2, <3>1 DEF LibraryInv
    <3> QED BY <3>1, <3>2
  <2> QED BY <2>1, <2>2
<1>7. \A x \in Agents : agents'[x] = IF x = n THEN row ELSE agents[x]
  BY <1>6 DEF LibraryInv
<1>8. agents' \in [Agents -> AgentRows \cup {NoRow, Gone}]
  BY <1>6 DEF LibraryInv
<1>9. AgentsMove
  BY <1>6, <1>7 DEF AgentsMove
<1>10. ASSUME NEW x \in Agents, NEW r \in AgentRows, Live(agents, x)', r = agents'[x]
       PROVE  Live(projects', r.project) /\ HookKept(r)'
  <2>1. CASE x = n
    <3>1. r = row
      BY <1>7, <1>10, <2>1
    <3>2. HookKept(r)'
      BY <1>4, <3>1
    <3> QED BY <1>6, <3>1, <3>2
  <2>2. CASE x # n
    <3>1. Live(agents, x) /\ agents[x] = r
      BY <1>7, <1>10, <2>2 DEF Live
    <3> QED BY <1>5, <3>1
  <2> QED BY <2>1, <2>2
<1> QED BY <1>8, <1>9, <1>10 DEF AgentsKept

\* Together: the layer after a step.
LEMMA LibraryFromKept ==
  ASSUME WorkflowsKept, AgentsKept
  PROVE  LibraryInv'
<1> USE AccountsAssumption, LibraryAssumption
<1>1. ASSUME NEW a \in Agents, Live(agents, a)'
      PROVE  Live(projects', agents'[a].project) /\ HookKept(agents[a])'
  <2>1. PICK row \in AgentRows : row = agents'[a]
    BY <1>1 DEF AgentsKept, Live
  <2>2. Live(projects', row.project) /\ HookKept(row)'
    BY <1>1, <2>1 DEF AgentsKept
  <2> QED BY <2>1, <2>2 DEF HookKept
<1> QED BY <1>1 DEF LibraryInv, WorkflowsKept, AgentsKept

\* A finished request is pending no more; a request that takes one step never is.
LEMMA OwnPendingStays ==
  ASSUME LibraryPending, WorkflowsMove, AgentsMove,
         \A x \in Sessions : request'[x] = request[x] \/ request'[x] = Idle
  PROVE  LibraryPending'
<1>1. Moves({})
  BY DEF Moves
<1> QED BY <1>1, PendingStays

\* A request that begins: what it read is what is there.
LEMMA BeginLibrary ==
  ASSUME LibraryInv, LibraryPending, NEW s \in Sessions, NEW c, NEW w \in Workflows,
         NEW p \in Projects, NEW a, NEW hook \in Workflows \cup {None},
         \/ BeginPublish(s, c, w) \/ BeginCopy(s, c, w)
         \/ BeginCreateAgent(s, c, p, hook)
         \/ a \in Agents /\ BeginUpdateAgent(s, c, a, hook),
         request = [x \in Sessions |-> request[x]]
  PROVE  LibraryPending'
<1> USE AccountsAssumption, LibraryAssumption
<1>1. workflows' = workflows /\ agents' = agents /\ relocated' = relocated
  BY DEF BeginPublish, BeginCopy, BeginCreateAgent, BeginUpdateAgent, libraryVars
<1>2. ASSUME NEW r, request' = [request EXCEPT ![s] = r],
             \/ /\ r.op = "insert" /\ r.row \in WorkflowRows
                /\ r.row.draft # None => /\ workflows[r.row.draft] # NoRow
                                         /\ Live(workflows, r.row.draft) => IsDraft(r.row.draft)
             \/ /\ r.op = "agent" /\ r.agent \in Agents \cup {None} /\ r.row \in AgentRows
                /\ HookKept(r.row)
                /\ r.agent # None => /\ agents[r.agent] # NoRow
                                     /\ Live(agents, r.agent) => agents[r.agent].project = r.row.project
      PROVE  LibraryPending'
  <2>1. \A x \in Sessions : request'[x] = IF x = s THEN r ELSE request[x]
    BY <1>2
  <2> QED BY <1>1, <1>2, <2>1 DEF LibraryPending, Doing, HookKept, Live, IsDraft
<1>3. QED
  <2>1. \A row \in WorkflowRows : \A n \in Nat :
           /\ [row EXCEPT !.draft = w, !.version = n] \in WorkflowRows
           /\ [row EXCEPT !.draft = w, !.version = n].draft = w
           /\ [row EXCEPT !.draft = None, !.version = 0] \in WorkflowRows
           /\ [row EXCEPT !.draft = None, !.version = 0].draft = None
    <3> TAKE row \in WorkflowRows
    <3> TAKE n \in Nat
    <3>1. PICK q \in Projects, d \in Workflows \cup {None}, m \in Nat, b \in 0..1 :
             row = [project |-> q, draft |-> d, version |-> m, body |-> b]
      BY DEF WorkflowRows
    <3>2. \A d2, n2 : [row EXCEPT !.draft = d2, !.version = n2]
                        = [project |-> q, draft |-> d2, version |-> n2, body |-> b]
      <4> TAKE d2, n2
      <4>1. PICK r : r = [row EXCEPT !.draft = d2]
        OBVIOUS
      <4>2. r = [project |-> q, draft |-> d2, version |-> m, body |-> b]
        BY <3>1, <4>1
      <4>3. [r EXCEPT !.version = n2] = [project |-> q, draft |-> d2, version |-> n2, body |-> b]
        BY <4>2
      <4>4. [row EXCEPT !.draft = d2, !.version = n2] = [[row EXCEPT !.draft = d2] EXCEPT !.version = n2]
        OBVIOUS
      <4> QED BY <4>1, <4>3, <4>4
    <3>3. /\ [project |-> q, draft |-> w, version |-> n, body |-> b] \in WorkflowRows
          /\ [project |-> q, draft |-> None, version |-> 0, body |-> b] \in WorkflowRows
      BY DEF WorkflowRows
    <3>4. /\ [row EXCEPT !.draft = w, !.version = n] = [project |-> q, draft |-> w, version |-> n, body |-> b]
          /\ [row EXCEPT !.draft = None, !.version = 0] = [project |-> q, draft |-> None, version |-> 0, body |-> b]
      BY <3>2
    <3> QED BY <3>3, <3>4
  <2>2. CASE BeginPublish(s, c, w)
    <3>1. Live(workflows, w) /\ IsDraft(w)
      BY <2>2 DEF BeginPublish, Opens
    <3>2. workflows[w] \in WorkflowRows /\ workflows[w] # NoRow
      BY <3>1 DEF LibraryInv, Live
    <3>3. NextVersion(w) \in Nat
      BY NextVersionAbove DEF LibraryInv
    <3>4. PublishedRow(w) \in WorkflowRows /\ PublishedRow(w).draft = w
      BY <2>1, <3>2, <3>3 DEF PublishedRow
    <3>5. PICK r : r = [op |-> "insert", row |-> PublishedRow(w)]
      OBVIOUS
    <3>6. request' = [request EXCEPT ![s] = r]
      BY <2>2, <3>5 DEF BeginPublish, Begin
    <3> QED BY <1>2, <3>1, <3>2, <3>4, <3>5, <3>6
  <2>3. CASE BeginCopy(s, c, w)
    <3>1. workflows[w] \in WorkflowRows
      BY <2>3 DEF BeginCopy, Opens, LibraryInv, Live
    <3>2. CopiedRow(w) \in WorkflowRows /\ CopiedRow(w).draft = None
      BY <2>1, <3>1 DEF CopiedRow
    <3>3. PICK r : r = [op |-> "insert", row |-> CopiedRow(w)]
      OBVIOUS
    <3>4. request' = [request EXCEPT ![s] = r]
      BY <2>3, <3>3 DEF BeginCopy, Begin
    <3> QED BY <1>2, <3>2, <3>3, <3>4
  <2>4. \A q \in Projects : /\ AgentRow(q, hook) \in AgentRows
                            /\ AgentRow(q, hook).project = q /\ AgentRow(q, hook).hook = hook
    BY DEF AgentRow, AgentRows
  <2>5. \A q \in Projects : HookFits(q, hook) => HookKept(AgentRow(q, hook))
    BY <2>4 DEF HookFits, HookKept, Live
  <2>6. CASE BeginCreateAgent(s, c, p, hook)
    <3>1. PICK r : r = [op |-> "agent", agent |-> None, row |-> AgentRow(p, hook)]
      OBVIOUS
    <3>2. request' = [request EXCEPT ![s] = r] /\ HookFits(p, hook)
      BY <2>6, <3>1 DEF BeginCreateAgent, Begin
    <3> QED BY <1>2, <2>4, <2>5, <3>1, <3>2
  <2>7. CASE a \in Agents /\ BeginUpdateAgent(s, c, a, hook)
    <3>1. Live(agents, a) /\ agents[a].project \in Projects
      BY <2>7 DEF BeginUpdateAgent, LibraryInv, Live, AgentRows
    <3>2. PICK r : r = [op |-> "agent", agent |-> a, row |-> AgentRow(agents[a].project, hook)]
      OBVIOUS
    <3>3. request' = [request EXCEPT ![s] = r] /\ HookFits(agents[a].project, hook)
      BY <2>7, <3>2 DEF BeginUpdateAgent, Begin
    <3>4. agents[a] # NoRow
      BY <3>1 DEF Live
    <3> QED BY <1>2, <2>4, <2>5, <2>7, <3>1, <3>2, <3>3, <3>4
  <2> QED BY <2>2, <2>3, <2>6, <2>7

\* Every request of the library keeps the layer.
LEMMA NextLibrary ==
  ASSUME LibraryInv, LibraryPending, LibraryNext, UNCHANGED projects,
         request = [x \in Sessions |-> request[x]]
  PROVE  LibraryInv' /\ LibraryPending'
<1> USE AccountsAssumption, LibraryAssumption
<1>1. \A p \in Projects : Live(projects, p) => Live(projects, p)'
  BY DEF Live
<1>2. ASSUME workflows' = workflows, relocated' = relocated, torn \subseteq torn'
      PROVE  WorkflowsKept
  BY <1>1, <1>2, WorkflowsAside
<1>3. ASSUME WorkflowsKept, agents' = agents PROVE AgentsKept
  <2>1. \A a \in Agents : Live(agents, a) => Live(projects', agents[a].project)
    BY DEF LibraryInv
  <2>2. WorkflowsMove /\ agents' \in [Agents -> AgentRows \cup {NoRow, Gone}]
    BY <1>3 DEF WorkflowsKept, LibraryInv
  <2> QED BY <1>3, <2>1, <2>2, AgentsAside
<1>4. ASSUME WorkflowsKept, AgentsKept,
             \A x \in Sessions : request'[x] = request[x] \/ request'[x] = Idle
      PROVE  LibraryInv' /\ LibraryPending'
  BY <1>4, LibraryFromKept, OwnPendingStays DEF WorkflowsKept, AgentsKept
<1>5. ASSUME NEW s \in Sessions, FinishInsert(s) PROVE LibraryInv' /\ LibraryPending'
  <2>1. WorkflowsKept
    BY <1>5, InsertKept
  <2>2. agents' = agents /\ \A x \in Sessions : request'[x] = request[x] \/ request'[x] = Idle
    BY <1>5 DEF FinishInsert, Finish
  <2> QED BY <1>3, <1>4, <2>1, <2>2
<1>6. ASSUME NEW s \in Sessions, ParentWasDeleted(s) \/ AgentWasDeleted(s)
      PROVE  LibraryInv' /\ LibraryPending'
  <2>1. /\ workflows' = workflows /\ agents' = agents /\ relocated' = relocated /\ torn \subseteq torn'
        /\ \A x \in Sessions : request'[x] = request[x] \/ request'[x] = Idle
    BY <1>6 DEF ParentWasDeleted, AgentWasDeleted, Finish, libraryVars
  <2> QED BY <1>2, <1>3, <1>4, <2>1
<1>7. ASSUME NEW s \in Sessions, FinishAgent(s) PROVE LibraryInv' /\ LibraryPending'
  <2>1. /\ workflows' = workflows /\ relocated' = relocated /\ torn \subseteq torn'
        /\ \A x \in Sessions : request'[x] = request[x] \/ request'[x] = Idle
    BY <1>7 DEF FinishAgent, Finish
  <2>2. AgentsKept
    BY <1>7, FinishAgentKept
  <2> QED BY <1>2, <1>4, <2>1, <2>2
<1>8. ASSUME NEW s \in Sessions, NEW c, NEW w \in Workflows, NEW p \in Projects, NEW a,
             NEW hook \in Workflows \cup {None},
             \/ BeginPublish(s, c, w) \/ BeginCopy(s, c, w)
             \/ BeginCreateAgent(s, c, p, hook)
             \/ a \in Agents /\ BeginUpdateAgent(s, c, a, hook)
      PROVE  LibraryInv' /\ LibraryPending'
  <2>1. workflows' = workflows /\ agents' = agents /\ relocated' = relocated /\ torn' = torn
    BY <1>8 DEF BeginPublish, BeginCopy, BeginCreateAgent, BeginUpdateAgent, libraryVars, Begin
  <2>2. LibraryInv'
    BY <1>2, <1>3, <2>1, LibraryFromKept
  <2>3. LibraryPending'
    BY <1>8, BeginLibrary
  <2> QED BY <2>2, <2>3
<1>9. ASSUME NEW c, NEW w \in Workflows, NEW p \in Projects,
             \/ CreateWorkflow(c, p) \/ EditWorkflow(c, w) \/ DeleteWorkflow(c, w)
             \/ MoveWorkflow(c, w, p)
      PROVE  LibraryInv' /\ LibraryPending'
  <2>1. WorkflowsKept
    BY <1>9, CreateWorkflowKept, EditWorkflowKept, DeleteWorkflowKept, MoveWorkflowKept
  <2>2. agents' = agents /\ request' = request
    BY <1>9 DEF CreateWorkflow, EditWorkflow, DeleteWorkflow, MoveWorkflow, AtOnce
  <2> QED BY <1>3, <1>4, <2>1, <2>2
<1>10. ASSUME NEW c, NEW a \in Agents, DeleteAgent(c, a) PROVE LibraryInv' /\ LibraryPending'
  <2>1. workflows' = workflows /\ relocated' = relocated /\ torn' = torn /\ request' = request
    BY <1>10 DEF DeleteAgent, AtOnce
  <2>2. AgentsKept
    BY <1>10, DeleteAgentKept
  <2> QED BY <1>2, <1>4, <2>1, <2>2
<1>11. PICK p0 \in Projects : TRUE
  OBVIOUS
<1>12. FirstDraft \in Workflows
  OBVIOUS
<1> QED BY <1>5, <1>6, <1>7, <1>8, <1>9, <1>10, <1>11, <1>12 DEF LibraryNext

\* The requests of the other parts, which may make projects.
LEMMA LibraryAside ==
  ASSUME LibraryInv, LibraryPending, UNCHANGED libraryVars, torn \subseteq torn',
         \A p \in Projects : Live(projects, p) => Live(projects, p)',
         NEW ops, Moves(ops), "insert" \notin ops, "agent" \notin ops
  PROVE  LibraryInv' /\ LibraryPending'
<1>1. workflows' = workflows /\ agents' = agents /\ relocated' = relocated
  BY DEF libraryVars
<1>2. WorkflowsKept
  BY <1>1, WorkflowsAside
<1>3. \A a \in Agents : Live(agents, a) => Live(projects', agents[a].project)
  <2>1. \A a \in Agents : Live(agents, a) => agents[a].project \in Projects
    BY DEF LibraryInv, Live, AgentRows
  <2> QED BY <2>1 DEF LibraryInv
<1>4. AgentsKept
  <2>1. WorkflowsMove /\ agents' \in [Agents -> AgentRows \cup {NoRow, Gone}]
    BY <1>1, <1>2 DEF WorkflowsKept, LibraryInv
  <2> QED BY <1>1, <1>3, <2>1, AgentsAside
<1> QED BY <1>2, <1>4, LibraryFromKept, PendingStays DEF WorkflowsKept, AgentsKept

\* Deleting a project.
LEMMA DropLibrary ==
  ASSUME LibraryInv, LibraryPending, NEW p \in Projects, DropLibraryOf(p), torn' = torn,
         request' = request,
         \A q \in Projects : Live(projects, q) /\ q # p => Live(projects, q)'
  PROVE  LibraryInv' /\ LibraryPending'
<1>1. WorkflowsKept
  BY DropWorkflowsKept
<1>2. AgentsKept
  BY <1>1, DropAgentsKept DEF WorkflowsKept
<1> QED BY <1>1, <1>2, LibraryFromKept, OwnPendingStays DEF WorkflowsKept, AgentsKept

LEMMA InitLibrary == AccountsInit /\ LibraryInit => LibraryInv /\ LibraryPending
<1> SUFFICES ASSUME AccountsInit, LibraryInit PROVE LibraryInv /\ LibraryPending
  OBVIOUS
<1> USE AccountsAssumption, LibraryAssumption
<1>1. PICK p \in FirstProjects : p = FirstProject
  BY DEF FirstProject
<1>2. PICK draft \in WorkflowRows, published \in WorkflowRows :
         /\ draft = WorkflowRow(p, None, 0) /\ draft.draft = None /\ draft.project = p
         /\ published = WorkflowRow(p, FirstDraft, 1) /\ published.draft = FirstDraft
         /\ published.project = p
  <2>1. /\ WorkflowRow(p, None, 0) \in WorkflowRows /\ WorkflowRow(p, FirstDraft, 1) \in WorkflowRows
        /\ WorkflowRow(p, None, 0).draft = None /\ WorkflowRow(p, FirstDraft, 1).draft = FirstDraft
        /\ WorkflowRow(p, None, 0).project = p /\ WorkflowRow(p, FirstDraft, 1).project = p
    BY <1>1 DEF WorkflowRow, WorkflowRows
  <2> QED BY <2>1
<1>3. \A w \in Workflows : workflows[w] = IF w = FirstDraft THEN draft
                                          ELSE IF w = FirstVersion THEN published ELSE NoRow
  BY <1>1, <1>2 DEF LibraryInit
<1>4. workflows \in [Workflows -> WorkflowRows \cup {NoRow, Gone}]
  <2>1. workflows = [w \in Workflows |-> workflows[w]]
    BY DEF LibraryInit
  <2> QED BY <1>3, <2>1
<1>5. agents = [a \in Agents |-> NoRow]
  BY DEF LibraryInit
<1>6. Live(projects, p)
  <2>1. projects[p] = FirstUser
    BY <1>1 DEF AccountsInit
  <2> QED BY <2>1 DEF Live
<1>7. \A w \in Workflows : /\ Live(workflows, w) <=> w \in {FirstDraft, FirstVersion}
                           /\ Live(workflows, w) => workflows[w].project = p
                           /\ Live(workflows, w) /\ workflows[w].draft # None => w = FirstVersion
  BY <1>2, <1>3 DEF Live
<1>8. VersionsFollowTheirDraft
  <2>1. \A d : VersionsOf(d) \ {FirstVersion} = {} \/ d = None
    BY <1>7 DEF VersionsOf
  <2> QED BY <1>2, <1>3, <1>7, <2>1 DEF VersionsFollowTheirDraft, IsDraft
<1>9. LibraryPending
  BY DEF AccountsInit, LibraryPending, Doing
<1>10. LibraryInv
  BY <1>4, <1>5, <1>6, <1>7, <1>8 DEF LibraryInv, Live
<1> QED BY <1>9, <1>10

-----------------------------------------------------------------------------
(* Knowledge bases *)

\* What may happen to a base, and to a document, in a step.
BasesMove ==
  \A b \in Bases :
    \/ bases'[b] = bases[b]
    \/ bases[b] = NoRow
    \/ Live(bases, b) /\ bases'[b] = Gone
    \/ /\ Live(bases, b) /\ bases'[b] \in BaseRows
       /\ bases'[b].writes = bases[b].writes + 1

DocumentsMove ==
  \A d \in Documents :
    \/ documents'[d] = documents[d]
    \/ documents'[d] = Gone /\ documents[d] # NoRow
    \/ /\ documents[d] = NoRow /\ documents'[d] \in DocumentRows
       /\ bases'[documents'[d].base] # bases[documents'[d].base]

\* What was read of a base is not newer than the base after the step, either.
LEMMA ReadStays ==
  ASSUME KnowledgeInv, BasesMove, NEW b \in Bases, NEW seen \in BaseRows, Read(b, seen)
  PROVE  Read(b, seen)' /\ (bases'[b] = seen => bases[b] = seen)
<1> USE AccountsAssumption, KnowledgeAssumption
<1>1. bases[b] # NoRow /\ (Live(bases, b) => seen.writes <= bases[b].writes)
  BY DEF Read
<1>2. seen.writes \in Nat /\ (Live(bases, b) => bases[b] \in BaseRows /\ bases[b].writes \in Nat)
  BY DEF KnowledgeInv, Live, BaseRows
<1>3. seen # Gone
  OBVIOUS
<1>4. CASE bases'[b] = bases[b]
  BY <1>1, <1>4 DEF Read, Live
<1>5. CASE bases'[b] = Gone
  BY <1>1, <1>3, <1>5 DEF Read, Live
<1>6. CASE Live(bases, b) /\ bases'[b] \in BaseRows /\ bases'[b].writes = bases[b].writes + 1
  <2>1. seen.writes <= bases'[b].writes /\ seen.writes # bases'[b].writes
    BY <1>1, <1>2, <1>6
  <2>2. bases'[b] # seen
    BY <1>2, <2>1
  <2>3. bases'[b] # NoRow
    BY <1>6
  <2> QED BY <1>2, <2>1, <2>2, <2>3 DEF Read
<1> QED BY <1>1, <1>4, <1>5, <1>6 DEF BasesMove

\* In a base that is as it was, no text appears.
LEMMA NoNewText ==
  ASSUME KnowledgeInv, BasesMove, DocumentsMove, NEW b \in Bases, NEW t, bases'[b] = bases[b],
         SameContent(b, t) = {}
  PROVE  SameContent(b, t)' = {}
<1> USE AccountsAssumption, KnowledgeAssumption
<1> SUFFICES ASSUME NEW d \in Documents, Live(documents, d)', documents'[d].base = b, documents'[d].text = t
             PROVE  FALSE
  BY DEF SameContent, DocumentsOf
<1>1. documents'[d] = documents[d]
  BY DEF DocumentsMove, Live
<1> QED BY <1>1 DEF SameContent, DocumentsOf, Live

\* What is pending stays right.
LEMMA KnowledgePendingStays ==
  ASSUME KnowledgeInv, KnowledgePending, BasesMove, DocumentsMove, NEW ops, Moves(ops),
         "upload" \notin ops, "store" \notin ops, "drop" \notin ops
  PROVE  KnowledgePending'
<1> USE AccountsAssumption, KnowledgeAssumption
<1>1. ASSUME NEW s \in Sessions, request'[s] = request[s], Doing(s, "upload")
      PROVE  Read(request[s].base, request[s].seen)' /\ request'[s].text \in Texts
  <2>1. PICK b, seen : b = request[s].base /\ seen = request[s].seen
    OBVIOUS
  <2>2. /\ b \in Bases /\ seen \in BaseRows /\ Read(b, seen) /\ request[s].text \in Texts
    BY <1>1, <2>1 DEF KnowledgePending, Read
  <2>3. Read(b, seen)'
    BY <2>2, ReadStays
  <2> QED BY <1>1, <2>1, <2>2, <2>3 DEF Read, Live
<1>2. ASSUME NEW s \in Sessions, request'[s] = request[s], Doing(s, "store")
      PROVE  /\ Read(request[s].base, request[s].seen)' /\ request'[s].text \in Texts
             /\ Fits(request'[s].seen.chars, request'[s].text)
             /\ (bases[request[s].base] = request[s].seen =>
                   SameContent(request[s].base, request[s].text) = {})'
  <2>1. PICK b, seen, t : b = request[s].base /\ seen = request[s].seen /\ t = request[s].text
    OBVIOUS
  <2>2. /\ b \in Bases /\ seen \in BaseRows /\ Read(b, seen) /\ t \in Texts
        /\ Fits(seen.chars, t) /\ (bases[b] = seen => SameContent(b, t) = {})
    BY <1>2, <2>1 DEF KnowledgePending, Read
  <2>3. Read(b, seen)' /\ (bases'[b] = seen => bases[b] = seen)
    BY <2>2, ReadStays
  <2>4. bases'[b] = seen => SameContent(b, t)' = {}
    BY <2>2, <2>3, NoNewText
  <2> QED BY <1>2, <2>1, <2>2, <2>3, <2>4 DEF Read, Live, SameContent, DocumentsOf
<1>3. ASSUME NEW s \in Sessions, request'[s] = request[s], Doing(s, "drop")
      PROVE  /\ Read(request[s].base, request[s].seen)' /\ request'[s].text \in Texts
             /\ request'[s].doc \in Documents /\ documents'[request'[s].doc] # NoRow
             /\ (Live(documents, request[s].doc) =>
                   documents[request[s].doc] = DocumentRow(request[s].base, request[s].text))'
  <2>1. PICK b, seen, t, d : /\ b = request[s].base /\ seen = request[s].seen
                             /\ t = request[s].text /\ d = request[s].doc
    OBVIOUS
  <2>2. /\ b \in Bases /\ seen \in BaseRows /\ Read(b, seen) /\ t \in Texts /\ d \in Documents
        /\ documents[d] # NoRow /\ (Live(documents, d) => documents[d] = DocumentRow(b, t))
    BY <1>3, <2>1 DEF KnowledgePending, Read
  <2>3. Read(b, seen)'
    BY <2>2, ReadStays
  <2>4. documents'[d] # NoRow /\ (Live(documents, d)' => documents'[d] = DocumentRow(b, t))
    BY <2>2 DEF DocumentsMove, Live
  <2> QED BY <1>3, <2>1, <2>2, <2>3, <2>4 DEF Read, Live
<1>4. \A s \in Sessions :
         /\ Doing(s, "upload")' => request'[s] = request[s] /\ Doing(s, "upload")
         /\ Doing(s, "store")' => request'[s] = request[s] /\ Doing(s, "store")
         /\ Doing(s, "drop")' => request'[s] = request[s] /\ Doing(s, "drop")
  BY DEF Moves, Doing
<1> QED BY <1>1, <1>2, <1>3, <1>4 DEF KnowledgePending

\* One base's part of CountersTellTheDocuments.
CountersTell(b) ==
  /\ bases[b].count = Cardinality(DocumentsOf(b))
  /\ bases[b].chars = Characters(b)
  /\ Readable(b)
  /\ \A d, e \in DocumentsOf(b) : documents[d].text = documents[e].text => d = e

\* Documents have numbers of characters.
LEMMA Sizes ==
  ASSUME documents \in [Documents -> DocumentRows \cup {NoRow, Gone}], NEW b
  PROVE  /\ IsFiniteSet(DocumentsOf(b))
         /\ \A d \in DocumentsOf(b) : Size(documents[d].text) \in Nat
<1> USE KnowledgeAssumption
<1>1. IsFiniteSet(DocumentsOf(b))
  BY FS_Subset DEF DocumentsOf
<1>2. \A d \in DocumentsOf(b) : documents[d].text \in Texts
  BY DEF DocumentsOf, Live, DocumentRows
<1> QED BY <1>1, <1>2

\* A base whose documents stay and whose counters stay.
LEMMA CountersStay ==
  ASSUME NEW b, DocumentsOf(b)' = DocumentsOf(b),
         \A d \in DocumentsOf(b) : documents'[d] = documents[d],
         bases'[b].count = bases[b].count, bases'[b].chars = bases[b].chars,
         CountersTell(b)
  PROVE  CountersTell(b)'
<1>1. [d \in DocumentsOf(b) |-> Size(documents[d].text)] = [d \in DocumentsOf(b) |-> Size(documents'[d].text)]
  OBVIOUS
<1>2. Characters(b)' = Characters(b)
  BY <1>1 DEF Characters
<1> QED BY <1>2 DEF CountersTell, Readable

\* A base without documents.
LEMMA EmptyCounters ==
  ASSUME NEW b, DocumentsOf(b) = {}, bases[b].count = 0, bases[b].chars = 0
  PROVE  CountersTell(b)
<1> USE KnowledgeAssumption
<1>1. Characters(b) = 0
  BY FS_EmptySet, SumZero DEF Characters
<1> QED BY <1>1, FS_EmptySet DEF CountersTell, Readable

\* A document more: with the counters as they were and the checks still valid.
LEMMA CountersWithOneMore ==
  ASSUME documents \in [Documents -> DocumentRows \cup {NoRow, Gone}],
         documents' \in [Documents -> DocumentRows \cup {NoRow, Gone}],
         NEW b, NEW n \in Documents, NEW t \in Texts,
         DocumentsOf(b)' = DocumentsOf(b) \cup {n}, n \notin DocumentsOf(b),
         \A d \in DocumentsOf(b) : documents'[d] = documents[d],
         documents'[n].text = t,
         SameContent(b, t) = {}, Fits(bases[b].chars, t),
         bases'[b].count = bases[b].count + 1, bases'[b].chars = bases[b].chars + Size(t),
         CountersTell(b)
  PROVE  CountersTell(b)'
<1> USE KnowledgeAssumption
<1> DEFINE S == DocumentsOf(b)
           f == [d \in S |-> Size(documents[d].text)]
           g == [d \in S \cup {n} |-> Size(documents'[d].text)]
<1>1. IsFiniteSet(S) /\ IsFiniteSet(S \cup {n}) /\ Cardinality(S \cup {n}) = Cardinality(S) + 1
  BY Sizes, FS_AddElement
<1>2. /\ \A d \in S : f[d] \in Nat /\ f[d] = g[d]
      /\ \A d \in S \cup {n} : g[d] \in Nat
      /\ g[n] = Size(t)
  BY Sizes
<1>3. Characters(b) = SumFunctionOnSet(f, S) /\ Characters(b)' = SumFunctionOnSet(g, S \cup {n})
  BY DEF Characters
<1>4. (S \cup {n}) \ {n} = S
  OBVIOUS
<1> HIDE DEF S, f, g
<1>5. SumFunctionOnSet(g, S \cup {n}) = g[n] + SumFunctionOnSet(g, (S \cup {n}) \ {n})
  BY <1>1, <1>2, SumRemove
<1>6. SumFunctionOnSet(g, S) = SumFunctionOnSet(f, S)
  BY <1>1, <1>2, SumEqual
<1>7. SumFunctionOnSet(f, S) \in Nat
  BY <1>1, <1>2, SumType
<1>8. Characters(b)' = Characters(b) + Size(t) /\ Characters(b) \in Nat
  BY <1>2, <1>3, <1>4, <1>5, <1>6, <1>7
<1>9. \A d, e \in DocumentsOf(b)' : documents'[d].text = documents'[e].text => d = e
  BY DEF CountersTell, SameContent
<1>10. Cardinality(DocumentsOf(b)') = Cardinality(DocumentsOf(b)) + 1
  BY <1>1 DEF S
<1> QED BY <1>8, <1>9, <1>10 DEF CountersTell, Readable, Fits

\* A document less.
LEMMA CountersWithOneLess ==
  ASSUME documents \in [Documents -> DocumentRows \cup {NoRow, Gone}],
         NEW b, NEW n \in DocumentsOf(b),
         DocumentsOf(b)' = DocumentsOf(b) \ {n},
         \A d \in DocumentsOf(b) \ {n} : documents'[d] = documents[d],
         bases'[b].count = MinusDownToZero(bases[b].count, 1),
         bases'[b].chars = MinusDownToZero(bases[b].chars, Size(documents[n].text)),
         CountersTell(b)
  PROVE  CountersTell(b)'
<1> USE KnowledgeAssumption
<1> DEFINE S == DocumentsOf(b)
           f == [d \in S |-> Size(documents[d].text)]
           g == [d \in S \ {n} |-> Size(documents'[d].text)]
<1>1. /\ IsFiniteSet(S) /\ IsFiniteSet(S \ {n}) /\ Cardinality(S \ {n}) = Cardinality(S) - 1
      /\ Cardinality(S) \in Nat /\ Cardinality(S \ {n}) \in Nat
  BY Sizes, FS_RemoveElement, FS_CardinalityType
<1>2. /\ \A d \in S : f[d] \in Nat
      /\ \A d \in S \ {n} : g[d] = f[d]
      /\ f[n] = Size(documents[n].text)
  BY Sizes
<1>3. Characters(b) = SumFunctionOnSet(f, S) /\ Characters(b)' = SumFunctionOnSet(g, S \ {n})
  BY DEF Characters
<1>4. n \in S
  OBVIOUS
<1> HIDE DEF S, f, g
<1>5. SumFunctionOnSet(f, S) = f[n] + SumFunctionOnSet(f, S \ {n})
  BY <1>1, <1>2, <1>4, SumRemove
<1>6. SumFunctionOnSet(g, S \ {n}) = SumFunctionOnSet(f, S \ {n})
  BY <1>1, <1>2, SumEqual
<1>7. SumFunctionOnSet(f, S \ {n}) \in Nat
  BY <1>1, <1>2, SumType
<1>8. PICK k \in Nat, x \in Nat :
         /\ x = Size(documents[n].text) /\ Characters(b)' = k /\ Characters(b) = x + k
  BY <1>2, <1>3, <1>4, <1>5, <1>6, <1>7
<1>9. bases'[b].chars = Characters(b)' /\ Characters(b)' <= Characters(b)
  BY <1>8 DEF CountersTell, MinusDownToZero
<1>10. bases'[b].count = Cardinality(DocumentsOf(b)')
  BY <1>1 DEF CountersTell, MinusDownToZero, S
<1>11. \A d, e \in DocumentsOf(b)' : documents'[d].text = documents'[e].text => d = e
  BY DEF CountersTell
<1> QED BY <1>8, <1>9, <1>10, <1>11 DEF CountersTell, Readable

\* What a request owes the layer.
KnowledgeKept ==
  /\ KnowledgeInv' /\ BasesMove /\ DocumentsMove

\* Nothing is written.
LEMMA KnowledgeUnwritten ==
  ASSUME KnowledgeInv, UNCHANGED knowledgeVars, torn \subseteq torn',
         \A p \in Projects : Live(projects, p) => Live(projects, p)'
  PROVE  KnowledgeKept
<1> USE AccountsAssumption, KnowledgeAssumption
<1>1. bases' = bases /\ documents' = documents
  BY DEF knowledgeVars
<1>2. BasesMove /\ DocumentsMove
  BY <1>1 DEF BasesMove, DocumentsMove
<1>3. \A b \in Bases : Live(bases, b) => Live(projects', bases[b].project)
  <2>1. \A b \in Bases : Live(bases, b) => bases[b].project \in Projects
    BY DEF KnowledgeInv, Live, BaseRows
  <2> QED BY <2>1 DEF KnowledgeInv
<1>4. \A b : DocumentsOf(b)' = DocumentsOf(b)
  BY <1>1 DEF DocumentsOf, Live
<1>5. \A b : CountersTell(b) => CountersTell(b)'
  BY <1>1, <1>4, CountersStay
<1>6. CountersTellTheDocuments'
  <2>1. \A b \in Bases : Live(bases, b) /\ b \notin torn => CountersTell(b)
    BY DEF KnowledgeInv, CountersTellTheDocuments, CountersTell
  <2>2. \A b \in Bases : Live(bases, b)' /\ b \notin torn' => CountersTell(b)'
    BY <1>1, <1>5, <2>1 DEF Live
  <2> QED BY <2>2 DEF CountersTellTheDocuments, CountersTell
<1>7. KnowledgeInv'
  BY <1>1, <1>3, <1>6 DEF KnowledgeInv, Live
<1> QED BY <1>2, <1>7 DEF KnowledgeKept

\* A new base has no documents, since none names what was not there.
LEMMA CreateBaseKept ==
  ASSUME KnowledgeInv, NEW c, NEW p \in Projects, CreateBase(c, p), UNCHANGED projects
  PROVE  KnowledgeKept
<1> USE AccountsAssumption, KnowledgeAssumption
<1>1. DOMAIN bases = Bases
  BY DEF KnowledgeInv
<1>2. PICK n \in Bases : bases[n] = NoRow /\ bases' = [bases EXCEPT ![n] = BaseRow(p)]
  BY <1>1, FreshIsFree DEF CreateBase
<1>3. Live(projects, p) /\ torn' = torn /\ documents' = documents
  BY DEF CreateBase, Authorized, AtOnce
<1>4. PICK row \in BaseRows : row = BaseRow(p) /\ row.project = p /\ row.count = 0 /\ row.chars = 0
  <2>1. /\ BaseRow(p) \in BaseRows /\ BaseRow(p).project = p
        /\ BaseRow(p).count = 0 /\ BaseRow(p).chars = 0
    BY DEF BaseRow, BaseRows
  <2> QED BY <2>1
<1>5. \A b \in Bases : bases'[b] = IF b = n THEN row ELSE bases[b]
  BY <1>2, <1>4 DEF KnowledgeInv
<1>6. bases' \in [Bases -> BaseRows \cup {NoRow, Gone}]
  BY <1>2, <1>4 DEF KnowledgeInv
<1>7. BasesMove /\ DocumentsMove
  BY <1>2, <1>3, <1>5 DEF BasesMove, DocumentsMove
<1>8. \A b : DocumentsOf(b)' = DocumentsOf(b)
  BY <1>3 DEF DocumentsOf, Live
<1>9. DocumentsOf(n) = {}
  BY <1>2 DEF DocumentsOf, KnowledgeInv, Live
<1>10. \A b \in Bases : Live(bases, b)' /\ b \notin torn' => CountersTell(b)'
  <2> SUFFICES ASSUME NEW b \in Bases, Live(bases, b)', b \notin torn' PROVE CountersTell(b)'
    OBVIOUS
  <2>1. CASE b = n
    <3>1. DocumentsOf(b)' = {} /\ bases'[b].count = 0 /\ bases'[b].chars = 0
      BY <1>4, <1>5, <1>8, <1>9, <2>1
    <3>2. Characters(b)' = 0
      BY <3>1, FS_EmptySet, SumZero DEF Characters
    <3> QED BY <3>1, <3>2, FS_EmptySet DEF CountersTell, Readable
  <2>2. CASE b # n
    <3>1. CountersTell(b)
      BY <1>3, <1>5, <2>2 DEF KnowledgeInv, CountersTellTheDocuments, CountersTell, Live
    <3> QED BY <1>3, <1>5, <1>8, <2>2, <3>1, CountersStay
  <2> QED BY <2>1, <2>2
<1>11. CountersTellTheDocuments'
  BY <1>10 DEF CountersTellTheDocuments, CountersTell
<1>12. \A b \in Bases : Live(bases, b)' => Live(projects', bases'[b].project)
  BY <1>3, <1>4, <1>5 DEF KnowledgeInv, Live
<1>13. \A d \in Documents : Live(documents, d)' => Live(bases', documents'[d].base)
  <2>1. \A d \in Documents : Live(documents, d) => documents[d].base \in Bases
    BY DEF KnowledgeInv, Live, DocumentRows
  <2> QED BY <1>2, <1>3, <1>5, <2>1 DEF KnowledgeInv, Live
<1>14. KnowledgeInv'
  BY <1>3, <1>6, <1>11, <1>12, <1>13 DEF KnowledgeInv
<1> QED BY <1>7, <1>14 DEF KnowledgeKept

\* Deleted bases take their documents along.
LEMMA BasesDeletedKept ==
  ASSUME KnowledgeInv, NEW G \in SUBSET Bases, \A b \in G : Live(bases, b),
         bases' = [b \in Bases |-> IF b \in G THEN Gone ELSE bases[b]],
         documents' = [d \in Documents |-> IF Live(documents, d) /\ documents[d].base \in G THEN Gone
                                           ELSE documents[d]],
         torn' = torn,
         \A b \in Bases \ G : Live(bases, b) => Live(projects', bases[b].project)
  PROVE  KnowledgeKept
<1> USE AccountsAssumption, KnowledgeAssumption
<1>1. \A b \in Bases : bases'[b] = IF b \in G THEN Gone ELSE bases[b]
  OBVIOUS
<1>2. /\ bases' \in [Bases -> BaseRows \cup {NoRow, Gone}]
      /\ documents' \in [Documents -> DocumentRows \cup {NoRow, Gone}]
  BY DEF KnowledgeInv
<1>3. BasesMove /\ DocumentsMove
  BY <1>1 DEF BasesMove, DocumentsMove, Live
<1>4. \A d \in Documents : Live(documents, d)' =>
         Live(documents, d) /\ documents[d].base \notin G /\ documents'[d] = documents[d]
  BY DEF Live
<1>5. \A b \in Bases : b \notin G => DocumentsOf(b)' = DocumentsOf(b)
                                     /\ \A d \in DocumentsOf(b) : documents'[d] = documents[d]
  <2> SUFFICES ASSUME NEW b \in Bases, b \notin G
               PROVE  DocumentsOf(b)' = DocumentsOf(b)
                      /\ \A d \in DocumentsOf(b) : documents'[d] = documents[d]
    OBVIOUS
  <2>1. \A d \in DocumentsOf(b) : documents'[d] = documents[d]
    BY DEF DocumentsOf
  <2>2. DocumentsOf(b) \subseteq DocumentsOf(b)'
    BY <2>1 DEF DocumentsOf, Live
  <2>3. DocumentsOf(b)' \subseteq DocumentsOf(b)
    BY <1>4 DEF DocumentsOf
  <2> QED BY <2>1, <2>2, <2>3
<1>6. \A b \in Bases : Live(bases, b)' => b \notin G /\ Live(bases, b) /\ bases'[b] = bases[b]
  BY <1>1 DEF Live
<1>7. \A b \in Bases : Live(bases, b)' /\ b \notin torn' => CountersTell(b)'
  <2> SUFFICES ASSUME NEW b \in Bases, Live(bases, b)', b \notin torn' PROVE CountersTell(b)'
    OBVIOUS
  <2>1. CountersTell(b)
    BY <1>6 DEF KnowledgeInv, CountersTellTheDocuments, CountersTell
  <2> QED BY <1>5, <1>6, <2>1, CountersStay
<1>8. CountersTellTheDocuments'
  BY <1>7 DEF CountersTellTheDocuments, CountersTell
<1>9. \A b \in Bases : Live(bases, b)' => Live(projects', bases'[b].project)
  BY <1>6
<1>10. \A d \in Documents : Live(documents, d)' => Live(bases', documents'[d].base)
  <2>1. \A d \in Documents : Live(documents, d) => documents[d].base \in Bases
    BY DEF KnowledgeInv, Live, DocumentRows
  <2> QED BY <1>1, <1>4, <2>1 DEF KnowledgeInv, Live
<1>11. KnowledgeInv'
  BY <1>2, <1>8, <1>9, <1>10 DEF KnowledgeInv
<1> QED BY <1>3, <1>11 DEF KnowledgeKept

LEMMA DeleteBaseKept ==
  ASSUME KnowledgeInv, NEW c, NEW b \in Bases, DeleteBase(c, b), UNCHANGED projects
  PROVE  KnowledgeKept
<1> DEFINE G == {b}
<1>1. /\ Live(bases, b) /\ torn' = torn /\ bases' = [bases EXCEPT ![b] = Gone]
      /\ documents' = [d \in Documents |-> IF d \in DocumentsOf(b) THEN Gone ELSE documents[d]]
  BY DEF DeleteBase, Reaches, AtOnce
<1>2. bases' = [x \in Bases |-> IF x \in G THEN Gone ELSE bases[x]]
  BY <1>1 DEF KnowledgeInv
<1>3. documents' = [d \in Documents |-> IF Live(documents, d) /\ documents[d].base \in G THEN Gone
                                        ELSE documents[d]]
  BY <1>1 DEF DocumentsOf
<1>4. G \in SUBSET Bases /\ \A x \in G : Live(bases, x)
  BY <1>1
<1>5. \A x \in Bases \ G : Live(bases, x) => Live(projects', bases[x].project)
  BY DEF KnowledgeInv
<1> HIDE DEF G
<1> QED BY <1>1, <1>2, <1>3, <1>4, <1>5, BasesDeletedKept

LEMMA DropBasesKept ==
  ASSUME KnowledgeInv, NEW p \in Projects, DropBasesOf(p), torn' = torn,
         \A q \in Projects : Live(projects, q) /\ q # p => Live(projects, q)'
  PROVE  KnowledgeKept
<1> DEFINE G == {b \in Bases : Live(bases, b) /\ bases[b].project = p}
<1>1. bases' = [x \in Bases |-> IF x \in G THEN Gone ELSE bases[x]]
  BY DEF DropBasesOf
<1>2. documents' = [d \in Documents |-> IF Live(documents, d) /\ documents[d].base \in G THEN Gone
                                        ELSE documents[d]]
  <2>1. \A d \in Documents : (\E b \in G : d \in DocumentsOf(b)) <=> Live(documents, d) /\ documents[d].base \in G
    BY DEF DocumentsOf
  <2>2. documents' = [d \in Documents |-> IF \E b \in G : d \in DocumentsOf(b) THEN Gone ELSE documents[d]]
    BY DEF DropBasesOf
  <2> HIDE DEF G
  <2> QED BY <2>1, <2>2
<1>3. G \in SUBSET Bases /\ \A x \in G : Live(bases, x)
  OBVIOUS
<1>4. \A x \in Bases \ G : Live(bases, x) => Live(projects', bases[x].project)
  <2>1. \A x \in Bases : Live(bases, x) => bases[x].project \in Projects
    BY DEF KnowledgeInv, Live, BaseRows
  <2> QED BY <2>1 DEF KnowledgeInv
<1> HIDE DEF G
<1> QED BY <1>1, <1>2, <1>3, <1>4, BasesDeletedKept

\* The row that an upload or a deletion writes.
LEMMA WrittenRow ==
  ASSUME KnowledgeInv, NEW b \in Bases, Live(bases, b), NEW seen \in BaseRows,
         NEW count \in Nat, NEW chars \in Nat, WriteBack(b, seen, count, chars)
  PROVE  \E row \in BaseRows :
           /\ bases' = [bases EXCEPT ![b] = row]
           /\ row.project = bases[b].project /\ row.writes = bases[b].writes + 1
           /\ bases[b] = seen => row.count = count /\ row.chars = chars
<1>1. PICK p \in Projects, n \in Nat, k \in Nat, w \in Nat :
         bases[b] = [project |-> p, count |-> n, chars |-> k, writes |-> w]
  BY DEF KnowledgeInv, Live, BaseRows
<1>2. seen.count \in Nat /\ seen.chars \in Nat
  BY DEF BaseRows
<1>3. PICK m, l : m = Column(n, seen.count, count) /\ l = Column(k, seen.chars, chars)
  OBVIOUS
<1>4. m \in Nat /\ l \in Nat
  BY <1>2, <1>3 DEF Column
<1>5. bases[b] = seen => m = count /\ l = chars
  BY <1>1, <1>3 DEF Column
<1>6. PICK row : row = [project |-> p, count |-> m, chars |-> l, writes |-> w + 1]
  OBVIOUS
<1>7. row \in BaseRows
  BY <1>4, <1>6 DEF BaseRows
<1>8. bases' = [bases EXCEPT ![b] = row]
  BY <1>1, <1>3, <1>6 DEF WriteBack
<1>9. /\ row.project = p /\ row.writes = w + 1 /\ row.count = m /\ row.chars = l
      /\ bases[b].project = p /\ bases[b].writes = w
  BY <1>1, <1>6
<1> QED BY <1>5, <1>7, <1>8, <1>9

\* The end of an upload or a deletion: base b is written, its documents change as the two
\* lemmas on the counters say, or the base is noted.
LEMMA WriteKept ==
  ASSUME KnowledgeInv, NEW b \in Bases, Live(bases, b), NEW row \in BaseRows,
         bases' = [bases EXCEPT ![b] = row], row.project = bases[b].project,
         row.writes = bases[b].writes + 1,
         documents' \in [Documents -> DocumentRows \cup {NoRow, Gone}],
         NEW n \in Documents,
         \A d \in Documents : d # n => documents'[d] = documents[d],
         \/ documents'[n] = Gone /\ documents[n] # NoRow
         \/ documents[n] = NoRow /\ Live(documents, n)' /\ documents'[n].base = b,
         Live(documents, n) => documents[n].base = b,
         torn \subseteq torn', projects' = projects,
         CountersTell(b) /\ b \notin torn' => CountersTell(b)'
  PROVE  KnowledgeKept
<1> USE AccountsAssumption, KnowledgeAssumption
<1>1. \A x \in Bases : bases'[x] = IF x = b THEN row ELSE bases[x]
  BY DEF KnowledgeInv
<1>2. bases' \in [Bases -> BaseRows \cup {NoRow, Gone}]
  BY DEF KnowledgeInv
<1>3. row # bases[b]
  <2>1. bases[b].writes \in Nat
    BY DEF KnowledgeInv, Live, BaseRows
  <2> QED BY <2>1
<1>4. BasesMove
  BY <1>1 DEF BasesMove
<1>5. DocumentsMove
  <2>1. Live(documents, n)' => documents'[n] \in DocumentRows
    BY DEF Live
  <2> QED BY <1>1, <1>3, <2>1 DEF DocumentsMove
<1>6. \A x \in Bases : Live(bases, x)' <=> Live(bases, x)
  BY <1>1 DEF Live
<1>7. ASSUME NEW x \in Bases, x # b
      PROVE  DocumentsOf(x)' = DocumentsOf(x) /\ \A d \in DocumentsOf(x) : documents'[d] = documents[d]
  <2>1. n \notin DocumentsOf(x)
    BY <1>7 DEF DocumentsOf
  <2>2. n \notin DocumentsOf(x)'
    BY <1>7 DEF DocumentsOf, Live
  <2> QED BY <2>1, <2>2 DEF DocumentsOf, Live
<1>8. \A x \in Bases : Live(bases, x)' /\ x \notin torn' => CountersTell(x)'
  <2> SUFFICES ASSUME NEW x \in Bases, Live(bases, x)', x \notin torn' PROVE CountersTell(x)'
    OBVIOUS
  <2>1. CountersTell(x)
    BY <1>6 DEF KnowledgeInv, CountersTellTheDocuments, CountersTell
  <2>2. CASE x = b
    BY <2>1, <2>2
  <2>3. CASE x # b
    BY <1>1, <1>7, <2>1, <2>3, CountersStay
  <2> QED BY <2>2, <2>3
<1>9. CountersTellTheDocuments'
  BY <1>8 DEF CountersTellTheDocuments, CountersTell
<1>10. \A x \in Bases : Live(bases, x)' => Live(projects', bases'[x].project)
  BY <1>1, <1>6 DEF KnowledgeInv
<1>11. ASSUME NEW d \in Documents, Live(documents, d)' PROVE Live(bases', documents'[d].base)
  <2>1. CASE d = n
    BY <1>6, <1>11, <2>1 DEF Live
  <2>2. CASE d # n
    <3>1. Live(documents, d) /\ documents'[d] = documents[d]
      BY <1>11, <2>2 DEF Live
    <3>2. documents[d].base \in Bases /\ Live(bases, documents[d].base)
      BY <3>1 DEF KnowledgeInv, Live, DocumentRows
    <3> QED BY <1>6, <3>1, <3>2
  <2> QED BY <2>1, <2>2
<1>12. KnowledgeInv'
  BY <1>2, <1>9, <1>10, <1>11 DEF KnowledgeInv
<1> QED BY <1>4, <1>5, <1>12 DEF KnowledgeKept

LEMMA FinishUploadKept ==
  ASSUME KnowledgeInv, KnowledgePending, NEW s \in Sessions, FinishUpload(s), UNCHANGED projects
  PROVE  KnowledgeKept
<1> USE AccountsAssumption, KnowledgeAssumption
<1>1. PICK b \in Bases, t \in Texts, seen \in BaseRows :
         b = request[s].base /\ t = request[s].text /\ seen = request[s].seen
  BY DEF FinishUpload, KnowledgePending, Read
<1>2. /\ Live(bases, b) /\ Fits(seen.chars, t)
      /\ bases[b] = seen => SameContent(b, t) = {}
  BY <1>1 DEF FinishUpload, KnowledgePending
<1>3. DOMAIN documents = Documents
  BY DEF KnowledgeInv
<1>4. PICK n \in Documents :
         documents[n] = NoRow /\ documents' = [documents EXCEPT ![n] = DocumentRow(b, t)]
  BY <1>1, <1>3, FreshIsFree DEF FinishUpload
<1>5. PICK doc \in DocumentRows : doc = DocumentRow(b, t) /\ doc.base = b /\ doc.text = t
  <2>1. DocumentRow(b, t) \in DocumentRows /\ DocumentRow(b, t).base = b /\ DocumentRow(b, t).text = t
    BY DEF DocumentRow, DocumentRows
  <2> QED BY <2>1
<1>6. \A d \in Documents : documents'[d] = IF d = n THEN doc ELSE documents[d]
  BY <1>4, <1>5 DEF KnowledgeInv
<1>7. documents' \in [Documents -> DocumentRows \cup {NoRow, Gone}]
  BY <1>4, <1>5 DEF KnowledgeInv
<1>8. seen.count + 1 \in Nat /\ seen.chars + Size(t) \in Nat
  BY DEF BaseRows
<1>9. WriteBack(b, seen, seen.count + 1, seen.chars + Size(t))
  BY <1>1 DEF FinishUpload
<1>10. PICK row \in BaseRows :
           /\ bases' = [bases EXCEPT ![b] = row]
           /\ row.project = bases[b].project /\ row.writes = bases[b].writes + 1
           /\ bases[b] = seen => row.count = seen.count + 1 /\ row.chars = seen.chars + Size(t)
  BY <1>2, <1>8, <1>9, WrittenRow
<1>11. torn \subseteq torn' /\ (b \notin torn' => bases[b] = seen)
  BY <1>1 DEF FinishUpload, Finish
<1>12. ~Live(documents, n) /\ Live(documents, n)' /\ documents'[n].base = b
  BY <1>4, <1>5, <1>6 DEF Live
<1>13. ASSUME CountersTell(b), b \notin torn' PROVE CountersTell(b)'
  <2>1. bases[b] = seen /\ SameContent(b, t) = {} /\ bases'[b] = row
    BY <1>2, <1>10, <1>11, <1>13 DEF KnowledgeInv
  <2>2. n \notin DocumentsOf(b)
    BY <1>12 DEF DocumentsOf
  <2>3. \A d \in DocumentsOf(b) : documents'[d] = documents[d]
    BY <1>6, <2>2 DEF DocumentsOf
  <2>4. DocumentsOf(b)' = DocumentsOf(b) \cup {n}
    BY <1>6, <1>12 DEF DocumentsOf, Live
  <2>5. documents'[n].text = t
    BY <1>5, <1>6
  <2>6. documents \in [Documents -> DocumentRows \cup {NoRow, Gone}]
    BY DEF KnowledgeInv
  <2> QED BY <1>2, <1>7, <1>10, <1>13, <2>1, <2>2, <2>3, <2>4, <2>5, <2>6, CountersWithOneMore
<1>14. \A d \in Documents : d # n => documents'[d] = documents[d]
  BY <1>6
<1>15. \/ documents'[n] = Gone /\ documents[n] # NoRow
       \/ documents[n] = NoRow /\ Live(documents, n)' /\ documents'[n].base = b
  BY <1>4, <1>12
<1>16. Live(bases, b) /\ torn \subseteq torn' /\ projects' = projects
  BY <1>2, <1>11
<1>17. CountersTell(b) /\ b \notin torn' => CountersTell(b)'
  BY <1>13
<1>18. /\ bases' = [bases EXCEPT ![b] = row] /\ row.project = bases[b].project
       /\ row.writes = bases[b].writes + 1
  BY <1>10
<1>19. Live(documents, n) => documents[n].base = b
  BY <1>12
<1> QED BY <1>7, <1>14, <1>15, <1>16, <1>17, <1>18, <1>19, WriteKept

LEMMA FinishDeleteKept ==
  ASSUME KnowledgeInv, KnowledgePending, NEW s \in Sessions, FinishDeleteDocument(s),
         UNCHANGED projects
  PROVE  KnowledgeKept
<1> USE AccountsAssumption, KnowledgeAssumption
<1>1. PICK b \in Bases, t \in Texts, seen \in BaseRows, n \in Documents :
         b = request[s].base /\ t = request[s].text /\ seen = request[s].seen /\ n = request[s].doc
  BY DEF FinishDeleteDocument, KnowledgePending, Read
<1>2. /\ Live(bases, b) /\ documents[n] # NoRow
      /\ Live(documents, n) => documents[n] = DocumentRow(b, t)
  BY <1>1 DEF FinishDeleteDocument, KnowledgePending
<1>3. documents' = [documents EXCEPT ![n] = Gone]
  BY <1>1 DEF FinishDeleteDocument
<1>4. DocumentRow(b, t).base = b /\ DocumentRow(b, t).text = t
  BY DEF DocumentRow
<1>5. /\ documents'[n] = Gone /\ ~Live(documents, n)'
      /\ \A d \in Documents : d # n => documents'[d] = documents[d]
  BY <1>3 DEF KnowledgeInv, Live
<1>6. documents' \in [Documents -> DocumentRows \cup {NoRow, Gone}]
  BY <1>3 DEF KnowledgeInv
<1>7. seen.count \in Nat /\ seen.chars \in Nat /\ Size(t) \in Nat
  BY DEF BaseRows
<1>8. MinusDownToZero(seen.count, 1) \in Nat /\ MinusDownToZero(seen.chars, Size(t)) \in Nat
  BY <1>7 DEF MinusDownToZero
<1>9. WriteBack(b, seen, MinusDownToZero(seen.count, 1), MinusDownToZero(seen.chars, Size(t)))
  BY <1>1 DEF FinishDeleteDocument
<1>10. PICK row \in BaseRows :
           /\ bases' = [bases EXCEPT ![b] = row]
           /\ row.project = bases[b].project /\ row.writes = bases[b].writes + 1
           /\ bases[b] = seen => /\ row.count = MinusDownToZero(seen.count, 1)
                                 /\ row.chars = MinusDownToZero(seen.chars, Size(t))
  BY <1>2, <1>8, <1>9, WrittenRow
<1>11. torn \subseteq torn' /\ (b \notin torn' => bases[b] = seen /\ Live(documents, n))
  BY <1>1 DEF FinishDeleteDocument, Finish
<1>12. Live(documents, n) => documents[n].base = b
  BY <1>2, <1>4
<1>13. ASSUME CountersTell(b), b \notin torn' PROVE CountersTell(b)'
  <2>1. bases[b] = seen /\ Live(documents, n) /\ bases'[b] = row
    BY <1>10, <1>11, <1>13 DEF KnowledgeInv
  <2>2. n \in DocumentsOf(b) /\ documents[n].text = t
    BY <1>2, <1>4, <2>1 DEF DocumentsOf
  <2>3. \A d \in DocumentsOf(b) \ {n} : documents'[d] = documents[d]
    BY <1>5 DEF DocumentsOf
  <2>4. DocumentsOf(b)' = DocumentsOf(b) \ {n}
    BY <1>5 DEF DocumentsOf, Live
  <2>5. documents \in [Documents -> DocumentRows \cup {NoRow, Gone}]
    BY DEF KnowledgeInv
  <2> QED BY <1>10, <1>13, <2>1, <2>2, <2>3, <2>4, <2>5, CountersWithOneLess
<1> QED BY <1>2, <1>5, <1>6, <1>10, <1>11, <1>12, <1>13, WriteKept

\* A request on a base that begins, and an upload that has passed its checks.
LEMMA BeginKnowledge ==
  ASSUME KnowledgeInv, KnowledgePending, NEW s \in Sessions, NEW c, NEW b \in Bases,
         NEW t \in Texts, NEW d,
         \/ BeginUpload(s, c, b, t) \/ CheckUpload(s)
         \/ d \in Documents /\ BeginDeleteDocument(s, c, d),
         request = [x \in Sessions |-> request[x]]
  PROVE  KnowledgePending'
<1> USE AccountsAssumption, KnowledgeAssumption
<1>1. bases' = bases /\ documents' = documents
  BY DEF BeginUpload, CheckUpload, BeginDeleteDocument, knowledgeVars
<1>2. ASSUME NEW r, request' = [request EXCEPT ![s] = r],
             Read(r.base, r.seen), r.text \in Texts,
             \/ r.op = "upload"
             \/ /\ r.op = "store" /\ Fits(r.seen.chars, r.text)
                /\ SameContent(r.base, r.text) = {}
             \/ /\ r.op = "drop" /\ r.doc \in Documents
                /\ documents[r.doc] # NoRow /\ documents[r.doc] = DocumentRow(r.base, r.text)
      PROVE  KnowledgePending'
  <2>1. \A x \in Sessions : request'[x] = IF x = s THEN r ELSE request[x]
    BY <1>2
  <2>2. KnowledgePending
    OBVIOUS
  <2> QED BY <1>1, <1>2, <2>1, <2>2 DEF KnowledgePending, Doing, Read, Live, SameContent, DocumentsOf
<1>3. \A x \in Bases : Live(bases, x) => bases[x] \in BaseRows /\ bases[x].writes \in Nat /\ bases[x] # NoRow
  BY DEF KnowledgeInv, Live, BaseRows
<1>4. \A x \in Bases : Live(bases, x) => Read(x, bases[x])
  BY <1>3 DEF Read
<1>5. CASE BeginUpload(s, c, b, t)
  <2>1. PICK r : r = [op |-> "upload", base |-> b, text |-> t, seen |-> bases[b]]
    OBVIOUS
  <2>2. request' = [request EXCEPT ![s] = r] /\ Live(bases, b)
    BY <1>5, <2>1 DEF BeginUpload, Begin, Reaches
  <2> QED BY <1>2, <1>4, <2>1, <2>2
<1>6. CASE CheckUpload(s)
  <2>1. PICK r : r = [request[s] EXCEPT !.op = "store"]
    OBVIOUS
  <2>2. request' = [request EXCEPT ![s] = r]
    BY <1>6, <2>1 DEF CheckUpload
  <2>3. r.op = "store" \/ r = request[s]
    BY <2>1
  <2>4. r.base = request[s].base /\ r.seen = request[s].seen /\ r.text = request[s].text
    BY <2>1
  <2>5. /\ Read(r.base, r.seen) /\ r.text \in Texts
        /\ Fits(r.seen.chars, r.text) /\ SameContent(r.base, r.text) = {}
    BY <1>6, <2>4 DEF CheckUpload, KnowledgePending
  <2>6. r.op = "store" \/ r.op = "upload"
    BY <1>6, <2>3 DEF CheckUpload, Doing
  <2> QED BY <1>2, <2>2, <2>5, <2>6
<1>7. CASE d \in Documents /\ BeginDeleteDocument(s, c, d)
  <2>1. PICK r : r = [op |-> "drop", base |-> documents[d].base, doc |-> d, text |-> documents[d].text,
                      seen |-> bases[documents[d].base]]
    OBVIOUS
  <2>2. /\ request' = [request EXCEPT ![s] = r]
        /\ Live(documents, d) /\ Live(bases, documents[d].base)
    BY <1>7, <2>1 DEF BeginDeleteDocument, Begin, Reaches
  <2>3. PICK x \in Bases, u \in Texts : documents[d] = [base |-> x, text |-> u]
    BY <1>7, <2>2 DEF KnowledgeInv, Live, DocumentRows
  <2>4. documents[d] = DocumentRow(r.base, r.text) /\ documents[d] # NoRow /\ r.text \in Texts
    BY <2>1, <2>2, <2>3 DEF DocumentRow, Live
  <2>5. Read(r.base, r.seen)
    BY <1>4, <2>1, <2>2, <2>3
  <2> QED BY <1>2, <1>7, <2>1, <2>2, <2>4, <2>5
<1> QED BY <1>5, <1>6, <1>7

\* Every request on knowledge bases keeps the layer.
LEMMA NextKnowledge ==
  ASSUME KnowledgeInv, KnowledgePending, KnowledgeNext, UNCHANGED projects,
         request = [x \in Sessions |-> request[x]]
  PROVE  KnowledgeInv' /\ KnowledgePending'
<1> USE AccountsAssumption, KnowledgeAssumption
<1>1. \A p \in Projects : Live(projects, p) => Live(projects, p)'
  BY DEF Live
<1>2. ASSUME KnowledgeKept, \A x \in Sessions : request'[x] = request[x] \/ request'[x] = Idle
      PROVE  KnowledgeInv' /\ KnowledgePending'
  <2>1. Moves({})
    BY <1>2 DEF Moves
  <2> QED BY <1>2, <2>1, KnowledgePendingStays DEF KnowledgeKept
<1>3. ASSUME NEW s \in Sessions, FinishUpload(s) PROVE KnowledgeInv' /\ KnowledgePending'
  <2>1. \A x \in Sessions : request'[x] = request[x] \/ request'[x] = Idle
    BY <1>3 DEF FinishUpload, Finish
  <2> QED BY <1>2, <1>3, <2>1, FinishUploadKept
<1>4. ASSUME NEW s \in Sessions, FinishDeleteDocument(s) PROVE KnowledgeInv' /\ KnowledgePending'
  <2>1. \A x \in Sessions : request'[x] = request[x] \/ request'[x] = Idle
    BY <1>4 DEF FinishDeleteDocument, Finish
  <2> QED BY <1>2, <1>4, <2>1, FinishDeleteKept
<1>5. ASSUME NEW s \in Sessions, UploadRefused(s) \/ BaseWasDeleted(s)
      PROVE  KnowledgeInv' /\ KnowledgePending'
  <2>1. /\ UNCHANGED knowledgeVars /\ torn \subseteq torn'
        /\ \A x \in Sessions : request'[x] = request[x] \/ request'[x] = Idle
    BY <1>5 DEF UploadRefused, BaseWasDeleted, Finish
  <2> QED BY <1>1, <1>2, <2>1, KnowledgeUnwritten
<1>6. ASSUME NEW s \in Sessions, NEW c, NEW b \in Bases, NEW t \in Texts, NEW d,
             \/ BeginUpload(s, c, b, t) \/ CheckUpload(s)
             \/ d \in Documents /\ BeginDeleteDocument(s, c, d)
      PROVE  KnowledgeInv' /\ KnowledgePending'
  <2>1. UNCHANGED knowledgeVars /\ torn' = torn
    BY <1>6 DEF BeginUpload, CheckUpload, BeginDeleteDocument, Begin
  <2>2. KnowledgeInv'
    BY <1>1, <2>1, KnowledgeUnwritten DEF KnowledgeKept
  <2>3. KnowledgePending'
    BY <1>6, BeginKnowledge
  <2> QED BY <2>2, <2>3
<1>7. ASSUME NEW s \in Sessions, CheckUpload(s) PROVE KnowledgeInv' /\ KnowledgePending'
  <2>1. request[s].text \in Texts /\ FirstBase \in Bases
    BY <1>7 DEF CheckUpload, KnowledgePending
  <2> QED BY <1>6, <1>7, <2>1
<1>8. ASSUME NEW s \in Sessions, NEW c, NEW d \in Documents, BeginDeleteDocument(s, c, d)
      PROVE  KnowledgeInv' /\ KnowledgePending'
  <2>1. documents[d].text \in Texts /\ FirstBase \in Bases
    BY <1>8 DEF BeginDeleteDocument, KnowledgeInv, Live, DocumentRows
  <2> QED BY <1>6, <1>8, <2>1
<1>9. ASSUME NEW c, NEW p \in Projects, CreateBase(c, p) PROVE KnowledgeInv' /\ KnowledgePending'
  <2>1. request' = request
    BY <1>9 DEF CreateBase, AtOnce
  <2> QED BY <1>2, <1>9, <2>1, CreateBaseKept
<1>10. ASSUME NEW c, NEW b \in Bases, DeleteBase(c, b) PROVE KnowledgeInv' /\ KnowledgePending'
  <2>1. request' = request
    BY <1>10 DEF DeleteBase, AtOnce
  <2> QED BY <1>2, <1>10, <2>1, DeleteBaseKept
<1> QED BY <1>3, <1>4, <1>5, <1>6, <1>7, <1>8, <1>9, <1>10 DEF KnowledgeNext

\* The requests of the other parts.
LEMMA KnowledgeAside ==
  ASSUME KnowledgeInv, KnowledgePending, UNCHANGED knowledgeVars, torn \subseteq torn',
         \A p \in Projects : Live(projects, p) => Live(projects, p)',
         NEW ops, Moves(ops), "upload" \notin ops, "store" \notin ops, "drop" \notin ops
  PROVE  KnowledgeInv' /\ KnowledgePending'
BY KnowledgeUnwritten, KnowledgePendingStays DEF KnowledgeKept

\* Deleting a project.
LEMMA DropKnowledge ==
  ASSUME KnowledgeInv, KnowledgePending, NEW p \in Projects, DropBasesOf(p), torn' = torn,
         request' = request,
         \A q \in Projects : Live(projects, q) /\ q # p => Live(projects, q)'
  PROVE  KnowledgeInv' /\ KnowledgePending'
<1>1. Moves({})
  BY DEF Moves
<1> QED BY <1>1, DropBasesKept, KnowledgePendingStays DEF KnowledgeKept

LEMMA InitKnowledge == AccountsInit /\ KnowledgeInit => KnowledgeInv /\ KnowledgePending
<1> SUFFICES ASSUME AccountsInit, KnowledgeInit PROVE KnowledgeInv /\ KnowledgePending
  OBVIOUS
<1> USE AccountsAssumption, KnowledgeAssumption
<1>1. PICK p \in FirstProjects : p = CHOOSE q \in FirstProjects : TRUE
  OBVIOUS
<1>2. PICK row \in BaseRows : row = BaseRow(p) /\ row.project = p /\ row.count = 0 /\ row.chars = 0
  <2>1. /\ BaseRow(p) \in BaseRows /\ BaseRow(p).project = p
        /\ BaseRow(p).count = 0 /\ BaseRow(p).chars = 0
    BY <1>1 DEF BaseRow, BaseRows
  <2> QED BY <2>1
<1>3. /\ bases = [b \in Bases |-> IF b = FirstBase THEN row ELSE NoRow]
      /\ documents = [d \in Documents |-> NoRow]
  BY <1>1, <1>2 DEF KnowledgeInit
<1>4. \A b \in Bases : Live(bases, b) => bases[b] = row
  BY <1>3 DEF Live
<1>5. Live(projects, p)
  <2>1. projects[p] = FirstUser
    BY <1>1 DEF AccountsInit
  <2> QED BY <2>1 DEF Live
<1>6. \A b : DocumentsOf(b) = {}
  BY <1>3 DEF DocumentsOf, Live
<1>7. CountersTellTheDocuments
  <2>1. \A b \in Bases : Live(bases, b) => CountersTell(b)
    BY <1>2, <1>4, <1>6, EmptyCounters
  <2> QED BY <2>1 DEF CountersTellTheDocuments, CountersTell
<1>8. KnowledgePending
  BY DEF AccountsInit, KnowledgePending, Doing
<1>9. bases \in [Bases -> BaseRows \cup {NoRow, Gone}] /\ documents \in [Documents -> DocumentRows \cup {NoRow, Gone}]
  BY <1>3
<1>10. KnowledgeInv
  BY <1>2, <1>3, <1>4, <1>5, <1>7, <1>9 DEF KnowledgeInv, Live
<1> QED BY <1>8, <1>10

-----------------------------------------------------------------------------
(* Assets *)

\* A row of assets that appears or changes names a live project.
LEMMA AssetWritten ==
  ASSUME AssetsInv, NEW a \in Assets, NEW row \in AssetRows, Live(projects, row.project),
         assets' = [assets EXCEPT ![a] = row], UNCHANGED projects
  PROVE  AssetsInv'
BY DEF AssetsInv, Live

LEMMA AssetRemoved ==
  ASSUME AssetsInv, NEW a \in Assets, assets' = [assets EXCEPT ![a] = Gone], UNCHANGED projects
  PROVE  AssetsInv'
BY DEF AssetsInv, Live

\* Every request on credentials, channels and templates keeps the layer.
LEMMA NextAssets ==
  ASSUME AssetsInv, AssetsNext, UNCHANGED projects
  PROVE  AssetsInv'
<1> USE AssetsAssumption
<1>1. ASSUME NEW c, NEW p \in Projects, Authorized(c, p),
             NEW kind \in {"credential", "channel", "template"}, Insert(p, kind)
      PROVE  AssetsInv'
  <2>1. PICK a \in Assets : assets' = [assets EXCEPT ![a] = AssetRow(p, kind)]
    <3>1. DOMAIN assets = Assets
      BY DEF AssetsInv
    <3> QED BY <1>1, <3>1, FreshIsFree DEF Insert
  <2>2. AssetRow(p, kind) \in AssetRows /\ AssetRow(p, kind).project = p
    BY DEF AssetRow, AssetRows
  <2>3. Live(projects, p)
    BY <1>1 DEF Authorized
  <2> QED BY <2>1, <2>2, <2>3, AssetWritten
<1>2. ASSUME NEW kind, NEW a \in AssetsOf(kind), Alter(a) \/ Remove(a)
      PROVE  AssetsInv'
  <2>1. a \in Assets /\ Live(assets, a) /\ assets[a] \in AssetRows
    BY DEF AssetsOf, AssetsInv, Live
  <2>2. CASE Alter(a)
    <3>1. PICK row \in AssetRows : row = [assets[a] EXCEPT !.body = 1 - @]
      <4>1. PICK p \in Projects, k \in {"credential", "channel", "template"}, body \in 0..1 :
               assets[a] = [project |-> p, kind |-> k, body |-> body]
        BY <2>1 DEF AssetRows
      <4>2. 1 - body \in 0..1
        OBVIOUS
      <4>3. [assets[a] EXCEPT !.body = 1 - @] = [project |-> p, kind |-> k, body |-> 1 - body]
        BY <4>1
      <4>4. [project |-> p, kind |-> k, body |-> 1 - body] \in AssetRows
        BY <4>2 DEF AssetRows
      <4> QED BY <4>3, <4>4
    <3>2. row.project = assets[a].project
      BY <2>1, <3>1 DEF AssetRows
    <3>3. assets' = [assets EXCEPT ![a] = row]
      BY <2>2, <3>1 DEF Alter
    <3>4. Live(projects, row.project)
      BY <2>1, <3>2 DEF AssetsInv
    <3> QED BY <2>1, <3>3, <3>4, AssetWritten
  <2>3. CASE Remove(a)
    BY <2>1, <2>3, AssetRemoved DEF Remove
  <2> QED BY <1>2, <2>2, <2>3
<1>3. ASSUME NEW c \in Callers, CredentialRequest(c) PROVE AssetsInv'
  BY <1>1, <1>2, <1>3 DEF CredentialRequest, CreateCredential, UpdateCredential, RemoveCredential
<1>4. ASSUME NEW c \in Callers, ChannelRequest(c) PROVE AssetsInv'
  BY <1>1, <1>2, <1>4 DEF ChannelRequest, CreateChannel, UpdateChannel, DeleteChannel
<1>5. ASSUME NEW c \in Callers, TemplateRequest(c) PROVE AssetsInv'
  BY <1>1, <1>2, <1>5 DEF TemplateRequest, CreateTemplate, UpdateTemplate, DeleteTemplate
<1> QED BY <1>3, <1>4, <1>5 DEF AssetsNext

\* The requests of the other parts.
LEMMA AssetsAside ==
  ASSUME AssetsInv, UNCHANGED assets,
         \A p \in Projects : Live(projects, p) => Live(projects, p)'
  PROVE  AssetsInv'
<1>1. \A a \in Assets : Live(assets, a) => assets[a].project \in Projects
  BY DEF AssetsInv, AssetRows, Live
<1>2. \A a \in Assets : Live(assets', a) => Live(assets, a)
  BY DEF Live
<1>3. \A a \in Assets : Live(assets', a) => Live(projects', assets'[a].project)
  BY <1>1, <1>2 DEF AssetsInv, Live
<1> QED BY <1>3 DEF AssetsInv, Live

\* Deleting a project.
LEMMA DropAssets ==
  ASSUME AssetsInv, NEW p \in Projects, DropAssetsOf(p),
         \A q \in Projects : Live(projects, q) /\ q # p => Live(projects, q)'
  PROVE  AssetsInv'
<1>1. assets' \in [Assets -> AssetRows \cup {NoRow, Gone}]
  BY DEF DropAssetsOf, AssetsInv
<1>2. ASSUME NEW a \in Assets, Live(assets', a) PROVE Live(projects', assets'[a].project)
  <2>1. assets'[a] = assets[a] /\ Live(assets, a) /\ assets[a].project # p
    BY <1>2 DEF DropAssetsOf, Live
  <2>2. assets[a].project \in Projects /\ Live(projects, assets[a].project)
    BY <2>1 DEF AssetsInv, AssetRows, Live
  <2> QED BY <2>1, <2>2 DEF Live
<1> QED BY <1>1, <1>2 DEF AssetsInv, Live

LEMMA InitAssets == AssetsInit => AssetsInv
BY DEF AssetsInit, AssetsInv, Live

-----------------------------------------------------------------------------
(* The workspace *)

\* What a step of one part does to the sessions: it turns to a request of that part's kinds,
\* and what is torn stays torn.
SessionsMove(ops) ==
  /\ Moves(ops)
  /\ torn \subseteq torn'
  /\ request' = [s \in Sessions |-> request'[s]]

\* A request that begins, one that ends and one that takes a single step.
LEMMA BeginMoves ==
  ASSUME request = [x \in Sessions |-> request[x]], NEW s, NEW r, Begin(s, r),
         NEW ops, r.op \in ops
  PROVE  SessionsMove(ops)
<1>1. request' = [request EXCEPT ![s] = r] /\ torn' = torn
  BY DEF Begin
<1> QED BY <1>1 DEF SessionsMove, Moves

LEMMA FinishMoves ==
  ASSUME request = [x \in Sessions |-> request[x]], NEW s, NEW stale, Finish(s, stale), NEW ops
  PROVE  SessionsMove(ops)
<1>1. request' = [request EXCEPT ![s] = Idle] /\ torn' = torn \cup stale
  BY DEF Finish
<1> QED BY <1>1 DEF SessionsMove, Moves

LEMMA AtOnceMoves ==
  ASSUME request = [x \in Sessions |-> request[x]], AtOnce, NEW ops
  PROVE  SessionsMove(ops)
<1>1. request' = request /\ torn' = torn
  BY DEF AtOnce
<1> QED BY <1>1 DEF SessionsMove, Moves

LEMMA AccountsMoves ==
  ASSUME request = [x \in Sessions |-> request[x]], AccountsNext
  PROVE  SessionsMove({"register", "add", "remove"})
<1> DEFINE ops == {"register", "add", "remove"}
<1>1. ASSUME NEW s \in Sessions,
             \/ FinishRegister(s) \/ FinishOAuth(s) \/ AddressTaken(s)
             \/ FinishAddMember(s) \/ FinishRemoveMember(s)
      PROVE  SessionsMove(ops)
  <2>1. Finish(s, {})
    BY <1>1 DEF FinishRegister, FinishOAuth, AddressTaken, FinishAddMember, FinishRemoveMember
  <2> QED BY <2>1, FinishMoves
<1>2. ASSUME NEW s \in Sessions, NEW c, NEW o, NEW u, NEW provider, NEW owner,
             \/ BeginRegister(s, u) \/ BeginOAuth(s, u, provider)
             \/ BeginRemoveMember(s, c, o, u) \/ BeginAddMember(s, c, o, u, owner)
      PROVE  SessionsMove(ops)
  <2>1. PICK r : Begin(s, r) /\ r.op \in ops
    <3>1. BeginRegister(s, u) => \E r : Begin(s, r) /\ r.op \in ops
      BY DEF BeginRegister
    <3>2. BeginOAuth(s, u, provider) => \E r : Begin(s, r) /\ r.op \in ops
      BY DEF BeginOAuth
    <3>3. BeginRemoveMember(s, c, o, u) => \E r : Begin(s, r) /\ r.op \in ops
      BY DEF BeginRemoveMember
    <3>4. BeginAddMember(s, c, o, u, owner) => \E r : Begin(s, r) /\ r.op \in ops
      BY DEF BeginAddMember
    <3> QED BY <1>2, <3>1, <3>2, <3>3, <3>4
  <2> QED BY <2>1, BeginMoves
<1>3. ASSUME NEW c, NEW o, NEW p,
             \/ CreateProject(c) \/ SetCurrentOrganization(c, o)
             \/ CreateKey(c, p) \/ DeleteKey(c, p)
      PROVE  SessionsMove(ops)
  <2>1. AtOnce
    BY <1>3 DEF CreateProject, SetCurrentOrganization, CreateKey, DeleteKey
  <2> QED BY <2>1, AtOnceMoves
<1> QED BY <1>1, <1>2, <1>3 DEF AccountsNext

LEMMA LibraryMoves ==
  ASSUME request = [x \in Sessions |-> request[x]], LibraryNext
  PROVE  SessionsMove({"insert", "agent"})
<1> DEFINE ops == {"insert", "agent"}
<1>1. ASSUME NEW s \in Sessions,
             FinishInsert(s) \/ ParentWasDeleted(s) \/ FinishAgent(s) \/ AgentWasDeleted(s)
      PROVE  SessionsMove(ops)
  <2>1. \E stale : Finish(s, stale)
    BY <1>1 DEF FinishInsert, ParentWasDeleted, FinishAgent, AgentWasDeleted
  <2> QED BY <2>1, FinishMoves
<1>2. ASSUME NEW s \in Sessions, NEW c, NEW w, NEW p, NEW a, NEW hook,
             \/ BeginPublish(s, c, w) \/ BeginCopy(s, c, w)
             \/ BeginCreateAgent(s, c, p, hook) \/ BeginUpdateAgent(s, c, a, hook)
      PROVE  SessionsMove(ops)
  <2>1. PICK r : Begin(s, r) /\ r.op \in ops
    BY <1>2 DEF BeginPublish, BeginCopy, BeginCreateAgent, BeginUpdateAgent
  <2> QED BY <2>1, BeginMoves
<1>3. ASSUME NEW c, NEW w, NEW p, NEW a,
             \/ CreateWorkflow(c, p) \/ EditWorkflow(c, w) \/ DeleteWorkflow(c, w)
             \/ MoveWorkflow(c, w, p) \/ DeleteAgent(c, a)
      PROVE  SessionsMove(ops)
  <2>1. AtOnce
    BY <1>3 DEF CreateWorkflow, EditWorkflow, DeleteWorkflow, MoveWorkflow, DeleteAgent
  <2> QED BY <2>1, AtOnceMoves
<1> QED BY <1>1, <1>2, <1>3 DEF LibraryNext

LEMMA KnowledgeMoves ==
  ASSUME request = [x \in Sessions |-> request[x]], KnowledgeNext
  PROVE  SessionsMove({"upload", "store", "drop"})
<1> DEFINE ops == {"upload", "store", "drop"}
<1>1. ASSUME NEW s \in Sessions,
             UploadRefused(s) \/ FinishUpload(s) \/ FinishDeleteDocument(s) \/ BaseWasDeleted(s)
      PROVE  SessionsMove(ops)
  <2>1. \E stale : Finish(s, stale)
    BY <1>1 DEF UploadRefused, FinishUpload, FinishDeleteDocument, BaseWasDeleted
  <2> QED BY <2>1, FinishMoves
<1>2. ASSUME NEW s \in Sessions, CheckUpload(s) PROVE SessionsMove(ops)
  <2>1. PICK r : r = [request[s] EXCEPT !.op = "store"]
    OBVIOUS
  <2>2. request' = [request EXCEPT ![s] = r] /\ torn' = torn
    BY <1>2, <2>1 DEF CheckUpload
  <2>3. r.op = "store" \/ r = request[s]
    BY <2>1
  <2> QED BY <2>2, <2>3 DEF SessionsMove, Moves
<1>3. ASSUME NEW s \in Sessions, NEW c, NEW b, NEW t, NEW d,
             BeginUpload(s, c, b, t) \/ BeginDeleteDocument(s, c, d)
      PROVE  SessionsMove(ops)
  <2>1. PICK r : Begin(s, r) /\ r.op \in ops
    BY <1>3 DEF BeginUpload, BeginDeleteDocument
  <2> QED BY <2>1, BeginMoves
<1>4. ASSUME NEW c, NEW p, NEW b, CreateBase(c, p) \/ DeleteBase(c, b)
      PROVE  SessionsMove(ops)
  <2>1. AtOnce
    BY <1>4 DEF CreateBase, DeleteBase
  <2> QED BY <2>1, AtOnceMoves
<1> QED BY <1>1, <1>2, <1>3, <1>4 DEF KnowledgeNext

LEMMA AssetsMoves ==
  ASSUME request = [x \in Sessions |-> request[x]], AssetsNext
  PROVE  SessionsMove({})
<1>1. AtOnce
  BY DEF AssetsNext, CredentialRequest, ChannelRequest, TemplateRequest
<1> QED BY <1>1, AtOnceMoves

\* Every step keeps the invariant: the part that acts keeps its own layer, and its steps are
\* steps aside for the others.
LEMMA NextInv == Inv /\ [Next]_vars => Inv'
<1> SUFFICES ASSUME Inv, [Next]_vars PROVE Inv'
  OBVIOUS
<1> USE DEF Inv
<1>1. CASE AccountsNext /\ UNCHANGED <<libraryVars, knowledgeVars, assets>>
  <2>1. SessionsMove({"register", "add", "remove"})
    BY <1>1, AccountsMoves
  <2>2. \A p \in Projects : Live(projects, p) => Live(projects, p)'
    BY <1>1, ProjectsStay
  <2>3. AccountsInv' /\ AccountsPending'
    BY <1>1, NextAccounts
  <2>4. LibraryInv' /\ LibraryPending'
    BY <1>1, <2>1, <2>2, LibraryAside DEF SessionsMove
  <2>5. KnowledgeInv' /\ KnowledgePending'
    BY <1>1, <2>1, <2>2, KnowledgeAside DEF SessionsMove
  <2>6. AssetsInv'
    BY <1>1, <2>2, AssetsAside
  <2> QED BY <2>1, <2>3, <2>4, <2>5, <2>6 DEF SessionsMove
<1>2. CASE LibraryNext /\ UNCHANGED <<accountVars, knowledgeVars, assets>>
  <2>1. SessionsMove({"insert", "agent"})
    BY <1>2, LibraryMoves
  <2>2. projects' = projects
    BY <1>2 DEF accountVars
  <2>3. AccountsInv' /\ AccountsPending'
    BY <1>2, <2>1, AccountsAside DEF SessionsMove
  <2>4. LibraryInv' /\ LibraryPending'
    BY <1>2, <2>2, NextLibrary
  <2>5. KnowledgeInv' /\ KnowledgePending'
    BY <1>2, <2>1, <2>2, KnowledgeAside DEF SessionsMove, Live
  <2>6. AssetsInv'
    BY <1>2, <2>2, AssetsAside DEF Live
  <2> QED BY <2>1, <2>3, <2>4, <2>5, <2>6 DEF SessionsMove
<1>3. CASE KnowledgeNext /\ UNCHANGED <<accountVars, libraryVars, assets>>
  <2>1. SessionsMove({"upload", "store", "drop"})
    BY <1>3, KnowledgeMoves
  <2>2. projects' = projects
    BY <1>3 DEF accountVars
  <2>3. AccountsInv' /\ AccountsPending'
    BY <1>3, <2>1, AccountsAside DEF SessionsMove
  <2>4. LibraryInv' /\ LibraryPending'
    BY <1>3, <2>1, <2>2, LibraryAside DEF SessionsMove, Live
  <2>5. KnowledgeInv' /\ KnowledgePending'
    BY <1>3, <2>2, NextKnowledge
  <2>6. AssetsInv'
    BY <1>3, <2>2, AssetsAside DEF Live
  <2> QED BY <2>1, <2>3, <2>4, <2>5, <2>6 DEF SessionsMove
<1>4. CASE AssetsNext /\ UNCHANGED <<accountVars, libraryVars, knowledgeVars>>
  <2>1. SessionsMove({})
    BY <1>4, AssetsMoves
  <2>2. projects' = projects
    BY <1>4 DEF accountVars
  <2>3. AccountsInv' /\ AccountsPending'
    BY <1>4, <2>1, AccountsAside DEF SessionsMove
  <2>4. LibraryInv' /\ LibraryPending'
    BY <1>4, <2>1, <2>2, LibraryAside DEF SessionsMove, Live
  <2>5. KnowledgeInv' /\ KnowledgePending'
    BY <1>4, <2>1, <2>2, KnowledgeAside DEF SessionsMove, Live
  <2>6. AssetsInv'
    BY <1>4, <2>2, NextAssets
  <2> QED BY <2>1, <2>3, <2>4, <2>5, <2>6 DEF SessionsMove
<1>5. ASSUME NEW c \in Callers, NEW p \in Projects, DeleteProject(c, p) PROVE Inv'
  <2>1. /\ request' = request /\ torn' = torn
        /\ DropProject(p) /\ DropLibraryOf(p) /\ DropBasesOf(p) /\ DropAssetsOf(p)
    BY <1>5 DEF DeleteProject, AtOnce
  <2>2. \A q \in Projects : Live(projects, q) /\ q # p => Live(projects, q)'
    BY <2>1 DEF DropProject, Live, AccountsInv
  <2>3. AccountsInv' /\ AccountsPending'
    BY <2>1, DropAccounts
  <2>4. LibraryInv' /\ LibraryPending'
    BY <2>1, <2>2, DropLibrary
  <2>5. KnowledgeInv' /\ KnowledgePending'
    BY <2>1, <2>2, DropKnowledge
  <2>6. AssetsInv'
    BY <2>1, <2>2, DropAssets
  <2>7. request' = [s \in Sessions |-> request'[s]]
    BY <2>1
  <2> QED BY <2>3, <2>4, <2>5, <2>6, <2>7
<1>6. CASE UNCHANGED vars
  <2>1. /\ UNCHANGED accountVars /\ UNCHANGED libraryVars /\ UNCHANGED knowledgeVars
        /\ assets' = assets /\ request' = request /\ torn' = torn
    BY <1>6 DEF vars, requestVars
  <2>2. Moves({}) /\ projects' = projects
    BY <2>1 DEF Moves, accountVars
  <2>3. AccountsInv' /\ AccountsPending'
    BY <2>1, <2>2, AccountsAside
  <2>4. LibraryInv' /\ LibraryPending'
    BY <2>1, <2>2, LibraryAside DEF Live
  <2>5. KnowledgeInv' /\ KnowledgePending'
    BY <2>1, <2>2, KnowledgeAside DEF Live
  <2>6. AssetsInv'
    BY <2>1, <2>2, AssetsAside DEF Live
  <2> QED BY <2>1, <2>3, <2>4, <2>5, <2>6
<1> QED BY <1>1, <1>2, <1>3, <1>4, <1>5, <1>6 DEF Next

\* The tables the seeds leave satisfy the invariant.
LEMMA InitInv == Init => Inv
<1> SUFFICES ASSUME Init PROVE Inv
  OBVIOUS
<1>1. request = [s \in Sessions |-> request[s]]
  BY DEF Init, AccountsInit
<1> QED BY <1>1, InitAccounts, InitLibrary, InitKnowledge, InitAssets DEF Init, Inv

\* The layers of the invariant hold in every state of the workspace.
THEOREM WorkspaceInvariant == Spec => []Inv
<1> QED BY InitInv, NextInv, PTL DEF Spec

\* Nobody loses the organisation made for them, whatever owners of other organisations do and
\* whichever registrations overlap, and one way in leads to each account.
THEOREM EveryoneKeepsAHome == Spec => []EveryoneHasAHome
<1>1. Inv => EveryoneHasAHome
  BY HomeFromInv DEF Inv
<1> QED BY <1>1, WorkspaceInvariant, PTL

\* Published versions stay with their draft and are numbered apart, except where publishing
\* wrote what it had read before a move or another publication.
THEOREM VersionsInPlace == Spec => []VersionsFollowTheirDraft
<1>1. Inv => VersionsFollowTheirDraft
  BY DEF Inv, LibraryInv
<1> QED BY <1>1, WorkspaceInvariant, PTL

\* The counters of a knowledge base tell its documents, for any number of documents and any
\* sizes, except where an upload or a deletion wrote over what it had not read.
THEOREM CountersExplained == Spec => []CountersTellTheDocuments
<1>1. Inv => CountersTellTheDocuments
  BY DEF Inv, KnowledgeInv
<1> QED BY <1>1, WorkspaceInvariant, PTL

\* Deleting a project, a base, a draft or a key leaves no row that names what is gone, and no
\* request that began before brings one back.
THEOREM NothingLeftBehind == Spec => []NothingDangles
<1>1. Inv => NothingDangles
  <2> SUFFICES ASSUME Inv PROVE NothingDangles
    OBVIOUS
  <2> USE DEF Inv
  <2>1. \A p \in keys : Live(projects, p) /\ accounts[projects[p]] # NoRow
    BY DEF AccountsInv
  <2>2. /\ DOMAIN workflows = Workflows /\ DOMAIN agents = Agents
        /\ DOMAIN bases = Bases /\ DOMAIN assets = Assets
    BY DEF LibraryInv, KnowledgeInv, AssetsInv
  <2>3. /\ \A i \in Workflows : Live(workflows, i) => Live(projects, workflows[i].project)
        /\ \A i \in Agents : Live(agents, i) => Live(projects, agents[i].project)
        /\ \A i \in Bases : Live(bases, i) => Live(projects, bases[i].project)
        /\ \A i \in Assets : Live(assets, i) => Live(projects, assets[i].project)
        /\ \A d \in Documents : Live(documents, d) => Live(bases, documents[d].base)
    BY DEF LibraryInv, KnowledgeInv, AssetsInv
  <2>4. HooksStayInTheirProject
    BY DEF LibraryInv, HookKept, HooksStayInTheirProject
  <2> QED BY <2>1, <2>2, <2>3, <2>4 DEF NothingDangles
<1> QED BY <1>1, WorkspaceInvariant, PTL

=============================================================================
