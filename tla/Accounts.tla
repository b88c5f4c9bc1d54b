------------------------------ MODULE Accounts ------------------------------
(***************************************************************************)
(* Accounts and access: users, the personal organisation each of them      *)
(* registers with, memberships, projects and API keys, and the requests    *)
(* that read and write them.                                               *)
(*                                                                         *)
(* A request is one database transaction under READ COMMITTED.  Where the  *)
(* handler keeps something it read and writes on the strength of it later, *)
(* the request takes two steps (Begin..., Finish...) and remembers what it *)
(* saw in request[s]; where nothing read is kept, it takes one.  A Begin   *)
(* whose checks fail is an HTTP error that changes nothing, so it is no    *)
(* step.  Every organisation is the personal one of its owner and carries  *)
(* the owner's name: no endpoint creates another.  Deleted rows leave the  *)
(* value Gone, since ids are never used again.                             *)
(***************************************************************************)
EXTENDS Naturals, FiniteSets

CONSTANTS Users, Projects, Sessions, Admins, Providers,
          None, NoRow, Gone, Idle,
          FirstUser,     \* registered before the run starts
          FirstProjects, \* the projects of that user's organisation
          MaxStarted     \* bound on the requests started in a run

VARIABLES accounts,  \* user -> NoRow or the organisation it works in (current_organization_id)
          ways,      \* user -> NoRow, "password" or the provider it registered with
          members,   \* organization_users: [org, user, owner]
          projects,  \* project -> NoRow, Gone or the organisation that owns it
          keys,      \* the projects that have an API key
          request,   \* session -> Idle or what the request in it read
          started,   \* requests started so far
          torn       \* rows that a request wrote although what it had read of them was stale

accountVars == <<accounts, ways, members, projects, keys>>
requestVars == <<request, started, torn>>

ASSUME AccountsAssumption ==
  /\ FirstUser \in Users /\ FirstProjects \subseteq Projects /\ FirstProjects # {}
  /\ Admins \subseteq Users /\ MaxStarted \in Nat
  /\ NoRow # Gone /\ NoRow \notin Users /\ Gone \notin Users /\ None \notin Projects

\* A row of organization_users.
MemberRow(o, u, owner) == [org |-> o, user |-> u, owner |-> owner]

\* get_by_org_and_user and the two questions asked of it.
Membership(o, u) == {m \in members : m.org = o /\ m.user = u}
IsMember(u, o) == Membership(o, u) # {}
IsOwner(u, o) == \E m \in Membership(o, u) : m.owner

\* verify_user_access: administrators reach every organisation.
HasAccess(u, o) == u \in Admins \/ IsMember(u, o)

\* resolve_context: key -> project -> organisation -> owner.
KeyCaller(p) == [user |-> projects[p], scope |-> p]

Ways == {"password"} \cup Providers

\* register_or_login: what the holder of an address is told. An account made with a
\* provider has no password.
PasswordAnswer(u, right) ==
  IF accounts[u] = NoRow THEN "registered"
  ELSE IF ways[u] # "password" THEN "oauth_account"
  ELSE IF right THEN "logged_in" ELSE "account_exists"

\* authenticate: the account this provider made, or a new one for a free address.
ProviderAnswer(u, provider) ==
  IF accounts[u] = NoRow THEN "registered"
  ELSE IF ways[u] = provider THEN "logged_in" ELSE "email_taken"

\* login, and the two above: who gets a token for the account.
LetsIn(u, way) ==
  IF way = "password" THEN PasswordAnswer(u, TRUE) = "logged_in"
  ELSE ProviderAnswer(u, way) = "logged_in"

\* get_user_from_token: the token names an account.
SignedIn == {u \in Users : \E way \in Ways : LetsIn(u, way)}

\* get_auth_context: a signed-in user without a project scope, or the holder of a key.
Callers == {[user |-> u, scope |-> None] : u \in SignedIn} \cup {KeyCaller(p) : p \in keys}

Live(table, id) == table[id] \notin {NoRow, Gone}

\* authorize_project_access: the key's own project only, then the organisation's members.
Authorized(c, p) ==
  /\ Live(projects, p)
  /\ c.scope \in {None, p}
  /\ HasAccess(c.user, projects[p])

\* The id an insert gives its row: any that was never used.
FreshIn(table) == {id \in DOMAIN table : table[id] = NoRow}
Fresh(table) == CHOOSE id \in FreshIn(table) : TRUE

-----------------------------------------------------------------------------
(* Requests *)

Ready(s) == request[s] = Idle /\ started < MaxStarted

\* The first half of a request: it saw r.
Begin(s, r) ==
  /\ Ready(s)
  /\ request' = [request EXCEPT ![s] = r]
  /\ started' = started + 1
  /\ UNCHANGED torn

Doing(s, op) == request[s] # Idle /\ request[s].op = op

\* The session commits; rows it wrote over a stale read are noted in torn.
Finish(s, stale) ==
  /\ request' = [request EXCEPT ![s] = Idle]
  /\ torn' = torn \cup stale
  /\ UNCHANGED started

\* A request whose reads are not used after another request can write.
AtOnce ==
  /\ \E s \in Sessions : Ready(s)
  /\ started' = started + 1
  /\ UNCHANGED <<request, torn>>

AccountsInit ==
  /\ accounts = [u \in Users |-> IF u = FirstUser THEN FirstUser ELSE NoRow]
  /\ ways = [u \in Users |-> IF u = FirstUser THEN "password" ELSE NoRow]
  /\ members = {MemberRow(FirstUser, FirstUser, TRUE)}
  /\ projects = [p \in Projects |-> IF p \in FirstProjects THEN FirstUser ELSE NoRow]
  /\ keys = {}
  /\ request = [s \in Sessions |-> Idle]
  /\ started = 0
  /\ torn = {}

-----------------------------------------------------------------------------
(* Registration *)

\* register and register_or_login with an address nobody has.
BeginRegister(s, u) ==
  /\ PasswordAnswer(u, TRUE) = "registered"
  /\ Begin(s, [op |-> "register", user |-> u, way |-> "password"])
  /\ UNCHANGED accountVars

\* oauth_authenticate: the provider vouches for an address nobody has.
BeginOAuth(s, u, provider) ==
  /\ ProviderAnswer(u, provider) = "registered"
  /\ Begin(s, [op |-> "register", user |-> u, way |-> provider])
  /\ UNCHANGED accountVars

\* _create_personal_organization_and_project: organisation, ownership, default
\* project and current organisation in the transaction that inserts the user.
PersonalSpace(u) ==
  /\ FreshIn(projects) # {}
  /\ accounts' = [accounts EXCEPT ![u] = u]
  /\ members' = members \cup {MemberRow(u, u, TRUE)}
  /\ projects' = [projects EXCEPT ![Fresh(projects)] = u]

FinishRegister(s) ==
  /\ Doing(s, "register") /\ request[s].way = "password"
  /\ accounts[request[s].user] = NoRow
  /\ PersonalSpace(request[s].user)
  /\ ways' = [ways EXCEPT ![request[s].user] = "password"]
  /\ Finish(s, {})
  /\ UNCHANGED keys

\* _create_oauth_user.
FinishOAuth(s) ==
  /\ Doing(s, "register") /\ request[s].way \in Providers
  /\ accounts[request[s].user] = NoRow
  /\ PersonalSpace(request[s].user)
  /\ ways' = [ways EXCEPT ![request[s].user] = request[s].way]
  /\ Finish(s, {})
  /\ UNCHANGED keys

\* The unique index on users.email refuses the second of two sign-ups.
AddressTaken(s) ==
  /\ Doing(s, "register")
  /\ accounts[request[s].user] # NoRow
  /\ Finish(s, {})
  /\ UNCHANGED accountVars

-----------------------------------------------------------------------------
(* Organisations *)

SetCurrentOrganization(c, o) ==
  /\ AtOnce
  /\ c.scope = None /\ accounts[o] # NoRow /\ HasAccess(c.user, o)
  /\ accounts' = [accounts EXCEPT ![c.user] = o]
  /\ UNCHANGED <<ways, members, projects, keys>>

\* add_member: the caller must own the organisation, the user must not be in it yet.
BeginAddMember(s, c, o, u, owner) ==
  /\ HasAccess(c.user, o) /\ IsOwner(c.user, o)
  /\ accounts[u] # NoRow /\ ~IsMember(u, o)
  /\ Begin(s, [op |-> "add", org |-> o, user |-> u, owner |-> owner])
  /\ UNCHANGED accountVars

\* The unique constraint (organization_id, user_id) refuses a second row.
FinishAddMember(s) ==
  /\ Doing(s, "add")
  /\ LET r == request[s] IN
       members' = IF IsMember(r.user, r.org) THEN members
                  ELSE members \cup {MemberRow(r.org, r.user, r.owner)}
  /\ Finish(s, {})
  /\ UNCHANGED <<accounts, ways, projects, keys>>

\* Mutant: whoever is in the organisation can be removed from it.
BeginRemoveAnybody(s, c, o, u) ==
  /\ HasAccess(c.user, o) /\ IsOwner(c.user, o)
  /\ Begin(s, [op |-> "remove", org |-> o, user |-> u])
  /\ UNCHANGED accountVars

\* remove_member: only an owner removes, and an owner is not removed.
BeginRemoveMember(s, c, o, u) ==
  /\ HasAccess(c.user, o) /\ IsOwner(c.user, o)
  /\ ~IsOwner(u, o)
  /\ Begin(s, [op |-> "remove", org |-> o, user |-> u])
  /\ UNCHANGED accountVars

\* The row is read again before it is deleted; current_organization_id is left alone.
FinishRemoveMember(s) ==
  /\ Doing(s, "remove")
  /\ members' = members \ Membership(request[s].org, request[s].user)
  /\ Finish(s, {})
  /\ UNCHANGED <<accounts, ways, projects, keys>>

-----------------------------------------------------------------------------
(* Projects and API keys *)

\* get_current_organization, then create_project in it; a key may do so too.
CreateProject(c) ==
  /\ AtOnce
  /\ HasAccess(c.user, accounts[c.user])
  /\ FreshIn(projects) # {}
  /\ projects' = [projects EXCEPT ![Fresh(projects)] = accounts[c.user]]
  /\ UNCHANGED <<accounts, ways, members, keys>>

CreateKey(c, p) ==
  /\ AtOnce /\ Authorized(c, p)
  /\ keys' = keys \cup {p}
  /\ UNCHANGED <<accounts, ways, members, projects>>

DeleteKey(c, p) ==
  /\ AtOnce /\ Authorized(c, p) /\ p \in keys
  /\ keys' = keys \ {p}
  /\ UNCHANGED <<accounts, ways, members, projects>>

\* delete_project: the row and, through its foreign keys, the project's API keys.
DropProject(p) ==
  /\ projects' = [projects EXCEPT ![p] = Gone]
  /\ keys' = keys \ {p}
  /\ UNCHANGED <<accounts, ways, members>>

AccountsNext ==
  \/ \E s \in Sessions :
       \/ FinishRegister(s) \/ FinishOAuth(s) \/ AddressTaken(s)
       \/ FinishAddMember(s) \/ FinishRemoveMember(s)
       \/ \E u \in Users :
            \/ BeginRegister(s, u)
            \/ \E provider \in Providers : BeginOAuth(s, u, provider)
       \/ \E c \in Callers, o, u \in Users :
            \/ BeginRemoveMember(s, c, o, u)
            \/ \E owner \in BOOLEAN : BeginAddMember(s, c, o, u, owner)
  \/ \E c \in Callers :
       \/ CreateProject(c)
       \/ \E o \in Users : SetCurrentOrganization(c, o)
       \/ \E p \in Projects : CreateKey(c, p) \/ DeleteKey(c, p)
=============================================================================
