---------------------------- MODULE ProjectAssets ----------------------------
(***************************************************************************)
(* What else a project owns: credentials for model providers, channels for *)
(* notifications and templates of nodes. A row of either table belongs to  *)
(* the project it was made in and never changes it; what an edit changes   *)
(* (a key's value, a channel's data, a template's configuration) is a      *)
(* value of 0 .. 1. The three tables share one set of ids here.            *)
(***************************************************************************)
EXTENDS Accounts

CONSTANT Assets

VARIABLE assets  \* asset -> NoRow, Gone or [project, kind, body]

AssetRows == [project : Projects, kind : {"credential", "channel", "template"}, body : 0..1]

ASSUME AssetsAssumption == {NoRow, Gone} \cap AssetRows = {}

AssetRow(p, kind) == [project |-> p, kind |-> kind, body |-> 0]

AssetsInit == assets = [a \in Assets |-> NoRow]

AssetsOf(kind) == {a \in Assets : Live(assets, a) /\ assets[a].kind = kind}

-----------------------------------------------------------------------------
(* The services. The endpoint names the project; a row of another is refused. *)

Insert(p, kind) ==
  /\ FreshIn(assets) # {}
  /\ assets' = [assets EXCEPT ![Fresh(assets)] = AssetRow(p, kind)]

Alter(a) == assets' = [assets EXCEPT ![a].body = 1 - @]

Remove(a) == assets' = [assets EXCEPT ![a] = Gone]

\* _check_ownership of each service.
CredentialIn(a, p) == a \in AssetsOf("credential") /\ assets[a].project = p
ChannelIn(a, p)    == a \in AssetsOf("channel")    /\ assets[a].project = p
TemplateIn(a, p)   == a \in AssetsOf("template")   /\ assets[a].project = p

\* The provider's type is fixed when the key is stored, and so is the project.
CreateCredential(p)    == Insert(p, "credential")
UpdateCredential(a, p) == CredentialIn(a, p) /\ Alter(a)
RemoveCredential(a, p) == CredentialIn(a, p) /\ Remove(a)

\* Data that does not fit the channel's type is refused before anything is written.
CreateChannel(p)    == Insert(p, "channel")
UpdateChannel(a, p) == ChannelIn(a, p) /\ Alter(a)
DeleteChannel(a, p) == ChannelIn(a, p) /\ Remove(a)

CreateTemplate(p)    == Insert(p, "template")
UpdateTemplate(a, p) == TemplateIn(a, p) /\ Alter(a)
DeleteTemplate(a, p) == TemplateIn(a, p) /\ Remove(a)

-----------------------------------------------------------------------------
(* The endpoints: a new row goes to a project the caller names, an existing one *)
(* is looked up and the caller authorised against the project it is in.         *)

CredentialRequest(c) ==
  /\ AtOnce
  /\ \/ \E p \in Projects : Authorized(c, p) /\ CreateCredential(p)
     \/ \E a \in AssetsOf("credential") :
          LET p == assets[a].project IN
          Authorized(c, p) /\ (UpdateCredential(a, p) \/ RemoveCredential(a, p))

ChannelRequest(c) ==
  /\ AtOnce
  /\ \/ \E p \in Projects : Authorized(c, p) /\ CreateChannel(p)
     \/ \E a \in AssetsOf("channel") :
          LET p == assets[a].project IN
          Authorized(c, p) /\ (UpdateChannel(a, p) \/ DeleteChannel(a, p))

TemplateRequest(c) ==
  /\ AtOnce
  /\ \/ \E p \in Projects : Authorized(c, p) /\ CreateTemplate(p)
     \/ \E a \in AssetsOf("template") :
          LET p == assets[a].project IN
          Authorized(c, p) /\ (UpdateTemplate(a, p) \/ DeleteTemplate(a, p))

\* What deleting project p takes with it.
DropAssetsOf(p) ==
  assets' = [a \in Assets |-> IF Live(assets, a) /\ assets[a].project = p THEN Gone ELSE assets[a]]

AssetsNext == \E c \in Callers : CredentialRequest(c) \/ ChannelRequest(c) \/ TemplateRequest(c)
=============================================================================
