------------------------------ MODULE Sharing ------------------------------
(***************************************************************************)
(* Who may open one web application and one dataset of one owner.          *)
(* (The access part of routers/apps.py and routers/portal.py, all of       *)
(* routers/file_share.py that concerns grants, and the viewers' check.)    *)
(*                                                                         *)
(* The same question, who may open it, is answered by several queries      *)
(* written in different places: the Ingress's auth-check, the list of      *)
(* shared apps, the recipients of a message; the list of shared datasets,  *)
(* the mounts of a pod, the viewer, the start of an access by code.  Each  *)
(* of them is an operator here; the properties compare them in every state *)
(* that grants, revocations and changes of people's profiles lead to.      *)
(***************************************************************************)
EXTENDS Naturals, Sequences, FiniteSets

CONSTANTS
  ShOwner, ShAdmin,  \* the owner of both; somebody whose token says admin
  ShOther,           \* the other people
  ShGroups,          \* columns of a profile that a grant can name
  ShUnits,           \* their values
  ShStates,          \* states of the app that occur
  ShHandler,         \* grant requests that can be under way, one per replica
  MaxGrants          \* bound: rows of app_acl and file_share_acl

ASSUME SharingAssumption ==
  /\ "team" \in ShGroups /\ ShGroups \subseteq {"team", "region", "job"}
  /\ ShOwner \notin ShOther /\ ShAdmin \notin ShOther /\ ShOwner # ShAdmin
  /\ "running" \in ShStates
  /\ MaxGrants \in Nat /\ IsFiniteSet(ShHandler)

VARIABLES
  grants,    \* the rows of both tables, in the order of their ids
  granting,  \* per handler: the grant it has found missing and will insert, or nothing
  shStatus,  \* the status of the app
  people,    \* profiles
  shClash    \* history: two grant requests have overlapped

shVars == <<grants, granting, shStatus, people, shClash>>

ShPeople == ShOther \cup {ShOwner, ShAdmin}
Nothing == [res |-> "none", kind |-> "none", value |-> "none"]
GrantKey(res, kind, value) == [res |-> res, kind |-> kind, value |-> value]

\* Grants that can be asked for; nobody can be granted what is his own.
AppKeys ==
  {GrantKey("app", "user", p) : p \in ShPeople \ {ShOwner}}
  \cup {GrantKey("app", g, u) : g \in ShGroups, u \in ShUnits}
  \cup {GrantKey("app", "company", "*")}

DataKeys ==
  {GrantKey("data", "user", p) : p \in ShPeople \ {ShOwner}}
  \cup {GrantKey("data", "team", u) : u \in ShUnits}

Keys == AppKeys \cup DataKeys

ShInit ==
  /\ grants = <<>>
  /\ granting = [h \in ShHandler |-> Nothing]
  /\ shStatus = "running"
  /\ \E u \in ShUnits :
       people = [p \in ShPeople |-> [approved |-> TRUE, unit |-> [g \in ShGroups |-> u]]]
  /\ shClash = FALSE

-----------------------------------------------------------------------------
(* The queries *)

LiveRows(k) == {i \in DOMAIN grants : grants[i].live /\ grants[i].key = k}
Live(k) == LiveRows(k) # {}

\* Mutant of AdmittedByAcl: the region is compared with the team.
AdmittedByTeamOnly(p) ==
  \/ Live(GrantKey("app", "company", "*"))
  \/ Live(GrantKey("app", "user", p))
  \/ \E g \in ShGroups : Live(GrantKey("app", g, people[p].unit["team"]))

\* The five kinds of grant, as the auth-check walks through them.
AdmittedByAcl(p) ==
  \/ Live(GrantKey("app", "company", "*"))
  \/ Live(GrantKey("app", "user", p))
  \/ \E g \in ShGroups : Live(GrantKey("app", g, people[p].unit[g]))

\* The Ingress asks on every request.  Admin and owner pass before the row is read.
AuthCheck(p) ==
  \/ p \in {ShAdmin, ShOwner}
  \/ /\ shStatus \notin {"deleted", "suspended", "pending_approval", "rejected", "inactive"}
     /\ AdmittedByAcl(p)

\* The apps others have shared with one: a query on the grants, then on the row.
ListedApp(p) ==
  /\ p # ShOwner /\ shStatus = "running"
  /\ \E i \in DOMAIN grants :
       /\ grants[i].live /\ grants[i].key.res = "app"
       /\ \/ grants[i].key.kind = "company"
          \/ grants[i].key.kind = "user" /\ grants[i].key.value = p
          \/ /\ grants[i].key.kind \in ShGroups
             /\ grants[i].key.value = people[p].unit[grants[i].key.kind]

\* Those a message about the app goes to; a grant to the whole company sends none.
Recipients ==
  LET named == {grants[i].key : i \in {j \in DOMAIN grants :
                  grants[j].live /\ grants[j].key.res = "app" /\ grants[j].key.kind # "company"}}
  IN {p \in ShPeople : \/ GrantKey("app", "user", p) \in named
                       \/ \E g \in ShGroups : GrantKey("app", g, people[p].unit[g]) \in named}

\* The datasets others have shared with one; a pod's mounts are the same query without
\* repetitions.
ListedRows(p) ==
  {i \in DOMAIN grants : /\ grants[i].live
                         /\ grants[i].key \in {GrantKey("data", "user", p),
                                               GrantKey("data", "team", people[p].unit["team"])}}
ListedData(p) == ListedRows(p) # {}

\* The viewer looks for a grant to the person, then for one to the team.
ViewerAdmits(p) ==
  \/ Live(GrantKey("data", "user", p))
  \/ Live(GrantKey("data", "team", people[p].unit["team"]))

\* Asking for a code opens to the owner at once and refuses whom no grant names.
CodeOffered(p) ==
  p = ShOwner \/ \E i \in DOMAIN grants :
    /\ grants[i].live /\ grants[i].key.res = "data"
    /\ \/ grants[i].key.kind = "user" /\ grants[i].key.value = p
       \/ grants[i].key.kind = "team" /\ grants[i].key.value = people[p].unit["team"]

\* What the owner sees of his shares.
MyShares == {i \in DOMAIN grants :
  grants[i].live /\ (grants[i].key.res = "app" => shStatus # "deleted")}

-----------------------------------------------------------------------------
(* Operations *)

\* A person must be approved, a team of a dataset must have an approved member.
Grantable(k) ==
  /\ k.res = "app" => shStatus # "deleted"
  /\ k.kind = "user" => people[k.value].approved
  /\ k.res = "data" /\ k.kind = "team" =>
       \E p \in ShPeople : people[p].approved /\ people[p].unit["team"] = k.value

Granting == {h \in ShHandler : granting[h] # Nothing}

\* Mutant of BeginGrant: no look for the same grant.
BeginGrantBlind(h, k) ==
  /\ granting[h] = Nothing
  /\ Len(grants) + Cardinality(Granting) < MaxGrants
  /\ Grantable(k)
  /\ granting' = [granting EXCEPT ![h] = k]
  /\ shClash' = (shClash \/ Granting # {})
  /\ UNCHANGED <<grants, shStatus, people>>

\* The handler finds no live grant of that key ...
BeginGrant(h, k) ==
  /\ granting[h] = Nothing
  /\ Len(grants) + Cardinality(Granting) < MaxGrants
  /\ Grantable(k) /\ ~Live(k)
  /\ granting' = [granting EXCEPT ![h] = k]
  /\ shClash' = (shClash \/ Granting # {})
  /\ UNCHANGED <<grants, shStatus, people>>

\* ... and inserts one.  No index makes the key unique.
StoreGrant(h) ==
  /\ granting[h] # Nothing
  /\ grants' = Append(grants, [key |-> granting[h], live |-> TRUE])
  /\ granting' = [granting EXCEPT ![h] = Nothing]
  /\ UNCHANGED <<shStatus, people, shClash>>

Dead(ids) == [i \in DOMAIN grants |-> IF i \in ids THEN [grants[i] EXCEPT !.live = FALSE]
                                      ELSE grants[i]]

RevokeGrant(i) ==
  /\ i \in DOMAIN grants /\ grants[i].live
  /\ grants[i].key.res = "app" => shStatus # "deleted"
  /\ grants' = Dead({i})
  /\ UNCHANGED <<granting, shStatus, people, shClash>>

\* Several shares in one transaction; the state of the app does not matter.
BulkRevoke(ids) ==
  /\ ids # {} /\ ids \subseteq {i \in DOMAIN grants : grants[i].live}
  /\ grants' = Dead(ids)
  /\ UNCHANGED <<granting, shStatus, people, shClash>>

\* The life of the app (module AppDeployment); its grants stay through all of it.
AppTurns(s) ==
  /\ shStatus' = s
  /\ UNCHANGED <<grants, granting, people, shClash>>

\* A login takes the person's units from the sign-on; an admin approves and withdraws.
ProfileTurns(p, a, unit) ==
  /\ people' = [people EXCEPT ![p] = [approved |-> a, unit |-> unit]]
  /\ UNCHANGED <<grants, granting, shStatus, shClash>>

ShNext ==
  \/ \E h \in ShHandler, k \in Keys : BeginGrant(h, k)
  \/ \E h \in ShHandler : StoreGrant(h)
  \/ \E i \in DOMAIN grants : RevokeGrant(i)
  \/ \E ids \in SUBSET DOMAIN grants : BulkRevoke(ids)
  \/ \E s \in ShStates : AppTurns(s)
  \/ \E p \in ShOther, a \in BOOLEAN, unit \in [ShGroups -> ShUnits] : ProfileTurns(p, a, unit)

ShSpec == ShInit /\ [][ShNext]_shVars

-----------------------------------------------------------------------------
(* Properties *)

\* The type invariant.
ShTypeOK ==
  /\ grants \in Seq([key : Keys, live : BOOLEAN]) /\ Len(grants) <= MaxGrants
  /\ granting \in [ShHandler -> Keys \cup {Nothing}]
  /\ shStatus \in ShStates
  /\ people \in [ShPeople -> [approved : BOOLEAN, unit : [ShGroups -> ShUnits]]]
  /\ shClash \in BOOLEAN

\* The list of shared apps and the door agree: a running app is listed to exactly those, the
\* owner and admins aside, whom the Ingress lets in, and only a running app is listed.
ListAndDoorAgree ==
  \A p \in ShOther :
    /\ ListedApp(p) => AuthCheck(p)
    /\ shStatus = "running" /\ AuthCheck(p) => ListedApp(p)

\* A message that announces the running app goes to nobody whom the door turns away.
RecipientsMayOpen ==
  shStatus = "running" => \A p \in Recipients : AuthCheck(p)

\* The four places that decide about a dataset decide alike: list (and mounts), viewer, code.
DataDoorsAgree ==
  \A p \in ShPeople \ {ShOwner} :
    /\ ListedData(p) <=> ViewerAdmits(p)
    /\ CodeOffered(p) <=> ViewerAdmits(p)

\* Whoever is admitted besides owner and admins is admitted by a share that the owner is shown:
\* with the last of these revoked nobody is.
OwnerSeesAll == MyShares = {} => \A p \in ShOther : ~AuthCheck(p) /\ ~ViewerAdmits(p)

\* While requests come one at a time a key has at most one live grant: one revocation is enough.
OneLiveGrant == ~shClash => \A k \in Keys : Cardinality(LiveRows(k)) <= 1

\* The seven queries that decide who may open the app and the dataset decide alike, and as the
\* owner is told, whatever was granted, revoked and changed in the profiles.
DoorsAgree == ListAndDoorAgree /\ RecipientsMayOpen /\ DataDoorsAgree /\ OwnerSeesAll
=============================================================================
