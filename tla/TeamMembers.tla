---------------------------- MODULE TeamMembers ----------------------------
(***************************************************************************)
(* The team of one merchant (team-members.service.ts): invitations,        *)
(* acceptance, login, roles, suspension and removal, each a check and a    *)
(* write that other requests may come between, and the access tokens whose *)
(* role the guards of the controller read.                                 *)
(*                                                                         *)
(* Abstractions.  A row is known by its email address and the number of    *)
(* the invitation that made it; the invitation's token is that number and  *)
(* the right password always given.  A token carries the role its member   *)
(* had at login and is good until it expires.  list reads only.            *)
(***************************************************************************)
EXTENDS Integers, FiniteSets

CONSTANTS
    Emails,
    TeamCalls,      \* calls of the endpoints of /team-members
    MaxInvites      \* bound: invitations

ASSUME TeamMembersAssumption == MaxInvites \in Nat \ {0} /\ Emails # {}

Roles == {"owner", "admin", "developer", "viewer"}
MemberRoles == Roles \ {"owner"}    \* the CHECK of 012_team_members.sql, and the DTOs
MemberStatuses == {"pending", "active", "suspended"}

VARIABLES
    member,     \* rows of team_members, by email (a set of at most one)
    invites,    \* invitations made so far
    team,       \* what each call is doing, and what it has read
    badges,     \* access tokens that have not expired
    blocked,    \* invitations whose member was suspended or removed
    crossed     \* those of them an acceptance was under way for

teamVars == <<member, invites, team, badges, blocked, crossed>>

NoMember == [n |-> 0, status |-> "pending", role |-> "viewer"]
NoTeamCall == [pc |-> "idle", email |-> CHOOSE e \in Emails : TRUE, row |-> NoMember,
               late |-> FALSE]

TeamInit ==
    /\ member = [e \in Emails |-> {}] /\ invites = 0
    /\ team = [t \in TeamCalls |-> NoTeamCall]
    /\ badges = {} /\ blocked = {} /\ crossed = {}

\* The merchant's own token, or a member's
RolesAround == {"owner"} \union {x.role : x \in badges}
\* @Roles of the controller; the service repeats it.
Guard(op) == IF op = "remove" THEN {"owner"} ELSE {"owner", "admin"}
Allowed(op, role) == role \in Guard(op)

TeamGoes(t, pc, e, row) ==
    team' = [team EXCEPT ![t] = [pc |-> pc, email |-> e, row |-> row,
                                 late |-> row.n \in blocked]]

-----------------------------------------------------------------------------
\* The first query of each operation.

InviteCheck(t, e, role) ==
    /\ team[t].pc = "idle" /\ Allowed("invite", role)
    /\ TeamGoes(t, IF member[e] = {} THEN "invite" ELSE "refused", e, NoMember)
    /\ UNCHANGED <<member, invites, badges, blocked, crossed>>

\* acceptInvite finds the row by its token, which is cleared on acceptance.
\* A pending one whose seven days are over is refused as well.
AcceptCheck(t, e) == \E row \in member[e], pc \in {"accept", "refused"} :
    /\ team[t].pc = "idle" /\ row.status # "active"
    /\ pc = "accept" => row.status = "pending"
    /\ TeamGoes(t, pc, e, row)
    /\ UNCHANGED <<member, invites, badges, blocked, crossed>>

\* Mutant: the status is not checked at login.
LoginUnchecked(t, e) == \E row \in member[e] :
    /\ team[t].pc = "idle"
    /\ TeamGoes(t, "login", e, row)
    /\ UNCHANGED <<member, invites, badges, blocked, crossed>>

LoginCheck(t, e) == \E row \in member[e] :
    /\ team[t].pc = "idle"
    /\ TeamGoes(t, IF row.status = "active" THEN "login" ELSE "refused", e, row)
    /\ UNCHANGED <<member, invites, badges, blocked, crossed>>

RoleCheck(t, e, role) == \E row \in member[e] :
    /\ team[t].pc = "idle" /\ Allowed("role", role)
    /\ TeamGoes(t, "role", e, row)
    /\ UNCHANGED <<member, invites, badges, blocked, crossed>>

-----------------------------------------------------------------------------
\* The write.  An UPDATE by id touches nothing when the row has gone.

TeamDone(t, pc) == team' = [team EXCEPT ![t].pc = pc]
Same(t) == {row \in member[team[t].email] : row.n = team[t].row.n}

\* INSERT: (merchant_id, email) is UNIQUE
InviteInsert(t, role) ==
    /\ team[t].pc = "invite"
    /\ IF member[team[t].email] = {}
       THEN /\ invites < MaxInvites /\ invites' = invites + 1
            /\ member' = [member EXCEPT ![team[t].email] =
                             {[n |-> invites + 1, status |-> "pending", role |-> role]}]
            /\ TeamDone(t, "done")
       ELSE TeamDone(t, "failed") /\ UNCHANGED <<member, invites>>
    /\ UNCHANGED <<badges, blocked, crossed>>

\* The UPDATE names the id alone, not the status that was checked.
AcceptUpdate(t) ==
    /\ team[t].pc = "accept"
    /\ member' = [member EXCEPT ![team[t].email] =
                     {IF row \in Same(t) THEN [row EXCEPT !.status = "active"] ELSE row : row \in @}]
    /\ TeamDone(t, "done")
    /\ UNCHANGED <<invites, badges, blocked, crossed>>

\* UPDATE last_login_at, and the token with what was read before
LoginSign(t) ==
    /\ team[t].pc = "login"
    /\ badges' = badges \union {[n |-> team[t].row.n, role |-> team[t].row.role,
                                 late |-> team[t].late]}
    /\ TeamDone(t, "done")
    /\ UNCHANGED <<member, invites, blocked, crossed>>

RoleUpdate(t, role) ==
    /\ team[t].pc = "role"
    /\ member' = [member EXCEPT ![team[t].email] =
                     {IF row \in Same(t) THEN [row EXCEPT !.role = role] ELSE row : row \in @}]
    /\ TeamDone(t, "done")
    /\ UNCHANGED <<invites, badges, blocked, crossed>>

TeamFails(t) ==
    /\ team[t].pc \in {"invite", "accept", "login", "role"}
    /\ TeamDone(t, "failed")
    /\ UNCHANGED <<member, invites, badges, blocked, crossed>>

\* suspend and remove are one statement each.
Block(e, op, role, rows) == \E row \in member[e] :
    /\ Allowed(op, role)
    /\ member' = [member EXCEPT ![e] = rows]
    /\ blocked' = blocked \union {row.n}
    /\ crossed' = IF \E t \in TeamCalls : team[t].pc = "accept" /\ team[t].row.n = row.n
                  THEN crossed \union {row.n} ELSE crossed
    /\ UNCHANGED <<invites, team, badges>>

Suspend(e, role) == Block(e, "suspend", role, {[x EXCEPT !.status = "suspended"] : x \in member[e]})
Remove(e, role) == Block(e, "remove", role, {})

\* JWT_EXPIRY
BadgeExpires(x) ==
    /\ badges' = badges \ {x}
    /\ UNCHANGED <<member, invites, team, blocked, crossed>>

TeamNext ==
    \/ \E t \in TeamCalls :
          \/ \E e \in Emails : AcceptCheck(t, e) \/ LoginCheck(t, e)
          \/ \E e \in Emails, role \in RolesAround : InviteCheck(t, e, role) \/ RoleCheck(t, e, role)
          \/ \E role \in MemberRoles : InviteInsert(t, role) \/ RoleUpdate(t, role)
          \/ AcceptUpdate(t) \/ LoginSign(t) \/ TeamFails(t)
    \/ \E e \in Emails, role \in RolesAround : Suspend(e, role) \/ Remove(e, role)
    \/ \E x \in badges : BadgeExpires(x)

TeamSpec == TeamInit /\ [][TeamNext]_teamVars

-----------------------------------------------------------------------------
MemberRows == [n : 0..MaxInvites, status : MemberStatuses, role : MemberRoles]

TeamTypeOK ==
    /\ member \in [Emails -> SUBSET MemberRows] /\ invites \in 0..MaxInvites
    /\ \A t \in TeamCalls : team[t].row \in MemberRows /\ team[t].email \in Emails
    /\ \A x \in badges : x.n \in 0..MaxInvites /\ x.role \in MemberRoles
    /\ blocked \subseteq 0..MaxInvites /\ crossed \subseteq 0..MaxInvites

\* A member who was suspended or removed stays so, and is given no token by
\* a login that began later, unless an acceptance had passed its check and
\* then wrote 'active' over the suspension (acceptInvite, lines 62-72).
SuspensionStands ==
    /\ \A e \in Emails : \A row \in member[e] :
          row.n \in blocked \ crossed => row.status = "suspended"
    /\ \A x \in badges : x.late => x.n \in crossed
=============================================================================
