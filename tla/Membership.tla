------------------------------- MODULE Membership -------------------------------
(***************************************************************************)
(* The members of a workspace: changes of role and status (update of       *)
(* users.service.ts) and the invitation of one more address                *)
(* (invitations.service.ts, invitation-accept.service.ts).                 *)
(*                                                                         *)
(* A request reads, checks and then writes; requests interleave between    *)
(* their statements.                                                       *)
(***************************************************************************)
EXTENDS Integers, FiniteSets

CONSTANTS
    Members,        \* people with an account at the start
    Invitee,        \* who is invited
    Requests,
    MaxBegun,       \* bound: requests
    MaxLinks        \* bound: links sent to the invitee

People == Members \union {Invitee}
Ranks == [AGENT |-> 10, ADMIN |-> 30, OWNER |-> 40]
Roles == DOMAIN Ranks
Same == "SAME"      \* a field the request leaves out
AtLeast(actual, required) == Ranks[actual] >= Ranks[required]

ASSUME MembershipAssumption ==
    /\ Members # {} /\ Invitee \notin Members
    /\ MaxBegun \in Nat /\ MaxLinks \in Nat

VARIABLES
    user,           \* users: role and status
    invitation,     \* the invitee's row: status, role, the link that opens it, revokedAt, and if it has expired
    me,             \* me[r]: where request r is, what it was asked and what it has read
    begun,
    closed,         \* the invitation was revoked, and nobody has invited again
    setAside,       \* somebody was given the status INVITED
    overlapped      \* two requests have been under way at once

vars == <<user, invitation, me, begun, closed, setAside, overlapped>>

Idle == [pc |-> "idle", actor |-> Invitee, target |-> Invitee, role |-> "AGENT", status |-> "ACTIVE", link |-> 0]
NotInvited == [status |-> "NONE", role |-> "AGENT", link |-> 0, revoked |-> FALSE, expired |-> FALSE]

Init ==
    /\ user = [p \in People |-> [role |-> "OWNER", status |-> IF p = Invitee THEN "NONE" ELSE "ACTIVE"]]
    /\ invitation = NotInvited
    /\ me = [r \in Requests |-> Idle]
    /\ begun = 0
    /\ closed = FALSE /\ setAside = FALSE /\ overlapped = FALSE

At(r, step) == me[r].pc = step
Goto(r, step) == me' = [me EXCEPT ![r].pc = step]
Leave(r) == me' = [me EXCEPT ![r] = Idle]

Begin(r, record) ==
    /\ At(r, "idle")
    /\ begun < MaxBegun
    /\ begun' = begun + 1
    /\ overlapped' = (overlapped \/ \E q \in Requests \ {r} : ~At(q, "idle"))
    /\ me' = [me EXCEPT ![r] = record]

\* Whoever may manage the team.
Manages(p) == user[p].status = "ACTIVE" /\ AtLeast(user[p].role, "ADMIN")

-------------------------------------------------------------------------------
(* update of a member *)

LosesOwner(target, role, status) ==
    user[target].role = "OWNER" /\ (role \notin {"OWNER", Same} \/ status = "DISABLED")

\* A new role, a new status, or both.
BeginUpdate(r, actor, target, role, status) ==
    /\ Manages(actor)
    /\ user[target].status # "NONE"
    /\ AtLeast(user[actor].role, user[target].role)
    /\ role # Same => AtLeast(user[actor].role, role)
    /\ Begin(r, [Idle EXCEPT !.pc = IF LosesOwner(target, role, status) THEN "count" ELSE "apply",
                             !.actor = actor, !.target = target, !.role = role, !.status = status])
    /\ UNCHANGED <<user, invitation, closed, setAside>>

\* Owners who cannot sign in are counted too.
OwnersOfAnyStatus == {p \in People : user[p].role = "OWNER" /\ user[p].status # "NONE"}

ActiveOwners == {p \in People : user[p].role = "OWNER" /\ user[p].status = "ACTIVE"}

CountOwners(r) ==
    /\ At(r, "count")
    /\ IF Cardinality(ActiveOwners) <= 1 THEN Leave(r) ELSE Goto(r, "apply")
    /\ UNCHANGED <<user, invitation, begun, closed, setAside, overlapped>>

\* Nobody disables their own account.
ApplyUpdate(r) ==
    /\ At(r, "apply")
    /\ IF me[r].status = "DISABLED" /\ me[r].target = me[r].actor
       THEN UNCHANGED <<user, setAside>>
       ELSE /\ user' = [user EXCEPT ![me[r].target] =
                               [role |-> IF me[r].role = Same THEN @.role ELSE me[r].role,
                                status |-> IF me[r].status = Same THEN @.status ELSE me[r].status]]
            /\ setAside' = (setAside \/ me[r].status = "INVITED")
    /\ Leave(r)
    /\ UNCHANGED <<invitation, begun, closed, overlapped>>

-------------------------------------------------------------------------------
(* invite, resend and revoke *)

\* The address has no account.
BeginInvite(r, actor, role) ==
    /\ Manages(actor) /\ AtLeast(user[actor].role, role)
    /\ user[Invitee].status = "NONE"
    /\ Begin(r, [Idle EXCEPT !.pc = "invite", !.actor = actor, !.role = role])
    /\ UNCHANGED <<user, invitation, closed, setAside>>

\* The row of the address is made anew, and its link with it.
WriteInvitation(r) ==
    /\ At(r, "invite")
    /\ invitation.link < MaxLinks
    /\ invitation' = [status |-> "PENDING", role |-> me[r].role, link |-> invitation.link + 1,
                      revoked |-> FALSE, expired |-> FALSE]
    /\ closed' = FALSE
    /\ Leave(r)
    /\ UNCHANGED <<user, begun, setAside, overlapped>>

IsOpen == invitation.status \notin {"NONE", "ACCEPTED", "REVOKED"}

BeginResend(r, actor) ==
    /\ Manages(actor) /\ IsOpen /\ AtLeast(user[actor].role, invitation.role)
    /\ Begin(r, [Idle EXCEPT !.pc = "resend", !.actor = actor])
    /\ UNCHANGED <<user, invitation, closed, setAside>>

\* A fresh link and a fresh week, whatever has become of it; revokedAt stays.
Resend(r) ==
    /\ At(r, "resend")
    /\ invitation.link < MaxLinks
    /\ invitation' = [invitation EXCEPT !.status = "PENDING", !.link = @ + 1, !.expired = FALSE]
    /\ Leave(r)
    /\ UNCHANGED <<user, begun, closed, setAside, overlapped>>

BeginRevoke(r, actor) ==
    /\ Manages(actor) /\ IsOpen
    /\ Begin(r, [Idle EXCEPT !.pc = "revoke", !.actor = actor])
    /\ UNCHANGED <<user, invitation, closed, setAside>>

Revoke(r) ==
    /\ At(r, "revoke")
    /\ invitation' = [invitation EXCEPT !.status = "REVOKED", !.revoked = TRUE]
    /\ closed' = TRUE
    /\ Leave(r)
    /\ UNCHANGED <<user, begun, setAside, overlapped>>

\* Its week is over.
Expire ==
    /\ invitation.status = "PENDING" /\ ~invitation.expired
    /\ invitation' = [invitation EXCEPT !.expired = TRUE]
    /\ UNCHANGED <<user, me, begun, closed, setAside, overlapped>>

-------------------------------------------------------------------------------
(* accept *)

\* An invitation is found by any link it ever had.
OpenedByAny(link) == link <= invitation.link

\* By the hash of its link.
OpenedBy(link) == link = invitation.link

\* The status alone is looked at.
LiveIfPending == invitation.status = "PENDING"

\* Checked before the form is taken, and again by the claim.
Live == invitation.status = "PENDING" /\ ~invitation.revoked /\ ~invitation.expired

\* The link must open a live invitation.
BeginAccept(r, link) ==
    /\ OpenedBy(link)
    /\ Live
    /\ Begin(r, [Idle EXCEPT !.pc = "accept", !.role = invitation.role, !.link = link])
    /\ UNCHANGED <<user, invitation, closed, setAside>>

\* The claim and the account, in one transaction; the role is the one read before.
Accept(r) ==
    /\ At(r, "accept")
    /\ IF Live /\ user[Invitee].status = "NONE"
       THEN /\ invitation' = [invitation EXCEPT !.status = "ACCEPTED"]
            /\ user' = [user EXCEPT ![Invitee] = [role |-> me[r].role, status |-> "ACTIVE"]]
       ELSE UNCHANGED <<invitation, user>>
    /\ Leave(r)
    /\ UNCHANGED <<begun, closed, setAside, overlapped>>

-------------------------------------------------------------------------------
Next ==
    \/ \E r \in Requests :
          \/ \E actor, target \in People, role \in Roles \union {Same}, status \in {"ACTIVE", "INVITED", "DISABLED", Same} :
                BeginUpdate(r, actor, target, role, status)
          \/ CountOwners(r) \/ ApplyUpdate(r)
          \/ \E actor \in People : (\E role \in Roles : BeginInvite(r, actor, role)) \/ BeginResend(r, actor) \/ BeginRevoke(r, actor)
          \/ WriteInvitation(r) \/ Resend(r) \/ Revoke(r)
          \/ (\E link \in 1 .. MaxLinks : BeginAccept(r, link)) \/ Accept(r)
    \/ Expire

Spec == Init /\ [][Next]_vars

-------------------------------------------------------------------------------
Steps == {"idle", "count", "apply", "invite", "resend", "revoke", "accept"}

\* The values each variable takes.
TypeOK ==
    /\ user \in [People -> [role : Roles, status : {"NONE", "ACTIVE", "INVITED", "DISABLED"}]]
    /\ invitation \in [status : {"NONE", "PENDING", "ACCEPTED", "REVOKED"}, role : Roles, link : 0 .. MaxLinks,
                       revoked : BOOLEAN, expired : BOOLEAN]
    /\ me \in [Requests -> [pc : Steps, actor : People, target : People, role : Roles \union {Same},
                            status : {"ACTIVE", "INVITED", "DISABLED", Same}, link : 0 .. MaxLinks]]
    /\ \A r \in Requests : me[r].pc \in {"invite", "accept"} => me[r].role \in Roles
    /\ begun \in Nat
    /\ closed \in BOOLEAN /\ setAside \in BOOLEAN /\ overlapped \in BOOLEAN

(* "There must always be someone who can administer the workspace".          *)
OwnerRemains == \E p \in People : user[p].role = "OWNER" /\ user[p].status = "ACTIVE"

(* It is so while requests come one after the other and nobody is given the  *)
(* status INVITED, with the invited address among the owners or not.         *)
OwnerRemainsInTurn == ~overlapped /\ ~setAside => OwnerRemains

(* A revoked invitation makes no account, whatever link was sent out after   *)
(* or before and whatever raced with the revocation, until somebody invites  *)
(* the address again.                                                        *)
RevokedStaysClosed == [][closed => user'[Invitee].status # "ACTIVE" \/ user[Invitee].status # "NONE"]_vars

(* "inviting again replaces the old one, and its link with it": an account   *)
(* made by requests in turn has the role the last invitation gave it, and    *)
(* was opened by the last link sent.                                         *)
AcceptedAsInvited ==
    [][user[Invitee].status = "NONE" /\ user'[Invitee].status # "NONE" /\ ~overlapped =>
        /\ user'[Invitee].role = invitation.role
        /\ \E r \in Requests : At(r, "accept") /\ me[r].link = invitation.link]_vars
===============================================================================
