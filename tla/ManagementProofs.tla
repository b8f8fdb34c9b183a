---------------------------- MODULE ManagementProofs ----------------------------
(***************************************************************************)
(* What holds of the services whose requests read, judge what they read,   *)
(* and write in a later statement: Membership for any members and          *)
(* requests, CampaignLifecycle for any managers, leads and PATCHes, and    *)
(* TenantStatus for any instances, operators and requests. No step of one  *)
(* is a step of another: each part below is about one module's Spec.       *)
(***************************************************************************)
EXTENDS Membership, CampaignLifecycle, TenantStatus, FiniteSetTheorems, SequenceTheorems, TLAPS

-------------------------------------------------------------------------------
(* MEMBERSHIP *)

USE MembershipAssumption DEF MembershipAssumption

-------------------------------------------------------------------------------
(* Types *)

Users == [role : Roles, status : {"NONE", "ACTIVE", "INVITED", "DISABLED"}]
Invitations == [status : {"NONE", "PENDING", "ACCEPTED", "REVOKED"}, role : Roles, link : 0 .. MaxLinks,
                revoked : BOOLEAN, expired : BOOLEAN]
Asked == [pc : Steps, actor : People, target : People, role : Roles \union {Same},
          status : {"ACTIVE", "INVITED", "DISABLED", Same}, link : 0 .. MaxLinks]

\* What the type invariant says of the roles of requests.
RolesGiven(states) == \A r \in Requests : states[r].pc \in {"invite", "accept"} => states[r].role \in Roles

LEMMA TypeParts ==
    TypeOK <=> /\ user \in [People -> Users] /\ invitation \in Invitations /\ me \in [Requests -> Asked]
               /\ RolesGiven(me)
               /\ begun \in Nat
               /\ closed \in BOOLEAN /\ setAside \in BOOLEAN /\ overlapped \in BOOLEAN
BY DEF TypeOK, Users, Invitations, Asked, RolesGiven

LEMMA TypePartsNext ==
    ASSUME user' \in [People -> Users], invitation' \in Invitations, me' \in [Requests -> Asked], RolesGiven(me'),
           begun' \in Nat, closed' \in BOOLEAN, setAside' \in BOOLEAN, overlapped' \in BOOLEAN
    PROVE  TypeOK'
BY DEF TypeOK, Users, Invitations, Asked, RolesGiven

LEMMA RolesAre == Roles = {"AGENT", "ADMIN", "OWNER"}
BY DEF Roles, Ranks

LEMMA IdleTypes == Idle \in Asked
BY RolesAre DEF Idle, Asked, People, Steps

LEMMA TypeInit == Init => TypeOK
<1> SUFFICES ASSUME Init PROVE TypeOK
  OBVIOUS
<1>1. user \in [People -> Users]
  BY RolesAre DEF Init, Users
<1>2. invitation \in Invitations
  BY RolesAre DEF Init, Invitations, NotInvited
<1>3. me \in [Requests -> Asked]
  BY IdleTypes DEF Init
<1> QED
  BY <1>1, <1>2, <1>3, TypeParts DEF Init, RolesGiven, Idle

\* A request goes from step to step.
LEMMA Moves ==
    ASSUME me \in [Requests -> Asked], NEW r \in Requests, NEW record \in Asked, me' = [me EXCEPT ![r] = record]
    PROVE  me' \in [Requests -> Asked] /\ me'[r] = record /\ \A q \in Requests \ {r} : me'[q] = me[q]
OBVIOUS

LEMMA BeginTypes ==
    ASSUME TypeOK, NEW r \in Requests, NEW record \in Asked, Begin(r, record)
    PROVE  /\ me' \in [Requests -> Asked] /\ begun' \in Nat /\ overlapped' \in BOOLEAN
           /\ At(r, "idle") /\ me'[r] = record /\ \A q \in Requests \ {r} : me'[q] = me[q]
           /\ ~overlapped' => ~overlapped /\ \A q \in Requests \ {r} : At(q, "idle")
<1>1. me \in [Requests -> Asked] /\ begun \in Nat
  BY TypeParts
<1>2. me' = [me EXCEPT ![r] = record]
  BY DEF Begin
<1>3. overlapped' \in BOOLEAN
  BY DEF Begin
<1>4. begun' \in Nat
  BY <1>1 DEF Begin
<1>5. At(r, "idle") /\ (~overlapped' => ~overlapped /\ \A q \in Requests \ {r} : At(q, "idle"))
  BY DEF Begin
<1> QED
  BY <1>1, <1>2, <1>3, <1>4, <1>5, Moves

LEMMA LeaveTypes ==
    ASSUME TypeOK, NEW r \in Requests, Leave(r)
    PROVE  me' \in [Requests -> Asked] /\ me'[r] = Idle /\ \A q \in Requests \ {r} : me'[q] = me[q]
BY TypeParts, IdleTypes, Moves DEF Leave

LEMMA BeginsRequest ==
    ASSUME TypeOK, NEW r \in Requests, NEW record \in Asked, Begin(r, record),
           record.pc \in {"invite", "accept"} => record.role \in Roles
    PROVE  RolesGiven(me')
BY BeginTypes, TypeParts DEF RolesGiven

LEMMA Leaves == ASSUME TypeOK, NEW r \in Requests, Leave(r) PROVE RolesGiven(me')
BY LeaveTypes, TypeParts DEF RolesGiven, Idle

\* What each request asks for.
Update(actor, target, role, chosen) ==
    [Idle EXCEPT !.pc = IF LosesOwner(target, role, chosen) THEN "count" ELSE "apply",
                 !.actor = actor, !.target = target, !.role = role, !.status = chosen]

LEMMA UpdateTypes ==
    ASSUME NEW actor \in People, NEW target \in People, NEW role \in Roles \union {Same},
           NEW chosen \in {"ACTIVE", "INVITED", "DISABLED", Same}
    PROVE  /\ Update(actor, target, role, chosen) \in Asked
           /\ Update(actor, target, role, chosen).pc = (IF LosesOwner(target, role, chosen) THEN "count" ELSE "apply")
           /\ Update(actor, target, role, chosen).target = target
           /\ Update(actor, target, role, chosen).role = role
           /\ Update(actor, target, role, chosen).status = chosen
<1> DEFINE first == IF LosesOwner(target, role, chosen) THEN "count" ELSE "apply"
<1> HIDE DEF first
<1> DEFINE u == [Idle EXCEPT !.pc = first, !.actor = actor, !.target = target, !.role = role, !.status = chosen]
<1>1. u \in Asked
  <2>1. first \in Steps
    BY DEF Steps, first
  <2>2. Idle \in Asked
    BY IdleTypes
  <2> QED
    BY <2>1, <2>2 DEF Asked
<1>2. u.pc = first /\ u.target = target
  BY DEF Idle
<1>3. u.role = role /\ u.status = chosen
  BY DEF Idle
<1>4. Update(actor, target, role, chosen) = u
  BY DEF Update, first
<1> QED
  BY <1>1, <1>2, <1>3, <1>4 DEF first

LEMMA InviteTypes ==
    ASSUME NEW actor \in People, NEW role \in Roles
    PROVE  /\ [Idle EXCEPT !.pc = "invite", !.actor = actor, !.role = role] \in Asked
           /\ [Idle EXCEPT !.pc = "resend", !.actor = actor] \in Asked
           /\ [Idle EXCEPT !.pc = "revoke", !.actor = actor] \in Asked
<1>1. "AGENT" \in Roles \union {Same} /\ 0 \in 0 .. MaxLinks /\ Invitee \in People
  BY RolesAre DEF People
<1> QED
  BY <1>1 DEF Asked, Idle, Steps

LEMMA AcceptTypes ==
    ASSUME invitation \in Invitations, NEW link \in 1 .. MaxLinks
    PROVE  /\ [Idle EXCEPT !.pc = "accept", !.role = invitation.role, !.link = link] \in Asked
           /\ [Idle EXCEPT !.pc = "accept", !.role = invitation.role, !.link = link].role = invitation.role
           /\ [Idle EXCEPT !.pc = "accept", !.role = invitation.role, !.link = link].link = link
           /\ invitation.role \in Roles
<1>1. invitation.role \in Roles
  BY DEF Invitations
<1>2. link \in 0 .. MaxLinks
  OBVIOUS
<1> QED
  BY <1>1, <1>2 DEF Asked, Idle, Steps, People

Updated(r) ==
    [role |-> IF me[r].role = Same THEN user[me[r].target].role ELSE me[r].role,
     status |-> IF me[r].status = Same THEN user[me[r].target].status ELSE me[r].status]

LEMMA AppliedTypes ==
    ASSUME TypeOK, NEW r \in Requests
    PROVE  me[r].target \in People /\ Updated(r) \in Users
<1>1. me[r] \in Asked /\ user \in [People -> Users]
  BY TypeParts
<1>2. me[r].target \in People /\ me[r].role \in Roles \union {Same} /\ me[r].status \in {"ACTIVE", "INVITED", "DISABLED", Same}
  BY <1>1 DEF Asked
<1>3. user[me[r].target] \in Users
  BY <1>1, <1>2
<1> QED
  BY <1>2, <1>3 DEF Updated, Users

\* An update either leaves everybody alone or changes its target.
LEMMA Applied ==
    ASSUME TypeOK, NEW r \in Requests, ApplyUpdate(r)
    PROVE  \/ user' = user /\ setAside' = setAside
           \/ user' = [user EXCEPT ![me[r].target] = Updated(r)] /\ (~setAside' => ~setAside /\ me[r].status # "INVITED")
<1>1. CASE me[r].status = "DISABLED" /\ me[r].target = me[r].actor
  BY <1>1 DEF ApplyUpdate
<1>2. CASE ~(me[r].status = "DISABLED" /\ me[r].target = me[r].actor)
  <2>1. user' = [user EXCEPT ![me[r].target] = Updated(r)]
    BY <1>2 DEF ApplyUpdate, Updated
  <2>2. ~setAside' => ~setAside /\ me[r].status # "INVITED"
    BY <1>2 DEF ApplyUpdate
  <2> QED
    BY <2>1, <2>2
<1> QED
  BY <1>1, <1>2

\* The requests that are about the invitation.
LEMMA Others ==
    ASSUME NEW r \in Requests, NEW actor \in People,
           (\E role \in Roles : BeginInvite(r, actor, role)) \/ BeginResend(r, actor) \/ BeginRevoke(r, actor)
    PROVE  \E record \in Asked : /\ Begin(r, record)
                                 /\ record.pc \in {"invite", "resend", "revoke"}
                                 /\ record.pc = "invite" => record.role \in Roles
<1>1. CASE \E role \in Roles : BeginInvite(r, actor, role)
  BY <1>1, InviteTypes DEF BeginInvite, Idle
<1>2. CASE BeginResend(r, actor)
  BY <1>2, InviteTypes, RolesAre DEF BeginResend, Idle
<1>3. CASE BeginRevoke(r, actor)
  BY <1>3, InviteTypes, RolesAre DEF BeginRevoke, Idle
<1> QED
  BY <1>1, <1>2, <1>3

LEMMA TypeStep == TypeOK /\ [Next]_vars => TypeOK'
<1> SUFFICES ASSUME TypeOK, [Next]_vars PROVE TypeOK'
  OBVIOUS
<1>0. /\ user \in [People -> Users] /\ invitation \in Invitations /\ me \in [Requests -> Asked] /\ begun \in Nat
      /\ closed \in BOOLEAN /\ setAside \in BOOLEAN /\ overlapped \in BOOLEAN
      /\ RolesGiven(me) /\ \A r \in Requests : me[r].pc \in {"invite", "accept"} => me[r].role \in Roles
  BY TypeParts DEF RolesGiven
<1>1. ASSUME NEW r \in Requests, NEW actor \in People, NEW target \in People, NEW role \in Roles \union {Same},
             NEW chosen \in {"ACTIVE", "INVITED", "DISABLED", Same}, BeginUpdate(r, actor, target, role, chosen)
      PROVE  TypeOK'
  <2>1. Begin(r, Update(actor, target, role, chosen))
    BY <1>1 DEF BeginUpdate, Update
  <2>2. me' \in [Requests -> Asked] /\ begun' \in Nat /\ overlapped' \in BOOLEAN
    BY <2>1, UpdateTypes, BeginTypes
  <2> QED
    BY <1>0, <1>1, <2>1, <2>2, UpdateTypes, BeginsRequest, TypePartsNext DEF BeginUpdate
<1>2. ASSUME NEW r \in Requests, CountOwners(r) PROVE TypeOK'
  <2>1. [me[r] EXCEPT !.pc = "apply"] \in Asked
    BY <1>0 DEF Asked, Steps
  <2>2. me' = [me EXCEPT ![r] = Idle] \/ me' = [me EXCEPT ![r] = [me[r] EXCEPT !.pc = "apply"]]
    BY <1>2 DEF CountOwners, Leave, Goto
  <2>3. me' \in [Requests -> Asked]
    BY <1>0, <2>1, <2>2, IdleTypes
  <2>4. RolesGiven(me')
    BY <1>0, <2>2 DEF RolesGiven, Idle, Asked
  <2> QED
    BY <1>0, <1>2, <2>3, <2>4, TypePartsNext DEF CountOwners
<1>3. ASSUME NEW r \in Requests, ApplyUpdate(r) PROVE TypeOK'
  <2>1. me' \in [Requests -> Asked]
    BY <1>3, LeaveTypes DEF ApplyUpdate
  <2>2. user' \in [People -> Users]
    BY <1>0, <1>3, Applied, AppliedTypes
  <2>3. setAside' \in BOOLEAN
    BY <1>0, <1>3 DEF ApplyUpdate
  <2> QED
    BY <1>0, <1>3, <2>1, <2>2, <2>3, Leaves, TypePartsNext DEF ApplyUpdate
<1>4. ASSUME NEW r \in Requests, NEW actor \in People,
             (\E role \in Roles : BeginInvite(r, actor, role)) \/ BeginResend(r, actor) \/ BeginRevoke(r, actor)
      PROVE  TypeOK'
  <2>1. PICK record \in Asked : Begin(r, record) /\ (record.pc \in {"invite", "accept"} => record.role \in Roles)
    BY <1>4, Others
  <2>2. me' \in [Requests -> Asked] /\ begun' \in Nat /\ overlapped' \in BOOLEAN /\ RolesGiven(me')
    BY <2>1, BeginTypes, BeginsRequest
  <2> QED
    BY <1>0, <1>4, <2>2, TypePartsNext DEF BeginInvite, BeginResend, BeginRevoke
<1>5. ASSUME NEW r \in Requests, WriteInvitation(r) PROVE TypeOK'
  <2>1. me' \in [Requests -> Asked]
    BY <1>5, LeaveTypes DEF WriteInvitation
  <2>2. invitation.link + 1 \in 0 .. MaxLinks
    BY <1>0, <1>5 DEF WriteInvitation, Invitations
  <2>3. me[r].role \in Roles
    BY <1>0, <1>5 DEF WriteInvitation, At
  <2>4. invitation' \in Invitations
    BY <1>5, <2>2, <2>3 DEF WriteInvitation, Invitations
  <2> QED
    BY <1>0, <1>5, <2>1, <2>4, Leaves, TypePartsNext DEF WriteInvitation
<1>6. ASSUME NEW r \in Requests, Resend(r) PROVE TypeOK'
  <2>1. me' \in [Requests -> Asked]
    BY <1>6, LeaveTypes DEF Resend
  <2>2. invitation.link + 1 \in 0 .. MaxLinks
    BY <1>0, <1>6 DEF Resend, Invitations
  <2>4. invitation' \in Invitations
    BY <1>0, <1>6, <2>2 DEF Resend, Invitations
  <2> QED
    BY <1>0, <1>6, <2>1, <2>4, Leaves, TypePartsNext DEF Resend
<1>7. ASSUME NEW r \in Requests, Revoke(r) PROVE TypeOK'
  <2>1. me' \in [Requests -> Asked]
    BY <1>7, LeaveTypes DEF Revoke
  <2>4. invitation' \in Invitations
    BY <1>0, <1>7 DEF Revoke, Invitations
  <2> QED
    BY <1>0, <1>7, <2>1, <2>4, Leaves, TypePartsNext DEF Revoke
<1>8. ASSUME NEW r \in Requests, NEW link \in 1 .. MaxLinks, BeginAccept(r, link) PROVE TypeOK'
  <2> DEFINE record == [Idle EXCEPT !.pc = "accept", !.role = invitation.role, !.link = link]
  <2>1. record \in Asked /\ record.role \in Roles /\ Begin(r, record)
    BY <1>0, <1>8, AcceptTypes DEF BeginAccept
  <2> HIDE DEF record
  <2>2. me' \in [Requests -> Asked] /\ begun' \in Nat /\ overlapped' \in BOOLEAN /\ RolesGiven(me')
    BY <2>1, BeginTypes, BeginsRequest
  <2> QED
    BY <1>0, <1>8, <2>2, TypePartsNext DEF BeginAccept
<1>9. ASSUME NEW r \in Requests, Accept(r) PROVE TypeOK'
  <2>1. me' \in [Requests -> Asked]
    BY <1>9, LeaveTypes DEF Accept
  <2>2. me[r].role \in Roles
    BY <1>0, <1>9 DEF Accept, At
  <2>3. invitation' \in Invitations
    BY <1>0, <1>9 DEF Accept, Invitations
  <2>4. [role |-> me[r].role, status |-> "ACTIVE"] \in Users
    BY <2>2 DEF Users
  <2>5. user' \in [People -> Users]
    BY <1>0, <1>9, <2>4 DEF Accept
  <2> QED
    BY <1>0, <1>9, <2>1, <2>3, <2>5, Leaves, TypePartsNext DEF Accept
<1>10. CASE Expire
  <2>1. invitation' \in Invitations
    BY <1>0, <1>10 DEF Expire, Invitations
  <2> QED
    BY <1>0, <1>10, <2>1, TypePartsNext DEF Expire
<1>11. CASE UNCHANGED vars
  BY <1>0, <1>11, TypePartsNext DEF vars
<1> QED
  BY <1>1, <1>2, <1>3, <1>4, <1>5, <1>6, <1>7, <1>8, <1>9, <1>10, <1>11 DEF Next

(* Every variable keeps its type. *)
THEOREM MembershipTyped == Spec => []TypeOK
BY TypeInit, TypeStep, PTL DEF Spec

-------------------------------------------------------------------------------
(* A revoked invitation *)

(* Whoever revoked it last left revokedAt set, and only those who are members *)
(* are updated.                                                              *)
ClosedInv ==
    /\ TypeOK
    /\ closed => invitation.revoked
    /\ \A r \in Requests : me[r].pc \in {"count", "apply"} => user[me[r].target].status # "NONE"

\* Nobody who has an account loses it.
LEMMA AccountsStay ==
    ASSUME ClosedInv, [Next]_vars, NEW p \in People, user[p].status # "NONE"
    PROVE  user'[p].status # "NONE"
<1>0. user \in [People -> Users] /\ me \in [Requests -> Asked]
  BY TypeParts DEF ClosedInv
<1>1. ASSUME NEW r \in Requests, ApplyUpdate(r) PROVE user'[p].status # "NONE"
  <2>1. user' = user \/ user' = [user EXCEPT ![me[r].target] = Updated(r)]
    BY <1>1, Applied DEF ClosedInv
  <2>2. me[r].target \in People /\ me[r].status # "NONE" /\ user[me[r].target].status # "NONE"
    BY <1>0, <1>1 DEF ClosedInv, ApplyUpdate, At, Asked, Same
  <2>3. Updated(r).status # "NONE"
    BY <2>2 DEF Updated
  <2> QED
    BY <1>0, <2>1, <2>2, <2>3
<1>2. ASSUME NEW r \in Requests, Accept(r) PROVE user'[p].status # "NONE"
  BY <1>0, <1>2 DEF Accept
<1> QED
  BY <1>1, <1>2 DEF Next, vars, BeginUpdate, CountOwners, BeginInvite, BeginResend, BeginRevoke, WriteInvitation, Resend,
                    Revoke, BeginAccept, Expire

LEMMA ClosedInit == Init => ClosedInv
BY TypeInit DEF Init, ClosedInv, Idle, NotInvited

LEMMA ClosedStep == ClosedInv /\ [Next]_vars => ClosedInv'
<1> SUFFICES ASSUME ClosedInv, [Next]_vars PROVE ClosedInv'
  OBVIOUS
<1>0. /\ TypeOK /\ TypeOK' /\ user \in [People -> Users] /\ invitation \in Invitations /\ me \in [Requests -> Asked]
  BY TypeStep, TypeParts DEF ClosedInv
<1>1. closed' => invitation'.revoked
  BY <1>0 DEF ClosedInv, Invitations, Next, vars, BeginUpdate, CountOwners, ApplyUpdate, BeginInvite, BeginResend, BeginRevoke,
              WriteInvitation, Resend, Revoke, BeginAccept, Accept, Expire
<1>2. SUFFICES ASSUME NEW q \in Requests, me'[q].pc \in {"count", "apply"} PROVE user'[me'[q].target].status # "NONE"
  BY <1>0, <1>1 DEF ClosedInv
<1>3. SUFFICES user[me'[q].target].status # "NONE" /\ me'[q].target \in People
  BY <1>2, AccountsStay
<1>4. me[q].pc \in {"count", "apply"} => user[me[q].target].status # "NONE" /\ me[q].target \in People
  BY <1>0 DEF ClosedInv, Asked
<1>5. ASSUME NEW r \in Requests, NEW actor \in People, NEW target \in People, NEW role \in Roles \union {Same},
             NEW chosen \in {"ACTIVE", "INVITED", "DISABLED", Same}, BeginUpdate(r, actor, target, role, chosen)
      PROVE  user[me'[q].target].status # "NONE" /\ me'[q].target \in People
  <2>1. Begin(r, Update(actor, target, role, chosen)) /\ user[target].status # "NONE"
    BY <1>5 DEF BeginUpdate, Update
  <2> QED
    BY <1>0, <1>2, <1>4, <2>1, UpdateTypes, BeginTypes
<1>6. ASSUME NEW r \in Requests, NEW record \in Asked, record.pc \notin {"count", "apply"}, Begin(r, record)
      PROVE  user[me'[q].target].status # "NONE" /\ me'[q].target \in People
  BY <1>0, <1>2, <1>4, <1>6, BeginTypes
<1>7. ASSUME NEW r \in Requests, Leave(r)
      PROVE  user[me'[q].target].status # "NONE" /\ me'[q].target \in People
  BY <1>0, <1>2, <1>4, <1>7, LeaveTypes DEF Idle
<1>8. ASSUME NEW r \in Requests, CountOwners(r)
      PROVE  user[me'[q].target].status # "NONE" /\ me'[q].target \in People
  <2>1. CASE me' = [me EXCEPT ![r].pc = "apply"]
    BY <1>0, <1>2, <1>4, <1>8, <2>1 DEF CountOwners, At
  <2> QED
    BY <1>7, <1>8, <2>1 DEF CountOwners, Goto
<1>9. ASSUME NEW r \in Requests, NEW actor \in People,
             (\E role \in Roles : BeginInvite(r, actor, role)) \/ BeginResend(r, actor) \/ BeginRevoke(r, actor)
      PROVE  user[me'[q].target].status # "NONE" /\ me'[q].target \in People
  <2>1. PICK record \in Asked : Begin(r, record) /\ record.pc \notin {"count", "apply"}
    BY <1>9, Others
  <2> QED
    BY <1>6, <2>1
<1>10. ASSUME NEW r \in Requests, NEW link \in 1 .. MaxLinks, BeginAccept(r, link)
       PROVE  user[me'[q].target].status # "NONE" /\ me'[q].target \in People
  BY <1>0, <1>6, <1>10, AcceptTypes DEF BeginAccept, Idle
<1>11. CASE Expire \/ UNCHANGED vars
  BY <1>2, <1>4, <1>11 DEF Expire, vars
<1> QED
  BY <1>5, <1>7, <1>8, <1>9, <1>10, <1>11 DEF Next, ApplyUpdate, WriteInvitation, Resend, Revoke, Accept

(* Whoever opens the link of a revoked invitation gets no account, until the *)
(* address is invited again.                                                 *)
THEOREM RevokedMakesNoAccount == Spec => RevokedStaysClosed
<1> DEFINE A == closed => user'[Invitee].status # "ACTIVE" \/ user[Invitee].status # "NONE"
<1>1. ClosedInv /\ [Next]_vars => [A]_vars
  <2> SUFFICES ASSUME ClosedInv, Next, closed, user[Invitee].status = "NONE" PROVE user'[Invitee].status # "ACTIVE"
    BY DEF vars
  <2>0. user \in [People -> Users] /\ me \in [Requests -> Asked] /\ invitation.revoked /\ Invitee \in People
    BY TypeParts DEF ClosedInv, People
  <2>1. ASSUME NEW r \in Requests, ApplyUpdate(r) PROVE user'[Invitee] = user[Invitee]
    <3>1. user' = user \/ user' = [user EXCEPT ![me[r].target] = Updated(r)]
      BY <2>1, Applied DEF ClosedInv
    <3>2. me[r].target # Invitee
      BY <2>0, <2>1 DEF ClosedInv, ApplyUpdate, At
    <3> QED
      BY <2>0, <3>1, <3>2
  <2>2. ASSUME NEW r \in Requests, Accept(r) PROVE user' = user
    BY <2>0, <2>2 DEF Accept, Live
  <2> QED
    BY <2>1, <2>2 DEF Next, BeginUpdate, CountOwners, BeginInvite, BeginResend, BeginRevoke, WriteInvitation, Resend,
                      Revoke, BeginAccept, Expire
<1> QED
  BY ClosedInit, ClosedStep, <1>1, PTL DEF Spec, RevokedStaysClosed, A

-------------------------------------------------------------------------------
(* Requests in turn *)

(* While requests come in turn, the one under way has the workspace to       *)
(* itself: what it read is still so when it writes.                          *)
TurnInv ==
    /\ ClosedInv
    /\ ~overlapped =>
          /\ \A q, r \in Requests : ~At(q, "idle") /\ ~At(r, "idle") => q = r
          /\ \A r \in Requests : At(r, "accept") => me[r].role = invitation.role /\ me[r].link = invitation.link

\* A step of r is taken while all the others are idle.
LEMMA Alone ==
    ASSUME TurnInv, ~overlapped, NEW r \in Requests, ~At(r, "idle")
    PROVE  \A q \in Requests \ {r} : At(q, "idle")
BY DEF TurnInv

LEMMA TurnInit == Init => TurnInv
BY ClosedInit DEF Init, TurnInv, At, Idle

LEMMA TurnStep == TurnInv /\ [Next]_vars => TurnInv'
<1> SUFFICES ASSUME TurnInv, [Next]_vars, ~overlapped'
             PROVE  /\ \A q, r \in Requests : me'[q].pc # "idle" /\ me'[r].pc # "idle" => q = r
                    /\ \A r \in Requests : me'[r].pc = "accept" => me'[r].role = invitation'.role /\ me'[r].link = invitation'.link
  BY ClosedStep DEF TurnInv, At
<1> DEFINE Goal == /\ \A q, r \in Requests : me'[q].pc # "idle" /\ me'[r].pc # "idle" => q = r
                   /\ \A r \in Requests : me'[r].pc = "accept" => me'[r].role = invitation'.role /\ me'[r].link = invitation'.link
<1>0. TypeOK /\ invitation \in Invitations /\ me \in [Requests -> Asked]
  BY TypeParts DEF TurnInv, ClosedInv
<1>1. ASSUME NEW r \in Requests, NEW record \in Asked, Begin(r, record), invitation' = invitation,
             record.pc = "accept" => record.role = invitation.role /\ record.link = invitation.link
      PROVE  Goal
  <2>1. me'[r] = record /\ \A q \in Requests \ {r} : me'[q] = me[q] /\ At(q, "idle")
    BY <1>0, <1>1, BeginTypes
  <2> QED
    BY <1>1, <2>1 DEF At
<1>2. ASSUME NEW r \in Requests, Leave(r), ~At(r, "idle"), ~overlapped PROVE Goal
  BY <1>0, <1>2, LeaveTypes, Alone DEF Idle, At
<1>3. ASSUME NEW r \in Requests, NEW actor \in People, NEW target \in People, NEW role \in Roles \union {Same},
             NEW chosen \in {"ACTIVE", "INVITED", "DISABLED", Same}, BeginUpdate(r, actor, target, role, chosen)
      PROVE  Goal
  <2> DEFINE record == Update(actor, target, role, chosen)
  <2>1. record \in Asked /\ record.pc # "accept"
    BY UpdateTypes
  <2>2. Begin(r, record) /\ invitation' = invitation
    BY <1>3 DEF BeginUpdate, Update
  <2> HIDE DEF record
  <2> QED
    BY <1>1, <2>1, <2>2
<1>4. ASSUME NEW r \in Requests, NEW actor \in People,
             (\E role \in Roles : BeginInvite(r, actor, role)) \/ BeginResend(r, actor) \/ BeginRevoke(r, actor)
      PROVE  Goal
  <2>1. PICK record \in Asked : Begin(r, record) /\ record.pc # "accept"
    BY <1>4, Others
  <2>2. invitation' = invitation
    BY <1>4 DEF BeginInvite, BeginResend, BeginRevoke
  <2> QED
    BY <1>1, <2>1, <2>2
<1>5. ASSUME NEW r \in Requests, CountOwners(r) PROVE Goal
  <2>1. ~overlapped /\ ~At(r, "idle") /\ invitation' = invitation
    BY <1>5 DEF CountOwners, At
  <2>2. CASE me' = [me EXCEPT ![r].pc = "apply"]
    BY <1>0, <2>1, <2>2, Alone DEF At
  <2> QED
    BY <1>2, <1>5, <2>1, <2>2 DEF CountOwners, Goto
<1>6. ASSUME NEW r \in Requests, ApplyUpdate(r) \/ WriteInvitation(r) \/ Resend(r) \/ Revoke(r) \/ Accept(r) PROVE Goal
  <2>1. ~overlapped /\ ~At(r, "idle") /\ Leave(r)
    BY <1>6 DEF ApplyUpdate, WriteInvitation, Resend, Revoke, Accept, At
  <2> QED
    BY <1>2, <2>1
<1>7. ASSUME NEW r \in Requests, NEW link \in 1 .. MaxLinks, BeginAccept(r, link) PROVE Goal
  <2> DEFINE record == [Idle EXCEPT !.pc = "accept", !.role = invitation.role, !.link = link]
  <2>1. record \in Asked /\ record.role = invitation.role /\ record.link = invitation.link
    BY <1>0, <1>7, AcceptTypes DEF BeginAccept, OpenedBy
  <2>2. Begin(r, record) /\ invitation' = invitation
    BY <1>7 DEF BeginAccept
  <2> HIDE DEF record
  <2> QED
    BY <1>1, <2>1, <2>2
<1>8. CASE Expire
  <2>1. ~overlapped /\ me' = me /\ invitation'.role = invitation.role /\ invitation'.link = invitation.link
    BY <1>0, <1>8 DEF Expire, Invitations
  <2> QED
    BY <2>1 DEF TurnInv, At
<1>9. CASE UNCHANGED vars
  BY <1>9 DEF vars, TurnInv, At
<1> QED
  BY <1>3, <1>4, <1>5, <1>6, <1>7, <1>8, <1>9 DEF Next

(* An account made by requests in turn is opened by the last link sent, and  *)
(* has the role of the last invitation.                                      *)
THEOREM LastInvitationCounts == Spec => AcceptedAsInvited
<1> DEFINE A == user[Invitee].status = "NONE" /\ user'[Invitee].status # "NONE" /\ ~overlapped =>
                  /\ user'[Invitee].role = invitation.role
                  /\ \E r \in Requests : At(r, "accept") /\ me[r].link = invitation.link
<1>1. TurnInv /\ [Next]_vars => [A]_vars
  <2> SUFFICES ASSUME TurnInv, Next, user[Invitee].status = "NONE", user'[Invitee].status # "NONE", ~overlapped
               PROVE  /\ user'[Invitee].role = invitation.role
                      /\ \E r \in Requests : At(r, "accept") /\ me[r].link = invitation.link
    BY DEF vars
  <2>0. user \in [People -> Users] /\ me \in [Requests -> Asked] /\ Invitee \in People /\ ClosedInv
    BY TypeParts DEF TurnInv, ClosedInv, People
  <2>1. ASSUME NEW r \in Requests, ApplyUpdate(r) PROVE FALSE
    <3>1. user' = user \/ user' = [user EXCEPT ![me[r].target] = Updated(r)]
      BY <2>0, <2>1, Applied DEF ClosedInv
    <3>2. me[r].target # Invitee
      BY <2>0, <2>1 DEF ClosedInv, ApplyUpdate, At
    <3> QED
      BY <2>0, <3>1, <3>2
  <2>2. ASSUME NEW r \in Requests, Accept(r)
        PROVE  user'[Invitee].role = invitation.role /\ At(r, "accept") /\ me[r].link = invitation.link
    <3>1. At(r, "accept") /\ me[r].role = invitation.role /\ me[r].link = invitation.link
      BY <2>2 DEF TurnInv, Accept
    <3>2. user' = [user EXCEPT ![Invitee] = [role |-> me[r].role, status |-> "ACTIVE"]]
      BY <2>2 DEF Accept
    <3>3. user'[Invitee].role = me[r].role
      BY <2>0, <3>2
    <3> QED
      BY <3>1, <3>3
  <2>3. user' # user
    OBVIOUS
  <2> QED
    BY <2>1, <2>2, <2>3 DEF Next, BeginUpdate, CountOwners, BeginInvite, BeginResend, BeginRevoke, WriteInvitation, Resend,
                      Revoke, BeginAccept, Expire
<1> QED
  BY TurnInit, TurnStep, <1>1, PTL DEF Spec, AcceptedAsInvited, A

-------------------------------------------------------------------------------
(* The last owner *)

AnotherOwner(target) == \E p \in People \ {target} : user[p].role = "OWNER" /\ user[p].status = "ACTIVE"

(* An update that takes an owner away is about to be written only when there *)
(* is another.                                                               *)
OwnerInv ==
    /\ TurnInv
    /\ ~overlapped /\ ~setAside =>
          /\ OwnerRemains
          /\ \A r \in Requests : At(r, "apply") /\ LosesOwner(me[r].target, me[r].role, me[r].status) => AnotherOwner(me[r].target)

\* More than one owner who is active: one is not the target.
LEMMA MoreThanOne ==
    ASSUME NEW target \in People, ~(Cardinality(ActiveOwners) <= 1)
    PROVE  AnotherOwner(target)
<1> SUFFICES ASSUME ~AnotherOwner(target) PROVE Cardinality(ActiveOwners) <= 1
  OBVIOUS
<1>1. ActiveOwners = {} \/ ActiveOwners = {target}
  BY DEF ActiveOwners, AnotherOwner
<1> QED
  BY <1>1, FS_EmptySet, FS_Singleton

LEMMA OwnerInit == Init => OwnerInv
<1> SUFFICES ASSUME Init PROVE OwnerInv
  OBVIOUS
<1>2. TurnInv /\ \A r \in Requests : ~At(r, "apply")
  BY TurnInit DEF Init, At, Idle
<1>1. PICK p \in Members : p \in People /\ p # Invitee
  BY DEF People
<1> QED
  BY <1>1, <1>2 DEF Init, OwnerInv, OwnerRemains

LEMMA OwnerStep == OwnerInv /\ [Next]_vars => OwnerInv'
<1> SUFFICES ASSUME OwnerInv, [Next]_vars, ~overlapped', ~setAside'
             PROVE  /\ OwnerRemains'
                    /\ \A r \in Requests : At(r, "apply")' /\ LosesOwner(me[r].target, me[r].role, me[r].status)' => AnotherOwner(me[r].target)'
  BY TurnStep DEF OwnerInv
<1>0. /\ TypeOK /\ user \in [People -> Users] /\ me \in [Requests -> Asked] /\ TurnInv
      /\ \A r \in Requests : me[r].target \in People
  BY TypeParts DEF OwnerInv, TurnInv, ClosedInv, Asked
<1> DEFINE Safe(q) == me'[q].pc = "apply" /\ LosesOwner(me'[q].target, me'[q].role, me'[q].status) => AnotherOwner(me'[q].target)
<1> DEFINE Goal == /\ OwnerRemains'
                   /\ \A r \in Requests : At(r, "apply")' /\ LosesOwner(me[r].target, me[r].role, me[r].status)' => AnotherOwner(me[r].target)'
\* Requests that only read.
<1>1. ASSUME user' = user, ~overlapped, ~setAside, \A q \in Requests : Safe(q) PROVE Goal
  BY <1>1 DEF OwnerInv, OwnerRemains, At, LosesOwner, AnotherOwner
<1>2. ASSUME NEW r \in Requests, \A q \in Requests \ {r} : me'[q] = me[q], Safe(r), user' = user, ~overlapped, ~setAside
      PROVE  Goal
  <2>1. \A q \in Requests : Safe(q)
    BY <1>2 DEF OwnerInv, At
  <2> QED
    BY <1>1, <1>2, <2>1
<1>3. ASSUME NEW r \in Requests, NEW record \in Asked, Begin(r, record), user' = user, setAside' = setAside,
             record.pc = "apply" => ~LosesOwner(record.target, record.role, record.status)
      PROVE  Goal
  <2>1. me'[r] = record /\ ~overlapped /\ \A q \in Requests \ {r} : me'[q] = me[q]
    BY <1>0, <1>3, BeginTypes
  <2>2. Safe(r)
    BY <1>3, <2>1
  <2> QED
    BY <1>2, <1>3, <2>1, <2>2
<1>4. ASSUME NEW r \in Requests, NEW actor \in People, NEW target \in People, NEW role \in Roles \union {Same},
             NEW chosen \in {"ACTIVE", "INVITED", "DISABLED", Same}, BeginUpdate(r, actor, target, role, chosen)
      PROVE  Goal
  <2> DEFINE record == Update(actor, target, role, chosen)
  <2>1. record \in Asked /\ (record.pc = "apply" => ~LosesOwner(record.target, record.role, record.status))
    BY UpdateTypes
  <2>2. Begin(r, record) /\ user' = user /\ setAside' = setAside
    BY <1>4 DEF BeginUpdate, Update
  <2> HIDE DEF record
  <2> QED
    BY <1>3, <2>1, <2>2
<1>5. ASSUME NEW r \in Requests, CountOwners(r) PROVE Goal
  <2>0. user' = user /\ ~overlapped /\ ~setAside
    BY <1>5 DEF CountOwners
  <2>1. CASE Cardinality(ActiveOwners) <= 1
    <3>1. Leave(r)
      BY <1>5, <2>1 DEF CountOwners
    <3> QED
      BY <1>0, <1>2, <2>0, <3>1, LeaveTypes DEF Idle
  <2>2. CASE ~(Cardinality(ActiveOwners) <= 1)
    <3>1. me' = [me EXCEPT ![r].pc = "apply"]
      BY <1>5, <2>2 DEF CountOwners, Goto
    <3>2. me'[r].target = me[r].target /\ \A q \in Requests \ {r} : me'[q] = me[q]
      BY <1>0, <3>1 DEF Asked
    <3>3. AnotherOwner(me'[r].target)
      BY <1>0, <2>2, <3>2, MoreThanOne
    <3> QED
      BY <1>2, <2>0, <3>2, <3>3
  <2> QED
    BY <2>1, <2>2
<1>6. ASSUME NEW r \in Requests, Leave(r), ~At(r, "idle"), ~overlapped, OwnerRemains' PROVE Goal
  <2>1. \A q \in Requests : me'[q].pc = "idle"
    BY <1>0, <1>6, LeaveTypes, Alone DEF Idle, At
  <2> QED
    BY <1>6, <2>1 DEF At
<1>7. ASSUME NEW r \in Requests, ApplyUpdate(r) PROVE Goal
  <2>0. Leave(r) /\ At(r, "apply") /\ ~overlapped /\ ~setAside
    BY <1>0, <1>7, Applied DEF ApplyUpdate
  <2>1. OwnerRemains'
    <3> DEFINE t == me[r].target
    <3>1. CASE user' = user
      BY <2>0, <3>1 DEF OwnerInv, OwnerRemains
    <3>2. CASE user' = [user EXCEPT ![t] = Updated(r)] /\ me[r].status # "INVITED"
      <4>1. CASE LosesOwner(t, me[r].role, me[r].status)
        <5>1. AnotherOwner(t)
          BY <2>0, <4>1 DEF OwnerInv
        <5> QED
          BY <1>0, <3>2, <5>1 DEF AnotherOwner, OwnerRemains
      <4>2. CASE ~LosesOwner(t, me[r].role, me[r].status)
        <5>1. PICK p \in People : user[p].role = "OWNER" /\ user[p].status = "ACTIVE"
          BY <2>0 DEF OwnerInv, OwnerRemains
        <5>2. CASE p # t
          BY <1>0, <3>2, <5>1, <5>2 DEF OwnerRemains
        <5>3. CASE p = t
          <6>1. me[r].role \in {"OWNER", Same} /\ me[r].status # "DISABLED"
            BY <4>2, <5>1, <5>3 DEF LosesOwner
          <6>2. me[r].status \in {"ACTIVE", "INVITED", "DISABLED", Same}
            BY <1>0 DEF Asked
          <6>3. Updated(r).role = "OWNER" /\ Updated(r).status = "ACTIVE"
            BY <3>2, <5>1, <5>3, <6>1, <6>2 DEF Updated
          <6> QED
            BY <1>0, <3>2, <5>3, <6>3 DEF OwnerRemains
        <5> QED
          BY <5>2, <5>3
      <4> QED
        BY <4>1, <4>2
    <3> QED
      BY <1>0, <1>7, <3>1, <3>2, Applied
  <2> QED
    BY <1>6, <2>0, <2>1 DEF At
<1>8. ASSUME NEW r \in Requests, WriteInvitation(r) \/ Resend(r) \/ Revoke(r) PROVE Goal
  <2>1. Leave(r) /\ ~At(r, "idle") /\ ~overlapped /\ ~setAside /\ user' = user
    BY <1>8 DEF WriteInvitation, Resend, Revoke, At
  <2> QED
    BY <1>6, <2>1 DEF OwnerInv, OwnerRemains
<1>9. ASSUME NEW r \in Requests, Accept(r) PROVE Goal
  <2>1. Leave(r) /\ ~At(r, "idle") /\ ~overlapped /\ ~setAside
    BY <1>9 DEF Accept, At
  <2>2. user' = user \/ (user[Invitee].status = "NONE" /\ user' = [user EXCEPT ![Invitee] = [role |-> me[r].role, status |-> "ACTIVE"]])
    BY <1>9 DEF Accept
  <2>3. PICK p \in People : user[p].role = "OWNER" /\ user[p].status = "ACTIVE"
    BY <2>1 DEF OwnerInv, OwnerRemains
  <2>4. user'[p] = user[p]
    BY <1>0, <2>2, <2>3
  <2> QED
    BY <1>6, <2>1, <2>3, <2>4 DEF OwnerRemains
<1>10. ASSUME NEW r \in Requests, NEW actor \in People,
              (\E role \in Roles : BeginInvite(r, actor, role)) \/ BeginResend(r, actor) \/ BeginRevoke(r, actor)
       PROVE  Goal
  <2>1. PICK record \in Asked : Begin(r, record) /\ record.pc # "apply"
    BY <1>10, Others
  <2>2. user' = user /\ setAside' = setAside
    BY <1>10 DEF BeginInvite, BeginResend, BeginRevoke
  <2> QED
    BY <1>3, <2>1, <2>2
<1>11. ASSUME NEW r \in Requests, NEW link \in 1 .. MaxLinks, BeginAccept(r, link) PROVE Goal
  <2> DEFINE record == [Idle EXCEPT !.pc = "accept", !.role = invitation.role, !.link = link]
  <2>1. record \in Asked /\ record.pc # "apply"
    BY <1>0, <1>11, AcceptTypes DEF TurnInv, ClosedInv, TypeOK, Invitations, Idle
  <2>2. Begin(r, record) /\ user' = user /\ setAside' = setAside
    BY <1>11 DEF BeginAccept
  <2> HIDE DEF record
  <2> QED
    BY <1>3, <2>1, <2>2
<1>12. CASE Expire \/ UNCHANGED vars
  BY <1>12 DEF Expire, vars, OwnerInv, OwnerRemains, At, LosesOwner, AnotherOwner
<1> QED
  BY <1>4, <1>5, <1>7, <1>8, <1>9, <1>10, <1>11, <1>12 DEF Next

(* Requests in turn leave somebody who can administer the workspace, however *)
(* many members it has.                                                      *)
THEOREM AnOwnerRemains == Spec => []OwnerRemainsInTurn
<1>1. OwnerInv => OwnerRemainsInTurn
  BY DEF OwnerInv, OwnerRemainsInTurn
<1> QED
  BY OwnerInit, OwnerStep, <1>1, PTL DEF Spec

HIDE MembershipAssumption DEF MembershipAssumption

-------------------------------------------------------------------------------
(* CAMPAIGN LIFECYCLE *)

USE CampaignAssumption DEF CampaignAssumption

-------------------------------------------------------------------------------
(* Types *)

LEMMA RequestKinds ==
    /\ NoRequest \in CampaignRequests
    /\ \A pc \in {"count", "status"}, next \in Statuses \ {"DRAFT"} : [pc |-> pc, next |-> next] \in CampaignRequests
    /\ \A patch \in PatchRows : [pc |-> "update", patch |-> patch] \in CampaignRequests
    /\ \A pc \in {"eligible", "add"}, leads \in SUBSET Leads : [pc |-> pc, leads |-> leads] \in CampaignRequests
    /\ [pc |-> "delete"] \in CampaignRequests
BY DEF CampaignRequests

\* What is known of a request from where it is.
LEMMA RequestFields ==
    ASSUME CampaignTypeOK, NEW m \in Managers
    PROVE  /\ ManagerAt(m, "count") \/ ManagerAt(m, "status") =>
                 manager[m].next \in Statuses \ {"DRAFT"} /\ manager[m] = [pc |-> manager[m].pc, next |-> manager[m].next]
           /\ ManagerAt(m, "update") => manager[m].patch \in PatchRows
           /\ ManagerAt(m, "eligible") \/ ManagerAt(m, "add") => manager[m].leads \subseteq Leads
<1>1. manager[m] \in CampaignRequests
  BY DEF CampaignTypeOK
<1>2. CASE manager[m] = NoRequest
  BY <1>2 DEF NoRequest, ManagerAt
<1>3. CASE manager[m] \in [pc : {"count", "status"}, next : Statuses \ {"DRAFT"}]
  BY <1>3 DEF ManagerAt
<1>4. CASE manager[m] \in [pc : {"update"}, patch : PatchRows]
  BY <1>4 DEF ManagerAt
<1>5. CASE manager[m] \in [pc : {"eligible", "add"}, leads : SUBSET Leads]
  BY <1>5 DEF ManagerAt
<1>6. CASE manager[m] \in [pc : {"delete"}]
  BY <1>6 DEF ManagerAt
<1> QED
  BY <1>1, <1>2, <1>3, <1>4, <1>5, <1>6 DEF CampaignRequests

LEMMA RequestMoves ==
    ASSUME CampaignTypeOK, NEW m \in Managers, NEW record \in CampaignRequests, Begins(m, record) \/ Becomes(m, record)
    PROVE  manager' \in [Managers -> CampaignRequests] /\ managersOverlapped' \in BOOLEAN
BY DEF CampaignTypeOK, Begins, Becomes, Overlaps

LEMMA CampaignTypeInit == CampaignInit => CampaignTypeOK
<1> SUFFICES ASSUME CampaignInit PROVE CampaignTypeOK
  OBVIOUS
<1>1. campaign \in Rows
  BY DEF CampaignInit, Rows, Statuses, Minutes
<1>2. manager \in [Managers -> CampaignRequests]
  BY RequestKinds DEF CampaignInit
<1> QED
  BY <1>1, <1>2 DEF CampaignInit, CampaignTypeOK

LEMMA CampaignTypeStep == CampaignTypeOK /\ [CampaignNext]_campaignVars => CampaignTypeOK'
<1> SUFFICES ASSUME CampaignTypeOK, [CampaignNext]_campaignVars PROVE CampaignTypeOK'
  OBVIOUS
<1> USE DEF world
<1>1. ASSUME NEW m \in Managers, NEW next \in Statuses, BeginTransition(m, next) PROVE CampaignTypeOK'
  <2>1. next # "DRAFT"
    BY <1>1 DEF BeginTransition, AllowedTransitions, CampaignTypeOK, Rows, Statuses
  <2>2. PICK record \in CampaignRequests : Begins(m, record)
    BY <1>1, <2>1, RequestKinds DEF BeginTransition
  <2>3. manager' \in [Managers -> CampaignRequests] /\ managersOverlapped' \in BOOLEAN
    BY <2>2, RequestMoves
  <2> QED
    BY <1>1, <2>3 DEF BeginTransition, CampaignTypeOK
<1>2. ASSUME NEW m \in Managers, CountLeads(m) PROVE CampaignTypeOK'
  <2>1. [manager[m] EXCEPT !.pc = "status"] \in CampaignRequests
    <3>1. manager[m].next \in Statuses \ {"DRAFT"} /\ manager[m] = [pc |-> manager[m].pc, next |-> manager[m].next]
      BY <1>2, RequestFields DEF CountLeads
    <3>2. [manager[m] EXCEPT !.pc = "status"] = [pc |-> "status", next |-> manager[m].next]
      BY <3>1
    <3> QED
      BY <3>1, <3>2, RequestKinds
  <2>2. manager' \in [Managers -> CampaignRequests] /\ managersOverlapped' \in BOOLEAN
    BY <1>2, <2>1, RequestKinds, RequestMoves DEF CountLeads
  <2> QED
    BY <1>2, <2>2 DEF CountLeads, CampaignTypeOK
<1>3. ASSUME NEW m \in Managers, WriteStatus(m) PROVE CampaignTypeOK'
  <2>1. manager' \in [Managers -> CampaignRequests] /\ managersOverlapped' \in BOOLEAN
    BY <1>3, RequestKinds, RequestMoves DEF WriteStatus
  <2>2. campaign' \in Rows
    BY <1>3, RequestFields DEF WriteStatus, CampaignTypeOK, Rows
  <2> QED
    BY <1>3, <2>1, <2>2 DEF WriteStatus, CampaignTypeOK
<1>4. ASSUME NEW m \in Managers, NEW patch \in Patches, BeginCampaignUpdate(m, patch) PROVE CampaignTypeOK'
  <2>1. [patch EXCEPT !.script = ScriptToStore(patch)] \in PatchRows
    BY DEF PatchRows, Minutes, ScriptToStore
  <2>2. manager' \in [Managers -> CampaignRequests] /\ managersOverlapped' \in BOOLEAN
    BY <1>4, <2>1, RequestKinds, RequestMoves DEF BeginCampaignUpdate
  <2> QED
    BY <1>4, <2>2 DEF BeginCampaignUpdate, CampaignTypeOK
<1>5. ASSUME NEW m \in Managers, WriteUpdate(m) PROVE CampaignTypeOK'
  <2>1. manager' \in [Managers -> CampaignRequests] /\ managersOverlapped' \in BOOLEAN
    BY <1>5, RequestKinds, RequestMoves DEF WriteUpdate
  <2>2. manager[m].patch \in PatchRows
    BY <1>5, RequestFields DEF WriteUpdate
  <2>3. campaign' \in Rows
    BY <1>5, <2>2 DEF WriteUpdate, CampaignTypeOK, Rows, PatchRows, Over
  <2> QED
    BY <1>5, <2>1, <2>3 DEF WriteUpdate, CampaignTypeOK
<1>6. ASSUME NEW m \in Managers, NEW leads \in SUBSET Leads, BeginAdd(m, leads) PROVE CampaignTypeOK'
  <2>1. manager' \in [Managers -> CampaignRequests] /\ managersOverlapped' \in BOOLEAN
    BY <1>6, RequestKinds, RequestMoves DEF BeginAdd
  <2> QED
    BY <1>6, <2>1 DEF BeginAdd, CampaignTypeOK
<1>7. ASSUME NEW m \in Managers, ReadEligible(m) PROVE CampaignTypeOK'
  <2>1. [pc |-> "add", leads |-> manager[m].leads \ dnc] \in CampaignRequests
    BY <1>7, RequestFields, RequestKinds DEF ReadEligible
  <2>2. manager' \in [Managers -> CampaignRequests] /\ managersOverlapped' \in BOOLEAN
    BY <1>7, <2>1, RequestMoves DEF ReadEligible
  <2> QED
    BY <1>7, <2>2 DEF ReadEligible, CampaignTypeOK
<1>8. ASSUME NEW m \in Managers, AddLeads(m) PROVE CampaignTypeOK'
  <2>1. manager' \in [Managers -> CampaignRequests] /\ managersOverlapped' \in BOOLEAN
    BY <1>8, RequestKinds, RequestMoves DEF AddLeads
  <2>2. members' \subseteq Leads
    BY <1>8, RequestFields DEF AddLeads, CampaignTypeOK
  <2> QED
    BY <1>8, <2>1, <2>2 DEF AddLeads, CampaignTypeOK
<1>9. ASSUME NEW m \in Managers, NEW l \in Leads, RemoveLead(m, l) PROVE CampaignTypeOK'
  BY <1>9 DEF RemoveLead, Overlaps, CampaignTypeOK
<1>10. ASSUME NEW m \in Managers, BeginRemove(m) PROVE CampaignTypeOK'
  <2>1. manager' \in [Managers -> CampaignRequests] /\ managersOverlapped' \in BOOLEAN
    BY <1>10, RequestKinds, RequestMoves DEF BeginRemove
  <2> QED
    BY <1>10, <2>1 DEF BeginRemove, CampaignTypeOK
<1>11. ASSUME NEW m \in Managers, DeleteCampaign(m) PROVE CampaignTypeOK'
  <2>1. manager' \in [Managers -> CampaignRequests] /\ managersOverlapped' \in BOOLEAN
    BY <1>11, RequestKinds, RequestMoves DEF DeleteCampaign
  <2>2. campaign' \in Rows
    BY <1>11 DEF DeleteCampaign, CampaignTypeOK, Rows
  <2> QED
    BY <1>11, <2>1, <2>2 DEF DeleteCampaign, CampaignTypeOK
<1>12. ASSUME NEW l \in Leads, FlagDoNotCall(l) PROVE CampaignTypeOK'
  BY <1>12 DEF FlagDoNotCall, CampaignTypeOK
<1>13. CASE PassGate
  BY <1>13 DEF PassGate, CampaignTypeOK
<1>14. CASE CreateCall
  <2>1. calls' \in Nat /\ orphans' \in Nat
    BY <1>14 DEF CreateCall, CampaignTypeOK
  <2> QED
    BY <1>14, <2>1 DEF CreateCall, CampaignTypeOK
<1>15. CASE UNCHANGED campaignVars
  BY <1>15 DEF campaignVars, CampaignTypeOK
<1> QED
  BY <1>1, <1>2, <1>3, <1>4, <1>5, <1>6, <1>7, <1>8, <1>9, <1>10, <1>11, <1>12, <1>13, <1>14, <1>15
     DEF CampaignNext, ManagerStep

(* Every variable keeps its type; in particular no request ever takes a      *)
(* campaign back to DRAFT.                                                   *)
THEOREM CampaignTypesHold == CampaignSpec => []CampaignTypeOK
  BY CampaignTypeInit, CampaignTypeStep, PTL DEF CampaignSpec

-------------------------------------------------------------------------------
(* A draft is never dialled *)

\* Whoever got past the gate did so after somebody had activated the campaign.
ActivatedInv == CampaignTypeOK /\ (dialling \/ calls + orphans > 0 => campaign.status # "DRAFT")

LEMMA ActivatedStep == ActivatedInv /\ [CampaignNext]_campaignVars => ActivatedInv'
<1> SUFFICES ASSUME ActivatedInv, [CampaignNext]_campaignVars PROVE ActivatedInv'
  OBVIOUS
<1>t. CampaignTypeOK /\ CampaignTypeOK'
  BY CampaignTypeStep DEF ActivatedInv
<1> USE <1>t DEF world
<1>1. campaign.status # "DRAFT" => campaign'.status # "DRAFT"
  <2>1. ASSUME NEW m \in Managers, WriteStatus(m) PROVE campaign'.status # "DRAFT" \/ campaign' = campaign
    BY <2>1, RequestFields DEF WriteStatus, CampaignTypeOK, Rows
  <2>2. ASSUME NEW m \in Managers, WriteUpdate(m) \/ DeleteCampaign(m) PROVE campaign'.status = campaign.status
    BY <2>2 DEF WriteUpdate, DeleteCampaign, CampaignTypeOK, Rows
  <2>3. \/ campaign' = campaign
        \/ \E m \in Managers : WriteStatus(m) \/ WriteUpdate(m) \/ DeleteCampaign(m)
    BY DEF CampaignNext, ManagerStep, BeginTransition, CountLeads, BeginCampaignUpdate, BeginAdd, ReadEligible, AddLeads,
           RemoveLead, BeginRemove, FlagDoNotCall, PassGate, CreateCall, campaignVars
  <2> QED
    BY <2>1, <2>2, <2>3
<1>2. dialling' => dialling \/ campaign.status # "DRAFT"
  BY DEF CampaignNext, ManagerStep, BeginTransition, CountLeads, WriteStatus, BeginCampaignUpdate, WriteUpdate, BeginAdd,
         ReadEligible, AddLeads, RemoveLead, BeginRemove, DeleteCampaign, FlagDoNotCall, PassGate,
         StatusMayBeDialled, CreateCall, campaignVars
<1>3. calls' + orphans' > 0 => dialling \/ calls + orphans > 0
  <2>1. CASE CreateCall
    BY <2>1 DEF CreateCall
  <2>2. ASSUME NEW m \in Managers, DeleteCampaign(m) PROVE calls' + orphans' = calls + orphans
    BY <2>2 DEF DeleteCampaign, CampaignTypeOK
  <2>3. CreateCall \/ (\E m \in Managers : DeleteCampaign(m)) \/ UNCHANGED <<calls, orphans>>
    BY DEF CampaignNext, ManagerStep, BeginTransition, CountLeads, WriteStatus, BeginCampaignUpdate, WriteUpdate, BeginAdd,
           ReadEligible, AddLeads, RemoveLead, BeginRemove, FlagDoNotCall, PassGate, campaignVars
  <2> QED
    BY <2>1, <2>2, <2>3
<1> QED
  BY <1>1, <1>2, <1>3 DEF ActivatedInv

(* No call is ever placed for a campaign that nobody has activated, whatever *)
(* any number of requests overwrite.                                         *)
THEOREM DraftIsNeverDialled == CampaignSpec => []NoCallFromADraft
<1>1. CampaignInit => ActivatedInv
  BY CampaignTypeInit DEF CampaignInit, ActivatedInv
<1>2. ActivatedInv => NoCallFromADraft
  BY DEF ActivatedInv, NoCallFromADraft
<1> QED
  BY <1>1, <1>2, ActivatedStep, PTL DEF CampaignSpec

-------------------------------------------------------------------------------
(* Requests in turn *)

\* What a request found when it was judged is still so.
StillJudged(m) ==
    /\ ManagerAt(m, "count") \/ ManagerAt(m, "status") =>
          /\ manager[m].next \in AllowedTransitions(campaign.status)
          /\ manager[m].next = "ACTIVE" => campaign.agent # Null /\ campaign.script = "written"
    /\ ManagerAt(m, "status") /\ manager[m].next = "ACTIVE" => members # {}
    /\ ManagerAt(m, "update") =>
          WindowInOrder(Over(manager[m].patch.start, campaign.start), Over(manager[m].patch.end, campaign.end))

CampaignTurnInv ==
    ~managersOverlapped =>
       /\ \A m, n \in Managers : m # n => ManagerAt(m, "idle") \/ ManagerAt(n, "idle")
       /\ \A m \in Managers : StillJudged(m)
       /\ WindowIsOrdered

\* One request is under way and the others are idle: only it has to be looked at.
LEMMA TurnKept ==
    ASSUME NEW m \in Managers, \A n \in Managers \ {m} : ManagerAt(n, "idle")', StillJudged(m)', WindowIsOrdered'
    PROVE  CampaignTurnInv'
<1>1. \A n \in Managers \ {m} : StillJudged(n)'
  BY DEF StillJudged, ManagerAt
<1> QED
  BY <1>1 DEF CampaignTurnInv

\* A request that begins, while no two overlap, finds the others idle.
LEMMA BeginsAlone ==
    ASSUME CampaignTypeOK, NEW m \in Managers, NEW record, Begins(m, record), ~managersOverlapped'
    PROVE  /\ ~managersOverlapped /\ manager'[m] = record
           /\ \A n \in Managers \ {m} : ManagerAt(n, "idle")'
BY DEF CampaignTypeOK, Begins, Overlaps, ManagerAt

\* A request that goes on, while no two overlap, leaves the others idle.
LEMMA BecomesAlone ==
    ASSUME CampaignTypeOK, CampaignTurnInv, NEW m \in Managers, NEW record, Becomes(m, record), ~managersOverlapped', ~ManagerAt(m, "idle")
    PROVE  /\ ~managersOverlapped /\ manager'[m] = record
           /\ \A n \in Managers \ {m} : ManagerAt(n, "idle")'
BY DEF CampaignTypeOK, Becomes, CampaignTurnInv, ManagerAt

LEMMA CampaignTurnInit == CampaignInit => CampaignTurnInv
<1> SUFFICES ASSUME CampaignInit PROVE CampaignTurnInv
  OBVIOUS
<1>1. \A m \in Managers : manager[m].pc = "idle"
  BY DEF CampaignInit, NoRequest
<1>2. WindowIsOrdered
  BY DEF CampaignInit, WindowIsOrdered
<1> QED
  BY <1>1, <1>2 DEF CampaignTurnInv, StillJudged, ManagerAt

LEMMA CampaignTurnStep == CampaignTypeOK /\ CampaignTurnInv /\ [CampaignNext]_campaignVars => CampaignTurnInv'
<1> SUFFICES ASSUME CampaignTypeOK, CampaignTurnInv, [CampaignNext]_campaignVars, ~managersOverlapped' PROVE CampaignTurnInv'
  BY DEF CampaignTurnInv
<1> USE DEF world
<1>i. NoRequest.pc = "idle"
  BY DEF NoRequest
<1>w. ~managersOverlapped /\ UNCHANGED campaign => WindowIsOrdered'
  BY DEF CampaignTurnInv, WindowIsOrdered
<1>1. ASSUME NEW m \in Managers, NEW next \in Statuses, BeginTransition(m, next) PROVE CampaignTurnInv'
  <2> DEFINE record == [pc |-> IF next = "ACTIVE" THEN "count" ELSE "status", next |-> next]
  <2>1. ~managersOverlapped /\ manager'[m] = record /\ \A n \in Managers \ {m} : ManagerAt(n, "idle")'
    BY <1>1, BeginsAlone DEF BeginTransition
  <2>2. StillJudged(m)'
    BY <1>1, <2>1 DEF BeginTransition, StillJudged, ManagerAt
  <2> QED
    BY <1>1, <1>w, <2>1, <2>2, TurnKept DEF BeginTransition
<1>2. ASSUME NEW m \in Managers, CountLeads(m) PROVE CampaignTurnInv'
  <2> DEFINE record == IF EnoughLeads THEN [manager[m] EXCEPT !.pc = "status"] ELSE NoRequest
  <2>1. ~managersOverlapped /\ manager'[m] = record /\ \A n \in Managers \ {m} : ManagerAt(n, "idle")'
    BY <1>2, BecomesAlone DEF CountLeads, ManagerAt
  <2>2. manager[m] = [pc |-> "count", next |-> manager[m].next] /\ StillJudged(m)
    BY <1>2, <2>1, RequestFields DEF CountLeads, ManagerAt, CampaignTurnInv
  <2>3. StillJudged(m)'
    BY <1>2, <1>i, <2>1, <2>2 DEF CountLeads, EnoughLeads, StillJudged, ManagerAt
  <2> QED
    BY <1>2, <1>w, <2>1, <2>3, TurnKept DEF CountLeads
<1>3. ASSUME NEW m \in Managers, NEW patch \in Patches, BeginCampaignUpdate(m, patch) PROVE CampaignTurnInv'
  <2> DEFINE record == [pc |-> "update", patch |-> [patch EXCEPT !.script = ScriptToStore(patch)]]
  <2>1. ~managersOverlapped /\ manager'[m] = record /\ \A n \in Managers \ {m} : ManagerAt(n, "idle")'
    BY <1>3, BeginsAlone DEF BeginCampaignUpdate
  <2>2. record.patch.start = patch.start /\ record.patch.end = patch.end
    OBVIOUS
  <2> HIDE DEF record
  <2>3. manager'[m].pc = "update" /\ manager'[m].patch = record.patch
    BY <2>1 DEF record
  <2>4. StillJudged(m)'
    BY <1>3, <2>2, <2>3 DEF BeginCampaignUpdate, StillJudged, ManagerAt
  <2> QED
    BY <1>3, <1>w, <2>1, <2>4, TurnKept DEF BeginCampaignUpdate
<1>4. ASSUME NEW m \in Managers, WriteUpdate(m) PROVE CampaignTurnInv'
  <2>1. ~managersOverlapped /\ manager'[m] = NoRequest /\ \A n \in Managers \ {m} : ManagerAt(n, "idle")'
    BY <1>4, BecomesAlone DEF WriteUpdate, ManagerAt
  <2>2. StillJudged(m)'
    BY <1>i, <2>1 DEF StillJudged, ManagerAt
  <2>3. WindowInOrder(Over(manager[m].patch.start, campaign.start), Over(manager[m].patch.end, campaign.end))
    BY <1>4, <2>1 DEF WriteUpdate, CampaignTurnInv, StillJudged
  <2>4. CASE campaign.exists
    <3>1. /\ campaign'.start = Over(manager[m].patch.start, campaign.start)
          /\ campaign'.end = Over(manager[m].patch.end, campaign.end)
      BY <1>4, <2>4 DEF WriteUpdate, CampaignTypeOK, Rows
    <3>2. WindowIsOrdered'
      BY <2>3, <3>1 DEF WindowIsOrdered, WindowInOrder
    <3> QED
      BY <2>1, <2>2, <3>2, TurnKept
  <2>5. CASE ~campaign.exists
    BY <1>4, <1>w, <2>1, <2>2, <2>5, TurnKept DEF WriteUpdate
  <2> QED
    BY <2>4, <2>5
<1>5. ASSUME NEW m \in Managers, WriteStatus(m) \/ AddLeads(m) \/ DeleteCampaign(m) PROVE CampaignTurnInv'
  <2>1. ~managersOverlapped /\ manager'[m] = NoRequest /\ \A n \in Managers \ {m} : ManagerAt(n, "idle")'
    BY <1>5, BecomesAlone DEF WriteStatus, AddLeads, DeleteCampaign, ManagerAt
  <2>2. StillJudged(m)'
    BY <1>i, <2>1 DEF StillJudged, ManagerAt
  <2>3. campaign'.start = campaign.start /\ campaign'.end = campaign.end
    BY <1>5 DEF WriteStatus, AddLeads, DeleteCampaign, CampaignTypeOK, Rows
  <2>4. WindowIsOrdered'
    BY <2>1, <2>3 DEF CampaignTurnInv, WindowIsOrdered
  <2> QED
    BY <2>1, <2>2, <2>4, TurnKept
<1>6. ASSUME NEW m \in Managers, NEW leads \in SUBSET Leads, BeginAdd(m, leads) PROVE CampaignTurnInv'
  <2>1. ~managersOverlapped /\ manager'[m].pc = "eligible" /\ \A n \in Managers \ {m} : ManagerAt(n, "idle")'
    BY <1>6, BeginsAlone DEF BeginAdd
  <2>2. StillJudged(m)'
    BY <2>1 DEF StillJudged, ManagerAt
  <2> QED
    BY <1>6, <1>w, <2>1, <2>2, TurnKept DEF BeginAdd
<1>7. ASSUME NEW m \in Managers, ReadEligible(m) PROVE CampaignTurnInv'
  <2>1. ~managersOverlapped /\ manager'[m].pc = "add" /\ \A n \in Managers \ {m} : ManagerAt(n, "idle")'
    BY <1>7, BecomesAlone DEF ReadEligible, ManagerAt
  <2>2. StillJudged(m)'
    BY <2>1 DEF StillJudged, ManagerAt
  <2> QED
    BY <1>7, <1>w, <2>1, <2>2, TurnKept DEF ReadEligible
<1>8. ASSUME NEW m \in Managers, NEW l \in Leads, RemoveLead(m, l) PROVE CampaignTurnInv'
  <2>1. ~managersOverlapped /\ \A n \in Managers : ManagerAt(n, "idle")'
    BY <1>8 DEF RemoveLead, Overlaps, CampaignTypeOK, ManagerAt
  <2>2. StillJudged(m)'
    BY <2>1 DEF StillJudged, ManagerAt
  <2> QED
    BY <1>8, <1>w, <2>1, <2>2, TurnKept DEF RemoveLead
<1>9. ASSUME NEW m \in Managers, BeginRemove(m) PROVE CampaignTurnInv'
  <2>1. ~managersOverlapped /\ manager'[m].pc = "delete" /\ \A n \in Managers \ {m} : ManagerAt(n, "idle")'
    BY <1>9, BeginsAlone DEF BeginRemove
  <2>2. StillJudged(m)'
    BY <2>1 DEF StillJudged, ManagerAt
  <2> QED
    BY <1>9, <1>w, <2>1, <2>2, TurnKept DEF BeginRemove
<1>10. ASSUME UNCHANGED <<campaign, members, manager, managersOverlapped>> PROVE CampaignTurnInv'
  BY <1>10, <1>w DEF CampaignTurnInv, StillJudged, ManagerAt
<1>11. CASE PassGate \/ CreateCall \/ UNCHANGED campaignVars
  BY <1>10, <1>11 DEF PassGate, CreateCall, campaignVars
<1>12. ASSUME NEW l \in Leads, FlagDoNotCall(l) PROVE CampaignTurnInv'
  BY <1>10, <1>12 DEF FlagDoNotCall
<1> QED
  BY <1>1, <1>2, <1>3, <1>4, <1>5, <1>6, <1>7, <1>8, <1>9, <1>11, <1>12 DEF CampaignNext, ManagerStep

(* PATCHes that follow one another store no window that is cut in half,      *)
(* empty or inverted, whatever each of them moves.                           *)
THEOREM WindowHolds == CampaignSpec => []WindowStaysOrdered
<1>1. CampaignTurnInv => WindowStaysOrdered
  BY DEF CampaignTurnInv, WindowStaysOrdered
<1> QED
  BY <1>1, CampaignTypesHold, CampaignTurnInit, CampaignTurnStep, PTL DEF CampaignSpec

\* Only WriteStatus changes the status, and to what was asked for.
LEMMA StatusChanges ==
    ASSUME CampaignTypeOK, [CampaignNext]_campaignVars, campaign'.status # campaign.status
    PROVE  \E m \in Managers : WriteStatus(m) /\ campaign'.status = manager[m].next
<1> USE DEF world
<1>1. ASSUME NEW m \in Managers, WriteUpdate(m) \/ DeleteCampaign(m) PROVE FALSE
  BY <1>1 DEF WriteUpdate, DeleteCampaign, CampaignTypeOK, Rows
<1>2. \E m \in Managers : WriteStatus(m)
  BY <1>1 DEF CampaignNext, ManagerStep, BeginTransition, CountLeads, BeginCampaignUpdate, BeginAdd, ReadEligible, AddLeads,
              RemoveLead, BeginRemove, FlagDoNotCall, PassGate, CreateCall, campaignVars
<1> QED
  BY <1>2 DEF WriteStatus, CampaignTypeOK, Rows

LEMMA JudgedStatus ==
    ASSUME CampaignTypeOK, CampaignTurnInv, [CampaignNext]_campaignVars, campaign'.status # campaign.status, ~managersOverlapped'
    PROVE  /\ campaign'.status \in AllowedTransitions(campaign.status)
           /\ campaign'.status = "ACTIVE" => campaign.agent # Null /\ campaign.script = "written" /\ members # {}
<1>1. PICK m \in Managers : WriteStatus(m) /\ campaign'.status = manager[m].next
  BY StatusChanges
<1>2. ManagerAt(m, "status") /\ ~managersOverlapped
  BY <1>1 DEF WriteStatus, Becomes
<1> QED
  BY <1>1, <1>2 DEF CampaignTurnInv, StillJudged

(* Requests that follow one another never take an archived campaign out of   *)
(* the archive.                                                              *)
THEOREM ArchiveIsFinal == CampaignSpec => ArchivedIsFinal
<1>1. CampaignTypeOK /\ CampaignTurnInv /\ [CampaignNext]_campaignVars =>
         [campaign.status = "ARCHIVED" /\ ~managersOverlapped' => campaign'.status = "ARCHIVED"]_campaignVars
  BY JudgedStatus DEF AllowedTransitions
<1> QED
  BY <1>1, CampaignTypesHold, CampaignTurnInit, CampaignTurnStep, PTL DEF CampaignSpec, ArchivedIsFinal

(* While requests follow one another, a campaign only becomes active with an *)
(* agent, a script and at least one lead.                                    *)
THEOREM ActivationIsChecked == CampaignSpec => ActivationChecked
<1>1. CampaignTypeOK /\ CampaignTurnInv /\ [CampaignNext]_campaignVars =>
         [campaign.status # "ACTIVE" /\ campaign'.status = "ACTIVE" /\ ~managersOverlapped'
             => campaign.agent # Null /\ campaign.script = "written" /\ members # {}]_campaignVars
  BY JudgedStatus
<1> QED
  BY <1>1, CampaignTypesHold, CampaignTurnInit, CampaignTurnStep, PTL DEF CampaignSpec, ActivationChecked

HIDE CampaignAssumption DEF CampaignAssumption
-------------------------------------------------------------------------------
(* TENANT STATUS *)

USE TenantStatusAssumption DEF TenantStatusAssumption, tenantVars, shut, requests

-------------------------------------------------------------------------------
(* Types *)

Changes == [from : TenantStatuses, to : TenantStatuses]
Entries == [status : TenantStatuses \union {Absent}, until : Nat]
Operations == [pc : {"idle", "audit", "commit", "forget"}, was : TenantStatuses, to : TenantStatuses]
Lookups == [pc : {"out", "store"}, status : TenantStatuses \union {Absent}, begun : Nat]

LEMMA TenantTypes ==
    TenantTypeOK <=> /\ status \in TenantStatuses /\ changes \in Seq(Changes) /\ cache \in [Instances -> Entries]
                     /\ op \in [Operators -> Operations] /\ req \in [TenantRequests -> Lookups]
                     /\ now \in Nat /\ since \in [Kinds -> Int] /\ heeded \subseteq Instances \X Kinds
                     /\ intruded \in BOOLEAN /\ operatorsOverlapped \in BOOLEAN
BY DEF TenantTypeOK, Changes, Entries, Operations, Lookups

LEMMA TenantTypesNext ==
    ASSUME status' \in TenantStatuses, changes' \in Seq(Changes), cache' \in [Instances -> Entries],
           op' \in [Operators -> Operations], req' \in [TenantRequests -> Lookups], now' \in Nat,
           since' \in [Kinds -> Int], heeded' \subseteq Instances \X Kinds,
           intruded' \in BOOLEAN, operatorsOverlapped' \in BOOLEAN
    PROVE  TenantTypeOK'
BY DEF TenantTypeOK, Changes, Entries, Operations, Lookups

LEMMA TenantConstants ==
    /\ Resting \in Operations /\ Out \in Lookups /\ NoEntry \in Entries
    /\ {"SUSPENDED", "CANCELLED", "ACTIVE", "TRIAL"} = TenantStatuses
BY DEF Resting, Operations, Out, Lookups, NoEntry, Entries, TenantStatuses, Open, Closed

\* Of an operator at work, its step and the status it sets alone change.
LEMMA OperatorMoves ==
    ASSUME op \in [Operators -> Operations], NEW o \in Operators,
           NEW pc \in {"idle", "audit", "commit", "forget"}, NEW to \in TenantStatuses
    PROVE  [op EXCEPT ![o].pc = pc, ![o].to = to] = [op EXCEPT ![o] = [pc |-> pc, was |-> op[o].was, to |-> to]]
<1> DEFINE moved == [op EXCEPT ![o].pc = pc]
<1>1. moved = [op EXCEPT ![o] = [op[o] EXCEPT !.pc = pc]]
  BY Zenon
<1>2. op[o] \in Operations
  OBVIOUS
<1>3. moved[o] = [op[o] EXCEPT !.pc = pc] /\ \A x \in Operators : x # o => moved[x] = op[x]
  BY <1>1
<1>4. [moved[o] EXCEPT !.to = to] = [pc |-> pc, was |-> op[o].was, to |-> to]
  <2> DEFINE first == [op[o] EXCEPT !.pc = pc]
  <2>1. first = [pc |-> pc, was |-> op[o].was, to |-> op[o].to]
    BY <1>2 DEF Operations
  <2> HIDE DEF first
  <2>2. [first EXCEPT !.to = to] = [pc |-> pc, was |-> op[o].was, to |-> to]
    BY <2>1
  <2> QED
    BY <1>3, <2>2 DEF first
<1>5. [op EXCEPT ![o].pc = pc, ![o].to = to] = [moved EXCEPT ![o] = [moved[o] EXCEPT !.to = to]]
  BY Zenon
<1>6. [moved EXCEPT ![o] = [moved[o] EXCEPT !.to = to]] = [op EXCEPT ![o] = [moved[o] EXCEPT !.to = to]]
  BY <1>1
<1> QED
  BY <1>4, <1>5, <1>6, Zenon

LEMMA TenantTypeInit == TenantInit => TenantTypeOK
<1> SUFFICES ASSUME TenantInit PROVE TenantTypeOK
  OBVIOUS
<1>1. status \in TenantStatuses /\ changes \in Seq(Changes) /\ now \in Nat
  BY TenantConstants DEF TenantInit
<1>2. cache \in [Instances -> Entries] /\ op \in [Operators -> Operations] /\ req \in [TenantRequests -> Lookups]
  BY TenantConstants DEF TenantInit
<1>3. since \in [Kinds -> Int] /\ heeded \subseteq Instances \X Kinds
  BY DEF TenantInit, NotShut
<1> QED
  BY <1>1, <1>2, <1>3, TenantTypes DEF TenantInit

LEMMA TenantTypeStep == TenantTypeOK /\ [TenantNext]_tenantVars => TenantTypeOK'
<1> SUFFICES ASSUME TenantTypeOK, [TenantNext]_tenantVars PROVE TenantTypeOK'
  OBVIOUS
<1>0. /\ status \in TenantStatuses /\ changes \in Seq(Changes) /\ cache \in [Instances -> Entries]
      /\ op \in [Operators -> Operations] /\ req \in [TenantRequests -> Lookups]
      /\ now \in Nat /\ since \in [Kinds -> Int] /\ heeded \subseteq Instances \X Kinds
      /\ intruded \in BOOLEAN /\ operatorsOverlapped \in BOOLEAN
  BY TenantTypes
<1>1. ASSUME NEW o \in Operators, NEW what \in {"suspend", "cancel", "reactivate"}, BeginChange(o, what)
      PROVE  TenantTypeOK'
  <2>1. PICK pc \in {"audit", "commit"}, to \in TenantStatuses :
             op' = [op EXCEPT ![o] = [pc |-> pc, was |-> status, to |-> to]]
    BY <1>1, TenantConstants DEF BeginChange
  <2>2. [pc |-> pc, was |-> status, to |-> to] \in Operations
    BY <1>0 DEF Operations
  <2>3. op' \in [Operators -> Operations] /\ operatorsOverlapped' \in BOOLEAN
    BY <1>0, <1>1, <2>1, <2>2 DEF BeginChange
  <2> QED
    BY <1>0, <1>1, <2>3, TenantTypesNext DEF BeginChange
<1>2. ASSUME NEW o \in Operators, ReadAudit(o) PROVE TenantTypeOK'
  <2>1. PICK to \in TenantStatuses : op' = [op EXCEPT ![o].pc = "commit", ![o].to = to]
    BY <1>2, TenantConstants DEF ReadAudit
  <2>2. op' = [op EXCEPT ![o] = [pc |-> "commit", was |-> op[o].was, to |-> to]]
    BY <1>0, <2>1, OperatorMoves
  <2>3. [pc |-> "commit", was |-> op[o].was, to |-> to] \in Operations
    BY <1>0 DEF Operations
  <2>4. op' \in [Operators -> Operations]
    BY <1>0, <2>2, <2>3
  <2> QED
    BY <1>0, <1>2, <2>4, TenantTypesNext DEF ReadAudit
<1>3. ASSUME NEW o \in Operators, Commit(o) PROVE TenantTypeOK'
  <2>1. op[o].was \in TenantStatuses /\ op[o].to \in TenantStatuses
    BY <1>0 DEF Operations
  <2>2. changes' \in Seq(Changes) /\ status' \in TenantStatuses
    <3>1. [from |-> op[o].was, to |-> op[o].to] \in Changes
      BY <2>1 DEF Changes
    <3> QED
      BY <1>0, <1>3, <2>1, <3>1 DEF Commit
  <2>3. since' \in [Kinds -> Int] /\ heeded' \subseteq Instances \X Kinds
    BY <1>0, <1>3 DEF Commit, NotShut
  <2>4. op' \in [Operators -> Operations]
    <3>1. [Resting EXCEPT !.pc = "forget"] \in Operations
      BY TenantConstants DEF Operations
    <3> QED
      BY <1>0, <1>3, <3>1 DEF Commit
  <2> QED
    BY <1>0, <1>3, <2>2, <2>3, <2>4, TenantTypesNext DEF Commit
<1>4. ASSUME NEW o \in Operators, Forget(o) PROVE TenantTypeOK'
  <2>1. cache' \in [Instances -> Entries] /\ op' \in [Operators -> Operations]
    BY <1>0, <1>4, TenantConstants DEF Forget, ForgetEntry
  <2>2. heeded' \subseteq Instances \X Kinds
    BY <1>0, <1>4 DEF Forget
  <2> QED
    BY <1>0, <1>4, <2>1, <2>2, TenantTypesNext DEF Forget
<1>5. ASSUME NEW r \in TenantRequests, NEW kind \in Kinds, JudgeByCache(r, kind) PROVE TenantTypeOK'
  <2>1. intruded' \in BOOLEAN
    BY <1>0, <1>5 DEF JudgeByCache
  <2> QED
    BY <1>0, <1>5, <2>1, TenantTypesNext DEF JudgeByCache
<1>6. ASSUME NEW r \in TenantRequests, LookUp(r) PROVE TenantTypeOK'
  <2>1. [pc |-> "store", status |-> status, begun |-> now] \in Lookups
    BY <1>0 DEF Lookups
  <2>2. req' \in [TenantRequests -> Lookups]
    BY <1>0, <1>6, <2>1 DEF LookUp
  <2> QED
    BY <1>0, <1>6, <2>2, TenantTypesNext DEF LookUp
<1>7. ASSUME NEW r \in TenantRequests, StoreAndJudge(r) PROVE TenantTypeOK'
  <2>1. req[r].status \in TenantStatuses \union {Absent} /\ req[r].begun + Ttl \in Nat
    BY <1>0 DEF Lookups
  <2>2. [status |-> req[r].status, until |-> req[r].begun + Ttl] \in Entries
    BY <2>1 DEF Entries
  <2>3. cache' \in [Instances -> Entries] /\ req' \in [TenantRequests -> Lookups]
    BY <1>0, <1>7, <2>2, TenantConstants DEF StoreAndJudge
  <2> QED
    BY <1>0, <1>7, <2>3, TenantTypesNext DEF StoreAndJudge
<1>8. ASSUME NEW i \in Instances, Evict(i) PROVE TenantTypeOK'
  <2>1. cache' \in [Instances -> Entries]
    BY <1>0, <1>8, TenantConstants DEF Evict
  <2> QED
    BY <1>0, <1>8, <2>1, TenantTypesNext DEF Evict
<1>9. CASE Tick
  BY <1>0, <1>9, TenantTypesNext DEF Tick
<1>10. CASE UNCHANGED tenantVars
  BY <1>0, <1>10, TenantTypesNext
<1> QED
  BY <1>1, <1>2, <1>3, <1>4, <1>5, <1>6, <1>7, <1>8, <1>9, <1>10 DEF TenantNext

(* A status stays one of the four, a change is of one status to another, and *)
(* no entry of the cache, request or operator loses its form.                *)
THEOREM TenantTypesHold == TenantSpec => []TenantTypeOK
<1> QED
  BY TenantTypeInit, TenantTypeStep, PTL DEF TenantSpec

-------------------------------------------------------------------------------
(* Shut out in time *)

\* When each kind of request was shut out.
ShutSince ==
    \A k \in Kinds :
       IF Permits(status, k) THEN since[k] = NotShut ELSE since[k] \in 0 .. now

\* What was remembered, or looked up, before that is not trusted beyond the window.
TrustRunsOut ==
    /\ \A i \in Instances :
          /\ cache[i].until <= now + Ttl
          /\ \A k \in Kinds : since[k] # NotShut /\ Permits(cache[i].status, k) => cache[i].until <= since[k] + Ttl
    /\ \A r \in TenantRequests : req[r].pc = "store" =>
          /\ req[r].begun <= now
          /\ \A k \in Kinds : since[k] # NotShut /\ Permits(req[r].status, k) => req[r].begun <= since[k]

\* Where the change has taken effect at once, nothing remembered or under way lets them in.
ForgottenAtOnce ==
    \A i \in Instances, k \in Kinds : <<i, k>> \in heeded =>
       /\ since[k] # NotShut
       /\ ~Permits(cache[i].status, k)
       /\ \A r \in TenantRequests : Home[r] = i /\ req[r].pc = "store" => ~Permits(req[r].status, k)

WindowInv == TenantTypeOK /\ ShutSince /\ TrustRunsOut /\ ForgottenAtOnce /\ ShutOutInTime

LEMMA AbsentEntersNot == \A k \in Kinds : ~Permits(Absent, k)
BY DEF Permits, Absent, Open

LEMMA WindowInit == TenantInit => WindowInv
<1> SUFFICES ASSUME TenantInit PROVE WindowInv
  OBVIOUS
<1>1. \A k \in Kinds : Permits(status, k) /\ since[k] = NotShut
  BY DEF TenantInit, Permits, Open
<1>2. \A i \in Instances : cache[i].status = Absent /\ cache[i].until = 0
  BY DEF TenantInit, NoEntry
<1>3. \A r \in TenantRequests : req[r].pc = "out"
  BY DEF TenantInit, Out
<1> QED
  BY <1>1, <1>2, <1>3, TenantTypeInit, AbsentEntersNot
     DEF TenantInit, WindowInv, ShutSince, TrustRunsOut, ForgottenAtOnce, ShutOutInTime

LEMMA WindowStep == WindowInv /\ [TenantNext]_tenantVars => WindowInv'
<1> SUFFICES ASSUME WindowInv, [TenantNext]_tenantVars PROVE WindowInv'
  OBVIOUS
<1>0. TenantTypeOK /\ TenantTypeOK' /\ ShutSince /\ TrustRunsOut /\ ForgottenAtOnce /\ ShutOutInTime
  BY TenantTypeStep DEF WindowInv
<1>t. /\ cache \in [Instances -> Entries] /\ op \in [Operators -> Operations] /\ req \in [TenantRequests -> Lookups]
      /\ now \in Nat /\ since \in [Kinds -> Int] /\ since' \in [Kinds -> Int] /\ now' \in Nat
      /\ \A i \in Instances : cache[i].until \in Nat
      /\ \A r \in TenantRequests : req[r].begun \in Nat /\ Home[r] \in Instances
  BY <1>0, TenantTypes, TenantTypes DEF TenantTypeOK, Entries, Lookups
<1> SUFFICES ShutSince' /\ TrustRunsOut' /\ ForgottenAtOnce' /\ ShutOutInTime'
  BY <1>0 DEF WindowInv
<1>1. ASSUME NEW o \in Operators, NEW what \in {"suspend", "cancel", "reactivate"}, BeginChange(o, what)
      PROVE  ShutSince' /\ TrustRunsOut' /\ ForgottenAtOnce' /\ ShutOutInTime'
  BY <1>0, <1>1 DEF BeginChange, ShutSince, TrustRunsOut, ForgottenAtOnce, ShutOutInTime
<1>2. ASSUME NEW o \in Operators, ReadAudit(o)
      PROVE  ShutSince' /\ TrustRunsOut' /\ ForgottenAtOnce' /\ ShutOutInTime'
  BY <1>0, <1>2 DEF ReadAudit, ShutSince, TrustRunsOut, ForgottenAtOnce, ShutOutInTime
<1>3. ASSUME NEW o \in Operators, Commit(o)
      PROVE  ShutSince' /\ TrustRunsOut' /\ ForgottenAtOnce' /\ ShutOutInTime'
  <2> DEFINE to == op[o].to
  <2>1. status' = to /\ UNCHANGED <<cache, req, now, intruded>>
    BY <1>3 DEF Commit
  <2>2. \A k \in Kinds : since'[k] = IF Permits(to, k) THEN NotShut ELSE IF since[k] = NotShut THEN now ELSE since[k]
    BY <1>3 DEF Commit
  <2>3. \A h \in heeded' : h \in heeded /\ ~Permits(to, h[2])
    BY <1>3 DEF Commit
  <2> HIDE DEF to
  <2>4. ShutSince'
    BY <1>0, <1>t, <2>1, <2>2 DEF ShutSince, NotShut
  <2>5. ASSUME NEW k \in Kinds, since'[k] # NotShut PROVE since'[k] = now \/ (since'[k] = since[k] /\ since[k] # NotShut)
    <3>1. CASE Permits(to, k)
      BY <2>2, <2>5, <3>1
    <3>2. CASE ~Permits(to, k)
      BY <2>2, <3>2
    <3> QED
      BY <3>1, <3>2
  <2>6. TrustRunsOut'
    BY <1>0, <1>t, <2>1, <2>5 DEF TrustRunsOut
  <2>7. ForgottenAtOnce'
    <3>1. ASSUME NEW i \in Instances, NEW k \in Kinds, <<i, k>> \in heeded' PROVE <<i, k>> \in heeded /\ since'[k] # NotShut
      <4>1. <<i, k>> \in heeded /\ ~Permits(to, k)
        BY <2>3, <3>1
      <4>2. since[k] # NotShut
        BY <1>0, <4>1 DEF ForgottenAtOnce
      <4> QED
        BY <2>2, <4>1, <4>2
    <3> QED
      BY <1>0, <2>1, <3>1 DEF ForgottenAtOnce
  <2> QED
    BY <1>0, <2>1, <2>4, <2>6, <2>7 DEF ShutOutInTime
<1>4. ASSUME NEW o \in Operators, Forget(o)
      PROVE  ShutSince' /\ TrustRunsOut' /\ ForgottenAtOnce' /\ ShutOutInTime'
  <2>1. UNCHANGED <<status, now, since, req, intruded>>
    BY <1>4 DEF Forget
  <2>2. \A i \in Instances : cache'[i] = IF i = Home[o] THEN NoEntry ELSE cache[i]
    BY <1>4, <1>t DEF Forget, ForgetEntry
  <2>3. NoEntry.status = Absent /\ NoEntry.until = 0
    BY DEF NoEntry
  <2>4. TrustRunsOut'
    BY <1>0, <1>t, <2>1, <2>2, <2>3, AbsentEntersNot DEF TrustRunsOut
  <2>5. ForgottenAtOnce'
    <3> SUFFICES ASSUME NEW i \in Instances, NEW k \in Kinds, <<i, k>> \in heeded'
                 PROVE  /\ since[k] # NotShut
                        /\ ~Permits(cache'[i].status, k)
                        /\ \A r \in TenantRequests : Home[r] = i /\ req[r].pc = "store" => ~Permits(req[r].status, k)
      BY <2>1 DEF ForgottenAtOnce
    <3>1. CASE <<i, k>> \in heeded
      BY <1>0, <2>2, <2>3, <3>1, AbsentEntersNot DEF ForgottenAtOnce
    <3>2. CASE <<i, k>> \notin heeded
      <4>1. /\ ~\E r \in TenantRequests : Home[r] = Home[o] /\ req[r].pc = "store"
            /\ <<i, k>> \in {<<Home[o], j>> : j \in {h \in Kinds : since[h] # NotShut}}
        BY <1>4, <3>2 DEF Forget
      <4>2. i = Home[o] /\ since[k] # NotShut
        BY <4>1
      <4> QED
        BY <2>2, <2>3, <4>1, <4>2, AbsentEntersNot
    <3> QED
      BY <3>1, <3>2
  <2> QED
    BY <1>0, <2>1, <2>4, <2>5 DEF ShutSince, ShutOutInTime
<1>5. ASSUME NEW r \in TenantRequests, NEW kind \in Kinds, JudgeByCache(r, kind)
      PROVE  ShutSince' /\ TrustRunsOut' /\ ForgottenAtOnce' /\ ShutOutInTime'
  <2>1. ~(Admits(cache[Home[r]].status, kind) /\ TooLate(Home[r], kind))
    <3> SUFFICES ASSUME Permits(cache[Home[r]].status, kind), TooLate(Home[r], kind) PROVE FALSE
      BY DEF Admits
    <3>1. since[kind] # NotShut /\ since[kind] \in Nat
      BY <1>0, <1>t DEF TooLate, ShutSince
    <3>2. cache[Home[r]].until > now
      BY <1>5 DEF JudgeByCache, Fresh
    <3>3. cache[Home[r]].until <= since[kind] + Ttl
      BY <1>0, <1>t, <3>1 DEF TrustRunsOut
    <3>4. <<Home[r], kind>> \in heeded
      BY <1>t, <3>1, <3>2, <3>3 DEF TooLate
    <3> QED
      BY <1>0, <1>t, <3>4 DEF ForgottenAtOnce
  <2> QED
    BY <1>0, <1>5, <2>1 DEF JudgeByCache, ShutSince, TrustRunsOut, ForgottenAtOnce, ShutOutInTime
<1>6. ASSUME NEW r \in TenantRequests, LookUp(r)
      PROVE  ShutSince' /\ TrustRunsOut' /\ ForgottenAtOnce' /\ ShutOutInTime'
  <2>1. UNCHANGED <<status, cache, now, since, heeded, intruded>>
    BY <1>6 DEF LookUp
  <2>2. \A q \in TenantRequests : req'[q] = IF q = r THEN [pc |-> "store", status |-> status, begun |-> now] ELSE req[q]
    BY <1>6, <1>t DEF LookUp
  <2>3. \A k \in Kinds : since[k] # NotShut => ~Permits(status, k)
    BY <1>0 DEF ShutSince
  <2>4. TrustRunsOut'
    BY <1>0, <1>t, <2>1, <2>2, <2>3 DEF TrustRunsOut
  <2>5. ForgottenAtOnce'
    BY <1>0, <2>1, <2>2, <2>3 DEF ForgottenAtOnce
  <2> QED
    BY <1>0, <2>1, <2>4, <2>5 DEF ShutSince, ShutOutInTime
<1>7. ASSUME NEW r \in TenantRequests, StoreAndJudge(r)
      PROVE  ShutSince' /\ TrustRunsOut' /\ ForgottenAtOnce' /\ ShutOutInTime'
  <2>1. UNCHANGED <<status, now, since, heeded, intruded>> /\ req[r].pc = "store"
    BY <1>7 DEF StoreAndJudge
  <2>2. \A i \in Instances : IF i = Home[r] THEN cache'[i].status = req[r].status /\ cache'[i].until = req[r].begun + Ttl
                             ELSE cache'[i] = cache[i]
    BY <1>7, <1>t DEF StoreAndJudge
  <2>3. \A q \in TenantRequests : req'[q] = IF q = r THEN Out ELSE req[q]
    BY <1>7, <1>t DEF StoreAndJudge
  <2>4. Out.pc = "out"
    BY DEF Out
  <2>5. TrustRunsOut'
    <3>1. \A q \in TenantRequests : req'[q].pc = "store" => q # r /\ req'[q] = req[q]
      BY <2>3, <2>4
    <3>2. /\ req[r].begun + Ttl <= now + Ttl
          /\ \A k \in Kinds : since[k] # NotShut /\ Permits(req[r].status, k) => req[r].begun + Ttl <= since[k] + Ttl
      BY <1>0, <1>t, <2>1 DEF TrustRunsOut
    <3>3. ASSUME NEW i \in Instances
          PROVE  /\ cache'[i].until <= now + Ttl
                 /\ \A k \in Kinds : since[k] # NotShut /\ Permits(cache'[i].status, k) => cache'[i].until <= since[k] + Ttl
      BY <1>0, <2>2, <3>2 DEF TrustRunsOut
    <3> QED
      BY <1>0, <2>1, <3>1, <3>3 DEF TrustRunsOut
  <2>6. ForgottenAtOnce'
    BY <1>0, <2>1, <2>2, <2>3, <2>4 DEF ForgottenAtOnce
  <2> QED
    BY <1>0, <2>1, <2>5, <2>6 DEF ShutSince, ShutOutInTime
<1>8. ASSUME NEW i \in Instances, Evict(i)
      PROVE  ShutSince' /\ TrustRunsOut' /\ ForgottenAtOnce' /\ ShutOutInTime'
  <2>1. UNCHANGED <<status, now, since, heeded, req, intruded>>
    BY <1>8 DEF Evict
  <2>2. \A j \in Instances : cache'[j] = cache[j] \/ (cache'[j].status = Absent /\ cache'[j].until = 0)
    <3>1. \A j \in Instances : cache'[j] = IF j = i THEN NoEntry ELSE cache[j]
      BY <1>8, <1>t DEF Evict
    <3>2. NoEntry.status = Absent /\ NoEntry.until = 0
      BY DEF NoEntry
    <3> QED
      BY <3>1, <3>2
  <2> QED
    BY <1>0, <1>t, <2>1, <2>2, AbsentEntersNot DEF ShutSince, TrustRunsOut, ForgottenAtOnce, ShutOutInTime
<1>9. CASE Tick
  <2>1. now' = now + 1 /\ UNCHANGED <<status, cache, req, since, heeded, intruded>>
    BY <1>9 DEF Tick
  <2>2. ShutSince'
    BY <1>0, <1>t, <2>1 DEF ShutSince
  <2>3. TrustRunsOut'
    BY <1>0, <1>t, <2>1 DEF TrustRunsOut
  <2> QED
    BY <1>0, <2>1, <2>2, <2>3 DEF ForgottenAtOnce, ShutOutInTime
<1>10. CASE UNCHANGED tenantVars
  BY <1>0, <1>10 DEF ShutSince, TrustRunsOut, ForgottenAtOnce, ShutOutInTime
<1> QED
  BY <1>1, <1>2, <1>3, <1>4, <1>5, <1>6, <1>7, <1>8, <1>9, <1>10 DEF TenantNext

(* Nobody is admitted who came after a suspension or closing had to take     *)
(* effect, by whichever instance and however the answers of look-ups, the    *)
(* forgetting of entries and the operators' changes fall.                    *)
THEOREM ShutOutHolds == TenantSpec => []ShutOutInTime
<1>1. WindowInv => ShutOutInTime
  BY DEF WindowInv
<1> QED
  BY <1>1, WindowInit, WindowStep, PTL DEF TenantSpec

-------------------------------------------------------------------------------
(* Reopened as it was *)

OpenAfter(n) == StatusAfter(n) \in Open

\* The changes tell how the workspace came to its status, as long as operators take turns.
Chained ==
    /\ status = StatusAfter(Len(changes))
    /\ ~operatorsOverlapped => \A n \in DOMAIN changes : changes[n].from = StatusAfter(n - 1)

\* It has been open, and since the last time it has not: so there is a last time.
HasBeenOpen == \E n \in 0 .. Len(changes) : OpenAfter(n) /\ \A m \in 0 .. Len(changes) : OpenAfter(m) => m <= n

\* What an operator has seen is still so; one who reopens has looked at the trail, maybe a while ago.
StillSo(o) ==
    /\ op[o].pc \in {"audit", "commit"} => op[o].was = status
    /\ op[o].pc = "audit" => status \in Closed
    /\ op[o].pc = "commit" /\ status \in Closed /\ op[o].to \in Open =>
          /\ op[o].to = "TRIAL" => StatusBeforeClosing = "TRIAL"
          /\ StatusBeforeClosing = "TRIAL" /\ now < TrialEnd => op[o].to = "TRIAL"

OneOperator ==
    ~operatorsOverlapped => /\ \A o \in Operators : StillSo(o)
                            /\ \A o, p \in Busy : o = p

TrailInv == Chained /\ HasBeenOpen /\ OneOperator

LEMMA TrailTypes ==
    ASSUME TenantTypeOK
    PROVE  /\ Len(changes) \in Nat /\ DOMAIN changes = 1 .. Len(changes)
           /\ \A n \in DOMAIN changes : changes[n].from \in TenantStatuses /\ changes[n].to \in TenantStatuses
           /\ \A n \in 0 .. Len(changes) : StatusAfter(n) \in TenantStatuses
           /\ now \in Nat /\ op \in [Operators -> Operations] /\ operatorsOverlapped \in BOOLEAN
<1>1. changes \in Seq(Changes)
  BY TenantTypes
<1>2. Len(changes) \in Nat /\ DOMAIN changes = 1 .. Len(changes) /\ \A n \in DOMAIN changes : changes[n] \in Changes
  BY <1>1
<1>3. \A n \in DOMAIN changes : changes[n].from \in TenantStatuses /\ changes[n].to \in TenantStatuses
  BY <1>2 DEF Changes
<1>4. \A n \in 0 .. Len(changes) : n # 0 => n \in DOMAIN changes
  BY <1>2
<1> QED
  BY <1>2, <1>3, <1>4, TenantTypes, TenantConstants DEF StatusAfter

LEMMA OpenOrClosed == TenantStatuses = Open \union Closed /\ Open \intersect Closed = {} /\ "TRIAL" \in Open /\ Absent \notin Open
BY DEF TenantStatuses, Open, Closed, Absent

\* The last time it was open is one, and the greatest.
LEMMA LastOpenIs ==
    ASSUME TenantTypeOK, HasBeenOpen
    PROVE  /\ LastOpen \in 0 .. Len(changes) /\ OpenAfter(LastOpen)
           /\ \A m \in 0 .. Len(changes) : OpenAfter(m) => m <= LastOpen
<1> DEFINE times == {n \in 0 .. Len(changes) : StatusAfter(n) \in Open}
<1>1. PICK n \in 0 .. Len(changes) : OpenAfter(n) /\ \A m \in 0 .. Len(changes) : OpenAfter(m) => m <= n
  BY DEF HasBeenOpen
<1>2. n \in times /\ \A m \in times : n >= m
  BY <1>1, TrailTypes DEF OpenAfter
<1>3. Max(times) \in times /\ \A m \in times : Max(times) >= m
  <2> HIDE DEF times
  <2> QED
    BY <1>2 DEF Max
<1>4. LastOpen = Max(times)
  BY DEF LastOpen
<1> QED
  BY <1>3, <1>4, TrailTypes DEF OpenAfter

\* What the console reads back: the status it was last open with, if that is in reach.
LEMMA ReadsBack ==
    ASSUME TenantTypeOK, Chained, HasBeenOpen, ~operatorsOverlapped, status \in Closed
    PROVE  StatusBeforeClosing = IF Len(changes) - LastOpen <= Take THEN StatusAfter(LastOpen) ELSE Absent
<1> DEFINE telling == {i \in DOMAIN changes : i > Len(changes) - Take
                                                /\ {changes[i].from, changes[i].to} \intersect Open # {}}
<1> DEFINE n == LastOpen
<1> DEFINE last == changes[Max(telling)]
<1>1. n \in 0 .. Len(changes) /\ OpenAfter(n) /\ \A m \in 0 .. Len(changes) : OpenAfter(m) => m <= n
  BY LastOpenIs
<1>2. Len(changes) \in Nat /\ DOMAIN changes = 1 .. Len(changes)
  BY TrailTypes
<1>3. n # Len(changes)
  BY <1>1, OpenOrClosed DEF Chained, OpenAfter
<1>4. n + 1 \in DOMAIN changes /\ changes[n + 1].from = StatusAfter(n) /\ changes[n + 1].to \notin Open
  <2>1. n + 1 \in DOMAIN changes /\ n + 1 \in 0 .. Len(changes) /\ n + 1 # 0
    <3> HIDE DEF n
    <3>1. n \in 0 .. Len(changes) /\ n # Len(changes) /\ Len(changes) \in Nat
      BY <1>1, <1>2, <1>3
    <3>2. n \in Int /\ 0 <= n /\ n < Len(changes)
      BY <3>1
    <3> QED
      BY <1>2, <3>2
  <2>2. ~OpenAfter(n + 1)
    BY <1>1, <2>1
  <2>3. StatusAfter(n + 1) = changes[n + 1].to
    BY <2>1 DEF StatusAfter
  <2>4. changes[n + 1].from = StatusAfter((n + 1) - 1) /\ (n + 1) - 1 = n
    BY <1>1, <1>2, <2>1 DEF Chained
  <2> QED
    BY <2>1, <2>2, <2>3, <2>4 DEF OpenAfter
<1>5. ASSUME NEW i \in DOMAIN changes, i > n + 1 PROVE i \notin telling
  <2>1. i \in 0 .. Len(changes) /\ i - 1 \in 0 .. Len(changes) /\ i # 0 /\ i > n /\ i - 1 > n
    BY <1>1, <1>2, <1>5
  <2>2. ~OpenAfter(i) /\ ~OpenAfter(i - 1)
    BY <1>1, <2>1
  <2>3. changes[i].to = StatusAfter(i) /\ changes[i].from = StatusAfter(i - 1)
    BY <2>1 DEF StatusAfter, Chained
  <2> QED
    BY <2>2, <2>3 DEF OpenAfter
<1>6. n + 1 \in telling <=> Len(changes) - n <= Take
  BY <1>1, <1>2, <1>4 DEF OpenAfter
<1>7. StatusBeforeClosing = IF telling = {} THEN Absent ELSE IF last.to \in Open THEN Absent ELSE last.from
  BY DEF StatusBeforeClosing
<1>8. CASE Len(changes) - n <= Take
  <2>1. n + 1 \in telling /\ \A i \in telling : n + 1 >= i
    BY <1>1, <1>2, <1>5, <1>6, <1>8
  <2>2. telling \subseteq Int
    BY <1>2
  <2>3. Max(telling) = n + 1
    <3> HIDE DEF telling
    <3>1. Max(telling) \in telling /\ \A i \in telling : Max(telling) >= i
      BY <2>1 DEF Max
    <3>2. Max(telling) \in Int /\ n + 1 \in Int /\ Max(telling) >= n + 1 /\ n + 1 >= Max(telling)
      BY <2>1, <2>2, <3>1
    <3> QED
      BY <3>2
  <2> HIDE DEF telling
  <2> QED
    BY <1>4, <1>7, <1>8, <2>1, <2>3
<1>9. CASE ~(Len(changes) - n <= Take)
  <2>1. ASSUME NEW i \in telling PROVE FALSE
    <3>1. i \in DOMAIN changes /\ i > Len(changes) - Take
      OBVIOUS
    <3>2. i > n + 1
      BY <1>1, <1>2, <1>9, <3>1
    <3> QED
      BY <1>5, <3>1, <3>2
  <2>2. telling = {}
    BY <2>1
  <2> HIDE DEF telling
  <2> QED
    BY <1>7, <1>9, <2>2
<1> QED
  BY <1>8, <1>9

LEMMA TrailInit == TenantInit => TrailInv
<1> SUFFICES ASSUME TenantInit PROVE TrailInv
  OBVIOUS
<1>1. Len(changes) = 0 /\ DOMAIN changes = {} /\ status = "TRIAL"
  BY DEF TenantInit
<1>2. Chained
  BY <1>1 DEF Chained, StatusAfter
<1>3. HasBeenOpen
  <2>1. OpenAfter(0) /\ 0 \in 0 .. Len(changes) /\ \A m \in 0 .. Len(changes) : m <= 0
    BY <1>1, OpenOrClosed DEF OpenAfter, StatusAfter
  <2> QED
    BY <2>1 DEF HasBeenOpen
<1>4. \A o \in Operators : op[o].pc = "idle"
  BY DEF TenantInit, Resting
<1> QED
  BY <1>2, <1>3, <1>4 DEF TrailInv, OneOperator, StillSo, Busy

\* While the trail is what it was, so is what it tells.
LEMMA TrailUnread ==
    ASSUME UNCHANGED changes
    PROVE  /\ StatusBeforeClosing' = StatusBeforeClosing
           /\ \A n \in 0 .. Len(changes) : StatusAfter(n)' = StatusAfter(n)
BY DEF StatusBeforeClosing, StatusAfter

\* A step that leaves the trail and the operators alone, and at most lets time pass.
LEMMA TrailRests ==
    ASSUME TenantTypeOK, TrailInv, UNCHANGED <<status, changes, op, operatorsOverlapped>>, now' \in Nat, now' >= now
    PROVE  TrailInv'
<1>1. Chained' /\ HasBeenOpen'
  BY DEF TrailInv, Chained, HasBeenOpen, OpenAfter, StatusAfter
<1>2. ASSUME NEW o \in Operators, StillSo(o) PROVE StillSo(o)'
  BY <1>2, TrailUnread, TrailTypes DEF StillSo
<1>3. OneOperator'
  BY <1>2 DEF TrailInv, OneOperator, Busy
<1> QED
  BY <1>1, <1>3 DEF TrailInv

\* A step of one operator, while they take turns, that leaves the trail alone.
LEMMA OneAtWork ==
    ASSUME TrailInv, TenantTypeOK, NEW o \in Operators, NEW record \in Operations,
           op' = [op EXCEPT ![o] = record], UNCHANGED <<status, changes>>,
           ~operatorsOverlapped' => /\ ~operatorsOverlapped /\ Busy \subseteq {o}
                                    /\ StillSo(o)'
    PROVE  TrailInv'
<1>0. op \in [Operators -> Operations]
  BY TrailTypes
<1>1. Chained'
  <2>1. Chained
    BY DEF TrailInv
  <2>2. ~operatorsOverlapped' => ~operatorsOverlapped
    OBVIOUS
  <2> QED
    BY <2>1, <2>2 DEF Chained, StatusAfter
<1>2. HasBeenOpen'
  BY DEF TrailInv, HasBeenOpen, OpenAfter, StatusAfter
<1>3. \A p \in Operators \ {o} : op'[p] = op[p]
  BY <1>0
<1>4. ASSUME ~operatorsOverlapped', NEW p \in Operators, p # o PROVE op'[p].pc = "idle"
  BY <1>3, <1>4 DEF Busy
<1>5. OneOperator'
  <2> SUFFICES ASSUME ~operatorsOverlapped' PROVE (\A p \in Operators : StillSo(p)') /\ (\A p, q \in Busy' : p = q)
    BY DEF OneOperator
  <2>1. \A p \in Busy' : p = o
    BY <1>4 DEF Busy
  <2>2. ASSUME NEW p \in Operators, p # o PROVE StillSo(p)'
    BY <1>4, <2>2 DEF StillSo
  <2> QED
    BY <2>1, <2>2
<1> QED
  BY <1>1, <1>2, <1>5 DEF TrailInv

LEMMA TrailStep == TenantTypeOK /\ TenantTypeOK' /\ TrailInv /\ [TenantNext]_tenantVars => TrailInv'
<1> SUFFICES ASSUME TenantTypeOK, TenantTypeOK', TrailInv, [TenantNext]_tenantVars PROVE TrailInv'
  OBVIOUS
<1>t. /\ Len(changes) \in Nat /\ DOMAIN changes = 1 .. Len(changes) /\ changes \in Seq(Changes)
      /\ now \in Nat /\ now' \in Nat /\ op \in [Operators -> Operations] /\ operatorsOverlapped \in BOOLEAN
      /\ status \in TenantStatuses
  BY TrailTypes, TenantTypes DEF TenantTypeOK
<1>i. Chained /\ HasBeenOpen /\ OneOperator
  BY DEF TrailInv
<1>1. ASSUME NEW o \in Operators, NEW what \in {"suspend", "cancel", "reactivate"}, BeginChange(o, what) PROVE TrailInv'
  <2> DEFINE pc == IF what = "reactivate" /\ status \in Closed THEN "audit" ELSE "commit"
  <2> DEFINE to == CASE what = "suspend" -> "SUSPENDED" [] what = "cancel" -> "CANCELLED" [] what = "reactivate" -> "ACTIVE"
  <2> DEFINE record == [pc |-> pc, was |-> status, to |-> to]
  <2>1. op' = [op EXCEPT ![o] = record] /\ UNCHANGED <<status, changes, now>>
    BY <1>1 DEF BeginChange
  <2>2. record \in Operations /\ pc \in {"audit", "commit"}
    BY <1>t, TenantConstants DEF Operations
  <2>3. ~operatorsOverlapped' => ~operatorsOverlapped /\ Busy = {}
    BY <1>1 DEF BeginChange
  <2>4. op'[o] = record
    BY <1>t, <2>1
  <2>5. pc = "commit" /\ status \in Closed => to \in Closed
    BY DEF Closed
  <2>6. record.pc = pc /\ record.was = status /\ record.to = to
    OBVIOUS
  <2>7. StillSo(o)'
    <3> HIDE DEF pc, to, record
    <3>1. op'[o].pc = pc /\ op'[o].was = status /\ op'[o].to = to
      BY <2>4, <2>6
    <3>2. pc = "audit" => status \in Closed
      BY DEF pc
    <3> QED
      BY <2>1, <2>2, <2>5, <3>1, <3>2, OpenOrClosed DEF StillSo
  <2> HIDE DEF pc, to, record
  <2> QED
    BY <2>1, <2>2, <2>3, <2>7, OneAtWork
<1>2. ASSUME NEW o \in Operators, ReadAudit(o) PROVE TrailInv'
  <2> DEFINE to == IF StatusBeforeClosing = "TRIAL" /\ now < TrialEnd THEN "TRIAL" ELSE "ACTIVE"
  <2> DEFINE record == [pc |-> "commit", was |-> op[o].was, to |-> to]
  <2>1. to \in TenantStatuses /\ to = (IF StatusBeforeClosing = "TRIAL" /\ now < TrialEnd THEN "TRIAL" ELSE "ACTIVE")
    BY TenantConstants
  <2>2. op' = [op EXCEPT ![o] = record]
    <3>1. op' = [op EXCEPT ![o].pc = "commit", ![o].to = to]
      BY <1>2 DEF ReadAudit
    <3> HIDE DEF to
    <3> QED
      BY <1>t, <2>1, <3>1, OperatorMoves
  <2> HIDE DEF to
  <2>3. record \in Operations
    BY <1>t, <2>1 DEF Operations
  <2>4. op'[o].pc = "commit" /\ op'[o].was = op[o].was /\ op'[o].to = to
    BY <1>t, <2>2
  <2>5. /\ UNCHANGED <<status, changes, now, operatorsOverlapped>> /\ op[o].pc = "audit"
    BY <1>2 DEF ReadAudit
  <2>6. ~operatorsOverlapped => Busy \subseteq {o}
    BY <1>i, <2>5 DEF OneOperator, Busy
  <2>7. ASSUME ~operatorsOverlapped PROVE StillSo(o)'
    <3>1. op[o].was = status
      BY <1>i, <2>5, <2>7 DEF OneOperator, StillSo
    <3>2. StatusBeforeClosing' = StatusBeforeClosing
      BY <2>5, TrailUnread
    <3> QED
      BY <2>1, <2>4, <2>5, <3>1, <3>2 DEF StillSo
  <2> HIDE DEF record
  <2> QED
    BY <2>2, <2>3, <2>5, <2>6, <2>7, OneAtWork
<1>3. ASSUME NEW o \in Operators, Commit(o) PROVE TrailInv'
  <2> DEFINE to == op[o].to
  <2> DEFINE change == [from |-> op[o].was, to |-> to]
  <2>n. PICK N \in Nat : N = Len(changes)
    BY <1>t
  <2>1. to \in TenantStatuses /\ op[o].was \in TenantStatuses /\ change \in Changes
    BY <2>n, <1>t DEF Operations, Changes
  <2>2. status' = to /\ changes' = Append(changes, change) /\ UNCHANGED <<now, operatorsOverlapped>> /\ op[o].pc = "commit"
    BY <1>3 DEF Commit
  <2>3. /\ Len(changes') = N + 1 /\ changes'[N + 1] = change
        /\ \A n \in 1 .. N : changes'[n] = changes[n]
    <3>1. changes \in Seq(Changes) /\ change \in Changes /\ changes' = Append(changes, change)
      BY <2>n, <1>t, <2>1, <2>2
    <3> HIDE DEF change
    <3> QED
      BY <2>n, <3>1, AppendProperties
  <2>4. N \in Nat /\ DOMAIN changes' = 1 .. N + 1
    BY <2>n, <1>t, <2>3, TrailTypes DEF TenantTypeOK
  <2>5. change.from = op[o].was /\ change.to = to
    OBVIOUS
  <2> HIDE DEF to, change
  <2>6. \A n \in 0 .. N : StatusAfter(n)' = StatusAfter(n)
    BY <2>n, <2>3, <2>4 DEF StatusAfter
  <2>7. StatusAfter(N + 1)' = to
    <3>1. N + 1 # 0
      BY <2>n, <2>4
    <3> QED
      BY <2>n, <2>3, <2>5, <3>1 DEF StatusAfter
  <2>8. Chained'
    <3>1. status' = StatusAfter(Len(changes))'
      <4>1. StatusAfter(Len(changes))' = StatusAfter(N + 1)'
        BY <2>n, <2>3 DEF StatusAfter
      <4> QED
        BY <2>2, <2>7, <4>1
    <3>2. ASSUME ~operatorsOverlapped', NEW n \in DOMAIN changes' PROVE changes'[n].from = StatusAfter(n - 1)'
      <4>1. CASE n \in 1 .. N
        <5>1. n - 1 \in 0 .. N /\ n \in DOMAIN changes
          BY <2>n, <1>t, <2>4, <4>1
        <5>2. changes[n].from = StatusAfter(n - 1)
          BY <2>n, <1>i, <2>2, <3>2, <5>1 DEF Chained
        <5> QED
          BY <2>n, <2>3, <2>6, <4>1, <5>1, <5>2
      <4>2. CASE n = N + 1
        <5>1. op[o].was = status
          BY <2>n, <1>i, <2>2, <3>2 DEF OneOperator, StillSo
        <5>2. n - 1 = N /\ N \in 0 .. N
          BY <2>n, <2>4, <4>2
        <5>3. StatusAfter(n - 1)' = status
          BY <2>n, <1>i, <2>6, <5>2 DEF Chained
        <5> QED
          BY <2>n, <2>3, <2>5, <4>2, <5>1, <5>3
      <4> QED
        BY <2>n, <2>4, <3>2, <4>1, <4>2
    <3> QED
      BY <3>1, <3>2 DEF Chained
  <2>9. HasBeenOpen'
    <3>1. PICK n \in 0 .. N : OpenAfter(n) /\ \A m \in 0 .. N : OpenAfter(m) => m <= n
      BY <2>n, <1>i DEF HasBeenOpen
    <3>2. /\ \A m \in 0 .. N : OpenAfter(m)' <=> OpenAfter(m)
          /\ OpenAfter(N + 1)' <=> to \in Open
      BY <2>6, <2>7 DEF OpenAfter
    <3>3. \A m : m \in 0 .. N + 1 <=> m \in 0 .. N \/ m = N + 1
      BY <2>n, <2>4
    <3>4. \E k \in 0 .. N + 1 : OpenAfter(k)' /\ \A m \in 0 .. N + 1 : OpenAfter(m)' => m <= k
      <4>1. CASE to \in Open
        <5>1. N + 1 \in 0 .. N + 1 /\ \A m \in 0 .. N + 1 : m <= N + 1
          BY <2>n, <2>4
        <5>2. OpenAfter(N + 1)'
          BY <3>2, <4>1
        <5> QED
          BY <5>1, <5>2
      <4>2. CASE to \notin Open
        BY <3>1, <3>2, <3>3, <4>2
      <4> QED
        BY <4>1, <4>2
    <3> QED
      BY <2>n, <2>3, <3>4 DEF HasBeenOpen
  <2>10. OneOperator'
    <3> SUFFICES ASSUME ~operatorsOverlapped PROVE (\A p \in Operators : StillSo(p)') /\ (\A p, q \in Busy' : p = q)
      BY <2>2 DEF OneOperator
    <3>1. \A p \in Operators : p # o => op'[p] = op[p] /\ op[p].pc = "idle"
      BY <2>n, <1>3, <1>i, <1>t, <2>2 DEF Commit, OneOperator, Busy
    <3>2. op'[o].pc = "forget"
      BY <2>n, <1>3, <1>t DEF Commit, Resting
    <3> QED
      BY <3>1, <3>2 DEF StillSo, Busy
  <2> QED
    BY <2>8, <2>9, <2>10 DEF TrailInv
<1>4. ASSUME NEW o \in Operators, Forget(o) PROVE TrailInv'
  <2>1. /\ op' = [op EXCEPT ![o] = Resting] /\ UNCHANGED <<status, changes, operatorsOverlapped>> /\ op[o].pc = "forget"
    BY <1>4 DEF Forget
  <2>2. op'[o].pc = "idle"
    BY <1>t, <2>1 DEF Resting
  <2>3. StillSo(o)'
    BY <2>2 DEF StillSo
  <2>4. ~operatorsOverlapped => Busy \subseteq {o}
    BY <1>i, <2>1 DEF OneOperator, Busy
  <2> QED
    BY <2>1, <2>3, <2>4, TenantConstants, OneAtWork
<1>5. ASSUME NEW r \in TenantRequests, NEW kind \in Kinds, JudgeByCache(r, kind) PROVE TrailInv'
  BY <1>5, <1>t, TrailRests DEF JudgeByCache
<1>6. ASSUME NEW r \in TenantRequests, LookUp(r) \/ StoreAndJudge(r) PROVE TrailInv'
  BY <1>6, <1>t, TrailRests DEF LookUp, StoreAndJudge
<1>7. ASSUME NEW i \in Instances, Evict(i) PROVE TrailInv'
  BY <1>7, <1>t, TrailRests DEF Evict
<1>8. CASE Tick \/ UNCHANGED tenantVars
  BY <1>8, <1>t, TrailRests DEF Tick
<1> QED
  BY <1>1, <1>2, <1>3, <1>4, <1>5, <1>6, <1>7, <1>8 DEF TenantNext

(* Operators who take turns reopen a workspace as what it was before it was  *)
(* closed, however often it was suspended and closed in between: a trial     *)
(* that still lasts is a trial again, if the console reads back far enough,  *)
(* and nothing else becomes one.                                             *)
THEOREM ReopeningRestores == TenantSpec => ReopenedAsItWas
<1>1. TenantTypeOK /\ TrailInv /\ [TenantNext]_tenantVars =>
          [~operatorsOverlapped /\ status \in Closed /\ status' \in Open =>
              LET before == StatusAfter(LastOpen) IN
              /\ status' = "TRIAL" => before = "TRIAL"
              /\ before = "TRIAL" /\ now < TrialEnd /\ Len(changes) - LastOpen <= Take => status' = "TRIAL"]_tenantVars
  <2> SUFFICES ASSUME TenantTypeOK, TrailInv, [TenantNext]_tenantVars,
                      ~operatorsOverlapped, status \in Closed, status' \in Open
               PROVE  /\ status' = "TRIAL" => StatusAfter(LastOpen) = "TRIAL"
                      /\ StatusAfter(LastOpen) = "TRIAL" /\ now < TrialEnd /\ Len(changes) - LastOpen <= Take =>
                            status' = "TRIAL"
    OBVIOUS
  <2>1. status' # status
    BY OpenOrClosed
  <2>2. PICK o \in Operators : Commit(o)
    BY <2>1 DEF TenantNext, BeginChange, ReadAudit, Forget, JudgeByCache, LookUp, StoreAndJudge, Evict, Tick
  <2>3. op[o].pc = "commit" /\ status' = op[o].to
    BY <2>2 DEF Commit
  <2>4. /\ op[o].to = "TRIAL" => StatusBeforeClosing = "TRIAL"
        /\ StatusBeforeClosing = "TRIAL" /\ now < TrialEnd => op[o].to = "TRIAL"
    BY <2>3 DEF TrailInv, OneOperator, StillSo
  <2>5. StatusBeforeClosing = IF Len(changes) - LastOpen <= Take THEN StatusAfter(LastOpen) ELSE Absent
    BY ReadsBack DEF TrailInv
  <2>6. Absent # "TRIAL"
    BY DEF Absent
  <2> QED
    BY <2>3, <2>4, <2>5, <2>6
<1> QED
  BY <1>1, TenantTypesHold, TrailInit, TrailStep, TenantTypeStep, PTL DEF TenantSpec, ReopenedAsItWas

HIDE TenantStatusAssumption DEF TenantStatusAssumption, tenantVars, shut, requests
===============================================================================
