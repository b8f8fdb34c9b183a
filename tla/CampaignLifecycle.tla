--------------------------- MODULE CampaignLifecycle ---------------------------
(***************************************************************************)
(* One AI calling campaign from its creation on: transition, update,       *)
(* addLeads, removeLead and remove of campaigns.service.ts, and the calls  *)
(* a dialer places for it.                                                 *)
(*                                                                         *)
(* A request reads the row, judges what it read, and writes in a later     *)
(* statement; none of it runs in a transaction.                            *)
(***************************************************************************)
EXTENDS Integers, FiniteSets

CONSTANTS
    Managers,       \* requests that may be in the service at the same time
    Leads,
    Agent,          \* an AI agent of the workspace
    Null,           \* a column that is NULL
    Keep,           \* a field a PATCH leaves out
    Patches,        \* the PATCHes asked for
    MaxCalls        \* bound: calls placed

ASSUME CampaignAssumption ==
    /\ Null \notin Nat /\ Keep \notin Nat \union {Null, Agent} /\ Agent # Null
    /\ MaxCalls \in Nat
    /\ Patches \subseteq [start : Nat \union {Null, Keep}, end : Nat \union {Null, Keep},
                          agent : {Agent, Null, Keep}, script : {"written", "empty", Keep}]

VARIABLES
    campaign,       \* its row
    members,        \* the leads in it
    dnc,            \* the leads flagged do-not-call
    calls,          \* calls that point at the campaign
    orphans,        \* calls placed for it that point at no campaign
    dialling,       \* the dialer is past the gate
    managersOverlapped, \* a request was begun while another one was under way
    manager         \* manager[m]: where request m is, and what it has read

campaignVars == <<campaign, members, dnc, calls, orphans, dialling, managersOverlapped, manager>>
world == <<dnc, calls, orphans, dialling>>

Statuses == {"DRAFT", "ACTIVE", "PAUSED", "COMPLETED", "ARCHIVED"}

NoRequest == [pc |-> "idle"]

\* create: always a DRAFT, here with the agent's script and the workspace's hours.
CampaignInit ==
    /\ campaign = [exists |-> TRUE, status |-> "DRAFT", agent |-> Agent, script |-> "written",
                   start |-> Null, end |-> Null]
    /\ members = {}
    /\ dnc = {}
    /\ calls = 0 /\ orphans = 0
    /\ dialling = FALSE
    /\ managersOverlapped = FALSE
    /\ manager = [m \in Managers |-> NoRequest]

ManagerAt(m, step) == manager[m].pc = step
Overlaps(m) == managersOverlapped' = (managersOverlapped \/ \E n \in Managers \ {m} : ~ManagerAt(n, "idle"))
Begins(m, record) == manager' = [manager EXCEPT ![m] = record] /\ Overlaps(m)
Becomes(m, record) == manager' = [manager EXCEPT ![m] = record] /\ UNCHANGED managersOverlapped

-------------------------------------------------------------------------------
(* transition *)

\* A table in which an archived campaign can be revived.
AllowedTransitionsRevived(status) == IF status = "ARCHIVED" THEN {"ACTIVE"} ELSE Statuses \ {status, "DRAFT"}

AllowedTransitions(status) ==
    CASE status = "DRAFT" -> {"ACTIVE", "ARCHIVED"}
      [] status = "ACTIVE" -> {"PAUSED", "COMPLETED", "ARCHIVED"}
      [] status = "PAUSED" -> {"ACTIVE", "COMPLETED", "ARCHIVED"}
      [] status = "COMPLETED" -> {"ARCHIVED"}
      [] status = "ARCHIVED" -> {}

\* Reads the row and refuses; activation goes on to count the leads.
BeginTransition(m, next) ==
    /\ ManagerAt(m, "idle")
    /\ campaign.exists
    /\ next \in AllowedTransitions(campaign.status)
    /\ next = "ACTIVE" => campaign.agent # Null /\ campaign.script = "written"
    /\ Begins(m, [pc |-> IF next = "ACTIVE" THEN "count" ELSE "status", next |-> next])
    /\ UNCHANGED <<campaign, members, world>>

EnoughLeads == members # {}

CountLeads(m) ==
    /\ ManagerAt(m, "count")
    /\ Becomes(m, IF EnoughLeads THEN [manager[m] EXCEPT !.pc = "status"] ELSE NoRequest)
    /\ UNCHANGED <<campaign, members, world>>

WriteStatus(m) ==
    /\ ManagerAt(m, "status")
    /\ campaign' = IF campaign.exists THEN [campaign EXCEPT !.status = manager[m].next] ELSE campaign
    /\ Becomes(m, NoRequest)
    /\ UNCHANGED <<members, world>>

-------------------------------------------------------------------------------
(* update *)

Over(field, saved) == IF field = Keep THEN saved ELSE field

\* A window that may end the minute it starts.
WindowInOrderOrEmpty(start, end) == (start = Null <=> end = Null) /\ (start # Null => start <= end)

\* assertSchedule: both ends or neither, and the end after the start.
WindowInOrder(start, end) == (start = Null <=> end = Null) /\ (start # Null => start < end)

\* The agent's script is copied in when the campaign would be left with an agent and none.
ScriptToStore(patch) ==
    IF Over(patch.agent, campaign.agent) # Null /\ Over(patch.script, campaign.script) = "empty"
    THEN "written" ELSE patch.script

BeginCampaignUpdate(m, patch) ==
    /\ ManagerAt(m, "idle")
    /\ campaign.exists
    /\ WindowInOrder(Over(patch.start, campaign.start), Over(patch.end, campaign.end))
    /\ Begins(m, [pc |-> "update", patch |-> [patch EXCEPT !.script = ScriptToStore(patch)]])
    /\ UNCHANGED <<campaign, members, world>>

\* Only the fields the request carries.
WriteUpdate(m) ==
    /\ ManagerAt(m, "update")
    /\ LET patch == manager[m].patch IN
       campaign' = IF ~campaign.exists THEN campaign
                   ELSE [campaign EXCEPT !.start = Over(patch.start, @), !.end = Over(patch.end, @),
                                         !.agent = Over(patch.agent, @), !.script = Over(patch.script, @)]
    /\ Becomes(m, NoRequest)
    /\ UNCHANGED <<members, world>>

-------------------------------------------------------------------------------
(* addLeads, removeLead, remove *)

BeginAdd(m, leads) ==
    /\ ManagerAt(m, "idle")
    /\ campaign.exists
    /\ campaign.status \notin {"ARCHIVED", "COMPLETED"}
    /\ Begins(m, [pc |-> "eligible", leads |-> leads])
    /\ UNCHANGED <<campaign, members, world>>

ReadEligible(m) ==
    /\ ManagerAt(m, "eligible")
    /\ Becomes(m, [pc |-> "add", leads |-> manager[m].leads \ dnc])
    /\ UNCHANGED <<campaign, members, world>>

\* createMany with skipDuplicates; it fails whole if the campaign is gone.
AddLeads(m) ==
    /\ ManagerAt(m, "add")
    /\ members' = IF campaign.exists THEN members \union manager[m].leads ELSE members
    /\ Becomes(m, NoRequest)
    /\ UNCHANGED <<campaign, world>>

RemoveLead(m, l) ==
    /\ ManagerAt(m, "idle")
    /\ l \in members
    /\ members' = members \ {l}
    /\ Overlaps(m)
    /\ UNCHANGED <<campaign, manager, world>>

\* Counts the calls; a campaign with history is refused.
BeginRemove(m) ==
    /\ ManagerAt(m, "idle")
    /\ campaign.exists
    /\ calls = 0
    /\ Begins(m, [pc |-> "delete"])
    /\ UNCHANGED <<campaign, members, world>>

\* Its leads' rows cascade, its calls' campaign becomes NULL.
DeleteCampaign(m) ==
    /\ ManagerAt(m, "delete")
    /\ campaign' = [campaign EXCEPT !.exists = FALSE]
    /\ members' = {}
    /\ orphans' = orphans + calls
    /\ calls' = 0
    /\ Becomes(m, NoRequest)
    /\ UNCHANGED <<dnc, dialling>>

-------------------------------------------------------------------------------
(* The dialer, and the leads *)

\* A gate that does not look at the campaign.
StatusMayBeDialledAlways == TRUE

StatusMayBeDialled == campaign.status = "ACTIVE"

\* The gate, for one of the campaign's leads.
PassGate ==
    /\ ~dialling
    /\ campaign.exists
    /\ StatusMayBeDialled
    /\ \E l \in members : l \notin dnc
    /\ calls + orphans < MaxCalls
    /\ dialling' = TRUE
    /\ UNCHANGED <<campaign, members, dnc, calls, orphans, managersOverlapped, manager>>

\* The call's row, if the campaign has not gone: then there is none, or one without a campaign.
CreateCall ==
    /\ dialling
    /\ dialling' = FALSE
    /\ \/ campaign.exists /\ calls' = calls + 1 /\ UNCHANGED orphans
       \/ ~campaign.exists /\ orphans' \in {orphans, orphans + 1} /\ UNCHANGED calls
    /\ UNCHANGED <<campaign, members, dnc, managersOverlapped, manager>>

FlagDoNotCall(l) ==
    /\ l \notin dnc
    /\ dnc' = dnc \union {l}
    /\ UNCHANGED <<campaign, members, calls, orphans, dialling, managersOverlapped, manager>>

ManagerStep(m) ==
    \/ \E next \in Statuses : BeginTransition(m, next)
    \/ \E patch \in Patches : BeginCampaignUpdate(m, patch)
    \/ \E leads \in SUBSET Leads \ {{}} : BeginAdd(m, leads)
    \/ \E l \in Leads : RemoveLead(m, l)
    \/ CountLeads(m) \/ WriteStatus(m) \/ WriteUpdate(m) \/ ReadEligible(m) \/ AddLeads(m)
    \/ BeginRemove(m) \/ DeleteCampaign(m)

CampaignNext ==
    \/ \E m \in Managers : ManagerStep(m)
    \/ \E l \in Leads : FlagDoNotCall(l)
    \/ PassGate \/ CreateCall

CampaignSpec == CampaignInit /\ [][CampaignNext]_campaignVars

-------------------------------------------------------------------------------
Minutes == Nat \union {Null}
Rows == [exists : BOOLEAN, status : Statuses, agent : {Agent, Null}, script : {"written", "empty"},
         start : Minutes, end : Minutes]

PatchRows == [start : Minutes \union {Keep}, end : Minutes \union {Keep},
              agent : {Agent, Null, Keep}, script : {"written", "empty", Keep}]

CampaignRequests ==
    {NoRequest} \union [pc : {"count", "status"}, next : Statuses \ {"DRAFT"}]
           \union [pc : {"update"}, patch : PatchRows]
           \union [pc : {"eligible", "add"}, leads : SUBSET Leads]
           \union [pc : {"delete"}]

\* The values each variable takes; a request never carries a status DRAFT.
CampaignTypeOK ==
    /\ campaign \in Rows
    /\ members \subseteq Leads /\ dnc \subseteq Leads
    /\ dialling \in BOOLEAN /\ managersOverlapped \in BOOLEAN
    /\ calls \in Nat /\ orphans \in Nat
    /\ manager \in [Managers -> CampaignRequests]

(* "ARCHIVED is terminal: a campaign that has been archived stays archived", *)
(* by any sequence of requests that follow one another.                      *)
ArchivedIsFinal ==
    [][campaign.status = "ARCHIVED" /\ ~managersOverlapped' => campaign'.status = "ARCHIVED"]_campaignVars

(* The stored window has both ends or neither, and ends after it starts: one *)
(* that does not would silently never fire.                                  *)
WindowIsOrdered ==
    /\ campaign.start = Null <=> campaign.end = Null
    /\ campaign.start # Null => campaign.start < campaign.end

(* PATCHes that follow one another keep it so, each end moved alone or not.  *)
WindowStaysOrdered == ~managersOverlapped => WindowIsOrdered

(* "The moment a campaign becomes able to spend money and ring strangers":   *)
(* it then has an agent to speak, a script to speak from and at least one    *)
(* lead to call, unless another request took them away meanwhile.            *)
ActivationChecked ==
    [][campaign.status # "ACTIVE" /\ campaign'.status = "ACTIVE" /\ ~managersOverlapped'
          => campaign.agent # Null /\ campaign.script = "written" /\ members # {}]_campaignVars

(* A call is only ever placed for a campaign that somebody has activated.    *)
NoCallFromADraft == calls + orphans > 0 => campaign.status # "DRAFT"
===============================================================================
