------------------------------ MODULE TenantStatus ------------------------------
(***************************************************************************)
(* The status of a workspace: the operators who suspend, close and reopen  *)
(* it (changeStatus of admin.service.ts), and the guard that holds every   *)
(* request to it through a cache of 30 seconds in each instance of the API *)
(* (tenant.guard.ts, tenant-access.service.ts).                            *)
(***************************************************************************)
EXTENDS Integers, Sequences, FiniteSetsExt

CONSTANTS
    Instances,      \* of the API
    Operators,      \* requests of the operator console
    TenantRequests, \* requests of the workspace
    Home,           \* the instance that serves each
    Ttl,            \* TENANT_ACCESS_TTL_MS
    TrialEnd,       \* trialEndsAt
    Take,           \* how many changes reactivate reads back
    MaxTime,        \* bound: the clock
    MaxChanges      \* bound: changes of the status

ASSUME TenantStatusAssumption ==
    /\ Home \in [Operators \union TenantRequests -> Instances]
    /\ Ttl \in Nat /\ TrialEnd \in Nat /\ Take \in Nat \ {0}
    /\ MaxTime \in Nat /\ MaxChanges \in Nat

Open == {"TRIAL", "ACTIVE"}
Closed == {"SUSPENDED", "CANCELLED"}
TenantStatuses == Open \union Closed
Kinds == {"read", "write"}
Absent == "ABSENT"                  \* no entry in the cache; no status found
NotShut == -1

VARIABLES
    status,         \* tenants.status
    changes,        \* audit_logs of the console, in the order they were committed
    cache,          \* cache[i]: what instance i remembers, and until when
    op,             \* op[o]: where operator o is, the status it saw and the one it sets
    req,            \* req[r]: where request r is, the status it was told and when it asked
    now,
    since,          \* since[k]: when requests of kind k were shut out, if they are
    heeded,         \* the instances and kinds where that has taken effect at once
    intruded,       \* somebody was admitted too late
    operatorsOverlapped \* two operators have been at work at once

tenantVars == <<status, changes, cache, op, req, now, since, heeded, intruded, operatorsOverlapped>>
shut == <<since, heeded>>
requests == <<req, intruded>>

Resting == [pc |-> "idle", was |-> "TRIAL", to |-> "TRIAL"]
Out == [pc |-> "out", status |-> Absent, begun |-> 0]
NoEntry == [status |-> Absent, until |-> 0]

TenantInit ==
    /\ status = "TRIAL" /\ changes = <<>>
    /\ cache = [i \in Instances |-> NoEntry]
    /\ op = [o \in Operators |-> Resting]
    /\ req = [r \in TenantRequests |-> Out]
    /\ now = 0
    /\ since = [k \in Kinds |-> NotShut]
    /\ heeded = {} /\ intruded = FALSE /\ operatorsOverlapped = FALSE

\* What a status lets in, as long as a trial lasts.
Permits(s, kind) == s \in Open \/ (s = "SUSPENDED" /\ kind = "read")

\* refusalFor: whether a trial is over is read off the clock.
Admits(s, kind) == Permits(s, kind) /\ (s = "TRIAL" /\ TrialEnd <= now => kind = "read")

-------------------------------------------------------------------------------
(* the operator console *)

Busy == {o \in Operators : op[o].pc # "idle"}

\* targetOf; a closed workspace is not suspended, and reopening one takes another look.
BeginChange(o, what) ==
    /\ op[o].pc = "idle"
    /\ Len(changes) + Cardinality(Busy) < MaxChanges
    /\ ~(what = "suspend" /\ status = "CANCELLED")
    /\ op' = [op EXCEPT ![o] =
                  [pc |-> IF what = "reactivate" /\ status \in Closed THEN "audit" ELSE "commit",
                   was |-> status,
                   to |-> CASE what = "suspend" -> "SUSPENDED"
                            [] what = "cancel" -> "CANCELLED"
                            [] what = "reactivate" -> "ACTIVE"]]
    /\ operatorsOverlapped' = (operatorsOverlapped \/ Busy # {})
    /\ UNCHANGED <<status, changes, cache, now, shut, requests>>

\* Only the newest change is looked at.
FromOfTheLastChange ==
    IF changes # <<>> /\ changes[Len(changes)].from \in Open THEN changes[Len(changes)].from ELSE Absent

\* The newest change, among those read back, from or to an open status tells.
StatusBeforeClosing ==
    LET telling == {i \in DOMAIN changes : i > Len(changes) - Take
                                             /\ {changes[i].from, changes[i].to} \intersect Open # {}}
        last == changes[Max(telling)]
    IN  IF telling = {} THEN Absent ELSE IF last.to \in Open THEN Absent ELSE last.from

\* reopenedStatus
ReadAudit(o) ==
    /\ op[o].pc = "audit"
    /\ op' = [op EXCEPT ![o].pc = "commit",
                        ![o].to = IF StatusBeforeClosing = "TRIAL" /\ now < TrialEnd THEN "TRIAL" ELSE "ACTIVE"]
    /\ UNCHANGED <<status, changes, cache, now, shut, requests, operatorsOverlapped>>

\* The status and its audit row, in one transaction.
Commit(o) ==
    /\ op[o].pc = "commit"
    /\ LET to == op[o].to IN
       /\ status' = to
       /\ changes' = Append(changes, [from |-> op[o].was, to |-> to])
       /\ since' = [k \in Kinds |-> IF Permits(to, k) THEN NotShut
                                    ELSE IF since[k] = NotShut THEN now ELSE since[k]]
       /\ heeded' = {h \in heeded : ~Permits(to, h[2])}
    /\ op' = [op EXCEPT ![o] = [Resting EXCEPT !.pc = "forget"]]
    /\ UNCHANGED <<cache, req, now, intruded, operatorsOverlapped>>

\* Left to the window.
ForgetNothing(i) == cache' = cache

ForgetEntry(i) == cache' = [cache EXCEPT ![i] = NoEntry]

\* Back in the instance that made the change. A look-up that is under way there is not told.
Forget(o) ==
    /\ op[o].pc = "forget"
    /\ ForgetEntry(Home[o])
    /\ heeded' = IF \E r \in TenantRequests : Home[r] = Home[o] /\ req[r].pc = "store" THEN heeded
                 ELSE heeded \union {<<Home[o], k>> : k \in {j \in Kinds : since[j] # NotShut}}
    /\ op' = [op EXCEPT ![o] = Resting]
    /\ UNCHANGED <<status, changes, now, since, requests, operatorsOverlapped>>

-------------------------------------------------------------------------------
(* the guard *)

\* "A suspension made on this instance applies at once; one made on another instance
\* applies within this window."
TooLate(i, k) == since[k] # NotShut /\ (now >= since[k] + Ttl \/ <<i, k>> \in heeded)

Fresh(entry) == entry.status # Absent /\ entry.until > now

\* A request comes whose workspace's status is still trusted: it is admitted or refused.
JudgeByCache(r, kind) ==
    LET entry == cache[Home[r]] IN
    /\ req[r].pc = "out" /\ Fresh(entry)
    /\ intruded' = (intruded \/ (Admits(entry.status, kind) /\ TooLate(Home[r], kind)))
    /\ UNCHANGED <<status, changes, cache, op, req, now, shut, operatorsOverlapped>>

\* Or it is looked up; the moment it is trusted from is taken before that.
LookUp(r) ==
    /\ req[r].pc = "out" /\ ~Fresh(cache[Home[r]])
    /\ req' = [req EXCEPT ![r] = [pc |-> "store", status |-> status, begun |-> now]]
    /\ UNCHANGED <<status, changes, cache, op, now, shut, intruded, operatorsOverlapped>>

\* The answer is remembered, whatever has been forgotten meanwhile; it was
\* read after the request came, which it decides on.
StoreAndJudge(r) ==
    /\ req[r].pc = "store"
    /\ cache' = [cache EXCEPT ![Home[r]] = [status |-> req[r].status, until |-> req[r].begun + Ttl]]
    /\ req' = [req EXCEPT ![r] = Out]
    /\ UNCHANGED <<status, changes, op, now, shut, intruded, operatorsOverlapped>>

\* Other workspaces fill the cache.
Evict(i) ==
    /\ cache[i] # NoEntry
    /\ cache' = [cache EXCEPT ![i] = NoEntry]
    /\ UNCHANGED <<status, changes, op, now, shut, requests, operatorsOverlapped>>

Tick ==
    /\ now < MaxTime
    /\ now' = now + 1
    /\ UNCHANGED <<status, changes, cache, op, shut, requests, operatorsOverlapped>>

TenantNext ==
    \/ \E o \in Operators :
          \/ \E what \in {"suspend", "cancel", "reactivate"} : BeginChange(o, what)
          \/ ReadAudit(o) \/ Commit(o) \/ Forget(o)
    \/ \E r \in TenantRequests :
          \/ \E kind \in Kinds : JudgeByCache(r, kind)
          \/ LookUp(r) \/ StoreAndJudge(r)
    \/ \E i \in Instances : Evict(i)
    \/ Tick

TenantSpec == TenantInit /\ [][TenantNext]_tenantVars

-------------------------------------------------------------------------------
(* properties *)

TenantTypeOK ==
    /\ status \in TenantStatuses
    /\ changes \in Seq([from : TenantStatuses, to : TenantStatuses])
    /\ cache \in [Instances -> [status : TenantStatuses \union {Absent}, until : Nat]]
    /\ op \in [Operators -> [pc : {"idle", "audit", "commit", "forget"}, was : TenantStatuses, to : TenantStatuses]]
    /\ req \in [TenantRequests -> [pc : {"out", "store"}, status : TenantStatuses \union {Absent}, begun : Nat]]
    /\ now \in Nat
    /\ since \in [Kinds -> Int]
    /\ heeded \subseteq Instances \X Kinds
    /\ intruded \in BOOLEAN /\ operatorsOverlapped \in BOOLEAN

(* Nobody is admitted who came after a change of status had to take effect:  *)
(* at once in the instance that made it, unless a look-up was under way      *)
(* there, and within the window everywhere.                                  *)
ShutOutInTime == ~intruded

\* The status of the workspace after its first n changes.
StatusAfter(n) == IF n = 0 THEN "TRIAL" ELSE changes[n].to

\* After how many changes it was last open, and what it was then.
LastOpen == Max({n \in 0 .. Len(changes) : StatusAfter(n) \in Open})

(* "goes back to the status it had before it was closed": however often it   *)
(* was suspended and closed, by operators in turn, a trial is a trial again  *)
(* while it lasts, if the console reads back as far as its closing, and      *)
(* nothing else becomes one.                                                 *)
ReopenedAsItWas ==
    [][~operatorsOverlapped /\ status \in Closed /\ status' \in Open =>
          LET before == StatusAfter(LastOpen) IN
          /\ status' = "TRIAL" => before = "TRIAL"
          /\ before = "TRIAL" /\ now < TrialEnd /\ Len(changes) - LastOpen <= Take => status' = "TRIAL"]_tenantVars
===============================================================================
