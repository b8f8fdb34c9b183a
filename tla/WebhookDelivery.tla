---------------------------- MODULE WebhookDelivery ----------------------------
(***************************************************************************)
(* The deliveries of one webhook endpoint: dispatch of an event,           *)
(* a test and a redelivery, attempt of webhook-delivery.service.ts, the    *)
(* retries of the integrations worker, and the erasure of the lead that    *)
(* some of the deliveries describe (LeadsService.remove).                  *)
(*                                                                         *)
(* Each delivery has the request that makes it as an actor of its own; a   *)
(* worker makes pass after pass.  An actor lives in an instance of the     *)
(* API, which dies with all the actors it runs and what it holds in        *)
(* memory.  Time is abstracted: a time to come is passed at some point.    *)
(***************************************************************************)
EXTENDS Integers, FiniteSets

CONSTANTS
    Deliveries,     \* rows, and the requests that create them
    Workers,        \* one IntegrationsWorker per instance
    Instances,
    Home,           \* the instance each actor runs in
    MaxAttempts,    \* MAX_ATTEMPTS
    MaxCrashes,     \* bound: instances that die
    MaxSwitches     \* bound: times the endpoint is paused, resumed or removed

Actors == Deliveries \union Workers

ASSUME DeliveryAssumption ==
    /\ Deliveries \intersect Workers = {}
    /\ Home \in [Actors -> Instances]
    /\ MaxAttempts \in Nat \ {0}
    /\ MaxCrashes \in Nat /\ MaxSwitches \in Nat

VARIABLES
    hook,           \* the endpoint: "active", "paused" or "gone"
    row,            \* webhook_deliveries: status, attempts, nextAttemptAt, whether the lead is in it,
                    \* and, which no column says, whether it was enqueued to be retried
    me,             \* me[a]: where actor a is, and what it has read
    list,           \* list[w]: what worker w found due and has yet to attempt
    erasure,        \* the lead's erasure: how far it is, and the rows it found
    sends,          \* sends[d]: times d was sent, or could not be
    delivered,      \* deliveries that were recorded as SUCCEEDED
    straggled,      \* a request older than the erasure enqueued its delivery after it had looked
    crashes, switches

vars == <<hook, row, me, list, erasure, sends, delivered, straggled, crashes, switches>>

Unsent == {"PENDING", "FAILED"}
Idle(a) == [pc |-> "idle", d |-> a, retry |-> FALSE, attempts |-> 0, lead |-> FALSE, ok |-> FALSE, fresh |-> FALSE]
Nowhere == [status |-> "NONE", attempts |-> 0, next |-> "never", lead |-> FALSE, retry |-> FALSE]

Init ==
    /\ hook = "active"
    /\ row = [d \in Deliveries |-> Nowhere]
    /\ me = [a \in Actors |-> Idle(a)]
    /\ list = [w \in Workers |-> {}]
    /\ erasure = [pc |-> "none", found |-> {}, unsent |-> {}]
    /\ sends = [d \in Deliveries |-> 0]
    /\ delivered = {} /\ straggled = FALSE
    /\ crashes = 0 /\ switches = 0

ghosts == <<delivered, straggled>>
people == <<hook, erasure, crashes, switches>>

At(a, step) == me[a].pc = step
Leave(a) == me' = [me EXCEPT ![a] = Idle(a)]
Stored(d) == row[d].status \notin {"NONE", "GONE"}
Erased == erasure.pc = "done"

-------------------------------------------------------------------------------
(* A request: dispatch of an event, a test, or a redelivery. *)

Begin(d, retry, lead) ==
    /\ At(d, "idle") /\ row[d].status = "NONE"
    /\ me' = [me EXCEPT ![d].pc = "enqueue", ![d].retry = retry, ![d].lead = lead, ![d].fresh = Erased]
    /\ UNCHANGED <<row, list, sends, ghosts, people>>

\* An event is only dispatched to active endpoints; while the lead is there it may be about it.
BeginDispatch(d) == hook = "active" /\ Begin(d, TRUE, ~Erased)

BeginTest(d) == hook # "gone" /\ Begin(d, FALSE, FALSE)

\* The copy takes the payload of the original as it is now.
BeginRedelivery(d, original) == Stored(original) /\ Begin(d, FALSE, row[original].lead)

\* A first attempt whose outcome nobody waits for.
NeverClaimed(retry) == "never"

\* nextAttemptAt of a new delivery: a claim for the worker, should the first attempt be lost.
FirstRetry(retry) == IF retry THEN "later" ELSE "never"

\* A removed endpoint fails the create.
Enqueue(d) ==
    /\ At(d, "enqueue")
    /\ IF hook = "gone"
       THEN Leave(d) /\ UNCHANGED <<row, straggled>>
       ELSE /\ row' = [row EXCEPT ![d] = [status |-> "PENDING", attempts |-> 0,
                                          next |-> FirstRetry(me[d].retry), lead |-> me[d].lead, retry |-> me[d].retry]]
            /\ straggled' = (straggled \/ (erasure.pc # "none" /\ ~me[d].fresh))
            /\ me' = [me EXCEPT ![d].pc = "attempt"]
    /\ UNCHANGED <<list, sends, delivered, people>>

-------------------------------------------------------------------------------
(* attempt *)

\* Whoever asks may attempt it.
NobodyAttempts(a, d) == FALSE

\* inFlight, which every instance has for itself.
InFlight(a, d) ==
    \E b \in Actors : Home[b] = Home[a] /\ me[b].d = d /\ me[b].pc \in {"send", "park", "record"}

\* A delivery that succeeded meanwhile is attempted again.
OnlyExhausted == {"EXHAUSTED"}

Finished == {"SUCCEEDED", "EXHAUSTED"}

\* An attempt is over: a worker goes on with its list.
GoOn(a) ==
    me' = [me EXCEPT ![a] = IF a \in Workers THEN [Idle(a) EXCEPT !.pc = "pass", !.fresh = me[a].fresh] ELSE Idle(a)]

\* a attempts d: nothing to do, an endpoint that is paused, or a request to send.
Attempt(a, d, retry) ==
    IF InFlight(a, d) \/ ~Stored(d) \/ row[d].status \in Finished
    THEN GoOn(a)
    ELSE me' = [me EXCEPT ![a].pc = IF hook = "active" THEN "send" ELSE "park",
                          ![a].d = d, ![a].retry = retry,
                          ![a].attempts = row[d].attempts, ![a].lead = row[d].lead]

FirstAttempt(d) ==
    /\ At(d, "attempt")
    /\ Attempt(d, d, me[d].retry)
    /\ UNCHANGED <<row, list, sends, ghosts, people>>

\* The endpoint accepts or refuses, or is not reached: no secret, no address, no answer.
Send(a) ==
    /\ At(a, "send")
    /\ sends' = [sends EXCEPT ![me[a].d] = @ + 1]
    /\ \E ok \in BOOLEAN : me' = [me EXCEPT ![a].pc = "record", ![a].ok = ok]
    /\ UNCHANGED <<row, list, ghosts, people>>

\* The outcome of an attempt, written over whatever the row says now.
Outcome(a) ==
    LET attempts == me[a].attempts + 1
        exhausted == ~me[a].retry \/ attempts >= MaxAttempts IN
    [status |-> IF me[a].ok THEN "SUCCEEDED" ELSE IF exhausted THEN "EXHAUSTED" ELSE "FAILED",
     attempts |-> attempts,
     next |-> IF me[a].ok \/ exhausted THEN "never" ELSE "later",
     lead |-> row[me[a].d].lead, retry |-> row[me[a].d].retry]

\* An update of a row that is gone throws, and a worker's pass ends there.
Throw(a) ==
    /\ Leave(a)
    /\ list' = IF a \in Workers THEN [list EXCEPT ![a] = {}] ELSE list
    /\ UNCHANGED <<row, sends, ghosts, people>>

Record(a) ==
    /\ At(a, "record")
    /\ IF ~Stored(me[a].d) THEN Throw(a)
       ELSE /\ row' = [row EXCEPT ![me[a].d] = Outcome(a)]
            /\ delivered' = IF me[a].ok THEN delivered \union {me[a].d} ELSE delivered
            /\ GoOn(a)
            /\ UNCHANGED <<list, sends, straggled, people>>

\* FAILED with no next attempt, whatever the row says now.
Park(a) ==
    /\ At(a, "park")
    /\ IF ~Stored(me[a].d) THEN Throw(a)
       ELSE /\ row' = [row EXCEPT ![me[a].d].status = "FAILED", ![me[a].d].next = "never"]
            /\ GoOn(a)
            /\ UNCHANGED <<list, sends, ghosts, people>>

-------------------------------------------------------------------------------
(* The worker's passes. *)

Due == {d \in Deliveries : row[d].status \in Unsent /\ row[d].next = "now"}

BeginPass(w) ==
    /\ At(w, "idle")
    /\ Due # {}
    /\ list' = [list EXCEPT ![w] = Due]
    /\ me' = [me EXCEPT ![w].pc = "pass", ![w].fresh = Erased]
    /\ UNCHANGED <<row, sends, ghosts, people>>

\* From the list: the row may have got another time, or another status, since.
Retry(w, d) ==
    /\ At(w, "pass")
    /\ d \in list[w]
    /\ list' = [list EXCEPT ![w] = @ \ {d}]
    /\ Attempt(w, d, TRUE)
    /\ UNCHANGED <<row, sends, ghosts, people>>

EndPass(w) ==
    /\ At(w, "pass") /\ list[w] = {}
    /\ Leave(w)
    /\ UNCHANGED <<row, list, sends, ghosts, people>>

\* The time of the next attempt passes.
ComeDue(d) ==
    /\ row[d].next = "later"
    /\ row' = [row EXCEPT ![d].next = "now"]
    /\ UNCHANGED <<me, list, sends, ghosts, people>>

-------------------------------------------------------------------------------
(* What people do to the endpoint and the lead, and crashes. *)

Switch ==
    /\ hook # "gone" /\ switches < MaxSwitches
    /\ switches' = switches + 1
    /\ hook' = IF hook = "active" THEN "paused" ELSE "active"
    /\ UNCHANGED <<row, me, list, erasure, sends, ghosts, crashes>>

\* The endpoint goes, and its deliveries with it.
RemoveHook ==
    /\ hook # "gone" /\ switches < MaxSwitches
    /\ switches' = switches + 1
    /\ hook' = "gone"
    /\ row' = [d \in Deliveries |-> IF Stored(d) THEN [Nowhere EXCEPT !.status = "GONE"] ELSE row[d]]
    /\ UNCHANGED <<me, list, erasure, sends, ghosts, crashes>>

\* The erasure looks for deliveries with the lead in them ...
FindDeliveries ==
    /\ erasure.pc = "none"
    /\ LET found == {d \in Deliveries : Stored(d) /\ row[d].lead} IN
       erasure' = [pc |-> "found", found |-> found, unsent |-> {d \in found : row[d].status \in Unsent}]
    /\ UNCHANGED <<hook, row, me, list, sends, ghosts, crashes, switches>>

\* Only what has yet to be sent is redacted.
OnlyUnsent == erasure.unsent

Redacted == erasure.found

\* ... redacts them, gives up on those it saw unsent, and commits.
EraseLead ==
    /\ erasure.pc = "found"
    /\ erasure' = [pc |-> "done", found |-> {}, unsent |-> {}]
    /\ row' = [d \in Deliveries |->
                 CASE ~Stored(d) -> row[d]
                   [] Stored(d) /\ d \in erasure.unsent ->
                        [row[d] EXCEPT !.lead = FALSE, !.status = "EXHAUSTED", !.next = "never"]
                   [] Stored(d) /\ d \in Redacted \ erasure.unsent -> [row[d] EXCEPT !.lead = FALSE]
                   [] OTHER -> row[d]]
    /\ UNCHANGED <<hook, me, list, sends, ghosts, crashes, switches>>

\* An instance dies, with what it had in memory.
Crash(i) ==
    /\ crashes < MaxCrashes
    /\ \E a \in Actors : Home[a] = i /\ ~At(a, "idle")
    /\ crashes' = crashes + 1
    /\ me' = [a \in Actors |-> IF Home[a] = i THEN Idle(a) ELSE me[a]]
    /\ list' = [w \in Workers |-> IF Home[w] = i THEN {} ELSE list[w]]
    /\ UNCHANGED <<hook, row, erasure, sends, ghosts, switches>>

-------------------------------------------------------------------------------
AttemptStep(a) == Send(a) \/ Record(a) \/ Park(a)

RequestStep(d) == Enqueue(d) \/ FirstAttempt(d) \/ AttemptStep(d)

WorkerStep(w) == BeginPass(w) \/ (\E d \in Deliveries : Retry(w, d)) \/ EndPass(w) \/ AttemptStep(w)

Next ==
    \/ \E d \in Deliveries :
          \/ BeginDispatch(d) \/ BeginTest(d)
          \/ \E original \in Deliveries : BeginRedelivery(d, original)
          \/ RequestStep(d) \/ ComeDue(d)
    \/ \E w \in Workers : WorkerStep(w)
    \/ Switch \/ RemoveHook \/ FindDeliveries \/ EraseLead
    \/ \E i \in Instances : Crash(i)

Spec == Init /\ [][Next]_vars

(* The worker passes every half minute, or whenever a scheduler calls it; a  *)
(* request that was begun goes on; time passes.                              *)
FairSpec ==
    /\ Spec
    /\ \A d \in Deliveries : WF_vars(RequestStep(d)) /\ WF_vars(ComeDue(d))
    /\ \A w \in Workers : WF_vars(WorkerStep(w))

-------------------------------------------------------------------------------
Statuses == {"NONE", "PENDING", "SUCCEEDED", "FAILED", "EXHAUSTED", "GONE"}
Steps == {"idle", "enqueue", "attempt", "send", "record", "park", "pass"}

ActorStates == [pc : Steps, d : Actors, retry : BOOLEAN, attempts : Nat, lead : BOOLEAN, ok : BOOLEAN, fresh : BOOLEAN]
Rows == [status : Statuses, attempts : Nat, next : {"never", "later", "now"}, lead : BOOLEAN, retry : BOOLEAN]

\* The values each variable takes.
TypeOK ==
    /\ hook \in {"active", "paused", "gone"}
    /\ row \in [Deliveries -> Rows]
    /\ me \in [Actors -> ActorStates]
    /\ \A a \in Actors : me[a].pc \in {"send", "record", "park"} => me[a].d \in Deliveries
    /\ list \in [Workers -> SUBSET Deliveries]
    /\ erasure \in [pc : {"none", "found", "done"}, found : SUBSET Deliveries, unsent : SUBSET Deliveries]
    /\ sends \in [Deliveries -> Nat]
    /\ delivered \subseteq Deliveries /\ straggled \in BOOLEAN
    /\ crashes \in Nat /\ switches \in Nat

OneInstance == \A a, b \in Actors : Home[a] = Home[b]

\* Somebody has yet to record an attempt at d.
Unrecorded(d) == \E a \in Actors : At(a, "record") /\ me[a].d = d

(* In one instance an endpoint is sent a delivery no more often than the row *)
(* counts, but for the attempt under way and those that died unrecorded:     *)
(* "so the worker and a live dispatch never double-send", and at most        *)
(* MAX_ATTEMPTS are made in all.                                             *)
SendsAreCounted ==
    OneInstance =>
        \A d \in Deliveries : Stored(d) =>
            /\ sends[d] <= row[d].attempts + crashes + (IF Unrecorded(d) THEN 1 ELSE 0)
            /\ sends[d] <= MaxAttempts + crashes

(* In one instance a delivery that was recorded as accepted is not sent      *)
(* again, whichever list it is still on, and is given no further attempt.    *)
DeliveredIsNotSentAgain ==
    [][OneInstance => \A d \in delivered : sends'[d] = sends[d] /\ row'[d].status \notin Unsent]_vars

(* Once the lead is erased, nothing begun after it sends the lead's data     *)
(* out, not even a redelivery of what was sent before, unless a request      *)
(* older than the erasure has enqueued it behind its back.                   *)
ErasedIsNotSent ==
    ~straggled => \A a \in Actors : At(a, "send") /\ me[a].fresh => ~me[a].lead

Settled(d) == row[d].status # "PENDING" /\ row[d].next = "never"

(* A delivery that was to be retried is delivered, given up on, parked by a  *)
(* paused endpoint or gone with it in the end, also when the process dies    *)
(* during its first attempt.                                                 *)
DeliverySettles ==
    OneInstance => \A d \in Deliveries : row[d].retry ~> Settled(d)
===============================================================================
