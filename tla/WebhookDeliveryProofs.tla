------------------------- MODULE WebhookDeliveryProofs -------------------------
(***************************************************************************)
(* What holds of WebhookDelivery for any deliveries, workers and instances. *)
(***************************************************************************)
EXTENDS WebhookDelivery, TLAPS

USE DeliveryAssumption DEF DeliveryAssumption

-------------------------------------------------------------------------------
(* Types *)

UnderWay == {"send", "record", "park"}
Targets(states) == \A a \in Actors : states[a].pc \in UnderWay => states[a].d \in Deliveries
Erasures == [pc : {"none", "found", "done"}, found : SUBSET Deliveries, unsent : SUBSET Deliveries]

LEMMA TypeParts ==
    TypeOK <=> /\ hook \in {"active", "paused", "gone"} /\ row \in [Deliveries -> Rows] /\ me \in [Actors -> ActorStates]
               /\ Targets(me) /\ list \in [Workers -> SUBSET Deliveries] /\ erasure \in Erasures
               /\ sends \in [Deliveries -> Nat] /\ delivered \subseteq Deliveries /\ straggled \in BOOLEAN
               /\ crashes \in Nat /\ switches \in Nat
BY DEF TypeOK, Targets, UnderWay, Erasures

LEMMA TypePartsNext ==
    ASSUME hook' \in {"active", "paused", "gone"}, row' \in [Deliveries -> Rows], me' \in [Actors -> ActorStates],
           Targets(me'), list' \in [Workers -> SUBSET Deliveries], erasure' \in Erasures,
           sends' \in [Deliveries -> Nat], delivered' \subseteq Deliveries, straggled' \in BOOLEAN,
           crashes' \in Nat, switches' \in Nat
    PROVE  TypeOK'
BY DEF TypeOK, Targets, UnderWay, Erasures

LEMMA IdleTypes ==
    ASSUME NEW a \in Actors
    PROVE  /\ Idle(a) \in ActorStates /\ Idle(a).pc = "idle" /\ Idle(a).d = a /\ Idle(a).lead = FALSE /\ Idle(a).fresh = FALSE
BY DEF Idle, ActorStates, Steps

LEMMA TypeInit == Init => TypeOK
<1> SUFFICES ASSUME Init PROVE TypeOK
  OBVIOUS
<1>1. Nowhere \in Rows
  BY DEF Nowhere, Rows, Statuses
<1>2. me \in [Actors -> ActorStates] /\ Targets(me)
  BY IdleTypes DEF Init, Targets, UnderWay
<1>3. erasure \in Erasures
  BY DEF Init, Erasures
<1> QED
  BY <1>1, <1>2, <1>3, TypeParts DEF Init

\* An actor goes from step to step.
LEMMA Moves ==
    ASSUME TypeOK, NEW a \in Actors, NEW state \in ActorStates, state.pc \in UnderWay => state.d \in Deliveries,
           me' = [me EXCEPT ![a] = state]
    PROVE  /\ me' \in [Actors -> ActorStates] /\ Targets(me')
           /\ me'[a] = state /\ \A b \in Actors \ {a} : me'[b] = me[b]
<1>1. me \in [Actors -> ActorStates] /\ Targets(me)
  BY TypeParts
<1>2. me' \in [Actors -> ActorStates] /\ me'[a] = state /\ \A b \in Actors \ {a} : me'[b] = me[b]
  BY <1>1
<1> QED
  BY <1>1, <1>2 DEF Targets

LEMMA LeaveMoves ==
    ASSUME TypeOK, NEW a \in Actors, Leave(a)
    PROVE  /\ me' \in [Actors -> ActorStates] /\ Targets(me')
           /\ me'[a] = Idle(a) /\ \A b \in Actors \ {a} : me'[b] = me[b]
BY IdleTypes, Moves DEF Leave, UnderWay

\* Where an actor is after an attempt.
Onward(a) == IF a \in Workers THEN [Idle(a) EXCEPT !.pc = "pass", !.fresh = me[a].fresh] ELSE Idle(a)

LEMMA OnwardTypes ==
    ASSUME TypeOK, NEW a \in Actors
    PROVE  /\ Onward(a) \in ActorStates /\ Onward(a).pc \in {"idle", "pass"} /\ Onward(a).lead = FALSE
           /\ Onward(a).fresh => me[a].fresh
<1>1. me[a] \in ActorStates /\ me[a].fresh \in BOOLEAN
  BY TypeParts DEF ActorStates
<1>2. CASE a \in Workers
  <2> DEFINE pass == [Idle(a) EXCEPT !.pc = "pass", !.fresh = me[a].fresh]
  <2>1. pass \in ActorStates
    <3>1. Idle(a) \in ActorStates /\ "pass" \in Steps
      BY IdleTypes DEF Steps
    <3> QED
      BY <1>1, <3>1 DEF ActorStates
  <2>2. pass.pc = "pass" /\ pass.lead = FALSE /\ pass.fresh = me[a].fresh
    BY DEF Idle
  <2>3. Onward(a) = pass
    BY <1>2 DEF Onward
  <2> HIDE DEF pass
  <2> QED
    BY <2>1, <2>2, <2>3
<1>3. CASE a \notin Workers
  BY <1>3, IdleTypes DEF Onward
<1> QED
  BY <1>2, <1>3

LEMMA GoOnMoves ==
    ASSUME TypeOK, NEW a \in Actors, GoOn(a)
    PROVE  /\ me' \in [Actors -> ActorStates] /\ Targets(me')
           /\ me'[a] = Onward(a) /\ \A b \in Actors \ {a} : me'[b] = me[b]
<1>1. me' = [me EXCEPT ![a] = Onward(a)]
  BY DEF GoOn, Onward
<1> QED
  BY <1>1, OnwardTypes, Moves DEF UnderWay

\* An attempt that is made.
Attempting(a, d, retry) ==
    [me[a] EXCEPT !.pc = IF hook = "active" THEN "send" ELSE "park", !.d = d, !.retry = retry,
                  !.attempts = row[d].attempts, !.lead = row[d].lead]

LEMMA AttemptingTypes ==
    ASSUME TypeOK, NEW a \in Actors, NEW d \in Deliveries, NEW retry \in BOOLEAN
    PROVE  /\ Attempting(a, d, retry) \in ActorStates
           /\ Attempting(a, d, retry).pc \in {"send", "park"}
           /\ Attempting(a, d, retry).d = d
           /\ Attempting(a, d, retry).attempts = row[d].attempts
           /\ Attempting(a, d, retry).lead = row[d].lead
           /\ Attempting(a, d, retry).fresh = me[a].fresh
<1> DEFINE first == IF hook = "active" THEN "send" ELSE "park"
<1>1. me[a] \in ActorStates /\ row[d] \in Rows
  BY TypeParts
<1>2. row[d].attempts \in Nat /\ row[d].lead \in BOOLEAN
  BY <1>1 DEF Rows
<1>3. first \in {"send", "park"} /\ first \in Steps
  BY DEF Steps
<1> HIDE DEF first
<1> DEFINE state == [me[a] EXCEPT !.pc = first, !.d = d, !.retry = retry, !.attempts = row[d].attempts, !.lead = row[d].lead]
<1>4. d \in Actors
  BY DEF Actors
<1>5. state \in ActorStates
  BY <1>1, <1>2, <1>3, <1>4 DEF ActorStates
<1>6. state.pc = first /\ state.d = d
  BY <1>1 DEF ActorStates
<1>7. state.attempts = row[d].attempts
  BY <1>1 DEF ActorStates
<1>8. state.lead = row[d].lead
  BY <1>1 DEF ActorStates
<1>9. state.fresh = me[a].fresh
  BY <1>1 DEF ActorStates
<1>10. Attempting(a, d, retry) = state
  BY DEF Attempting, first
<1> QED
  BY <1>3, <1>5, <1>6, <1>7, <1>8, <1>9, <1>10

LEMMA AttemptMoves ==
    ASSUME TypeOK, NEW a \in Actors, NEW d \in Deliveries, NEW retry \in BOOLEAN, Attempt(a, d, retry)
    PROVE  /\ me' \in [Actors -> ActorStates] /\ Targets(me')
           /\ \A b \in Actors \ {a} : me'[b] = me[b]
           /\ \/ me'[a] = Onward(a)
              \/ /\ me'[a] = Attempting(a, d, retry)
                 /\ ~InFlight(a, d) /\ Stored(d) /\ row[d].status \notin Finished
<1>1. CASE InFlight(a, d) \/ ~Stored(d) \/ row[d].status \in Finished
  BY <1>1, GoOnMoves DEF Attempt
<1>2. CASE ~(InFlight(a, d) \/ ~Stored(d) \/ row[d].status \in Finished)
  <2>1. me' = [me EXCEPT ![a] = Attempting(a, d, retry)]
    <3>1. me \in [Actors -> ActorStates]
      BY TypeParts
    <3> QED
      BY <1>2, <3>1 DEF Attempt, Attempting
  <2>2. Attempting(a, d, retry) \in ActorStates /\ Attempting(a, d, retry).d = d
    BY AttemptingTypes
  <2>3. /\ me' \in [Actors -> ActorStates] /\ Targets(me')
        /\ me'[a] = Attempting(a, d, retry) /\ \A b \in Actors \ {a} : me'[b] = me[b]
    BY <2>1, <2>2, Moves
  <2> QED
    BY <1>2, <2>3
<1> QED
  BY <1>1, <1>2

\* A request that begins.
Begun(d, retry, lead) == [me[d] EXCEPT !.pc = "enqueue", !.retry = retry, !.lead = lead, !.fresh = Erased]

LEMMA ErasedIsBoolean == Erased \in BOOLEAN
BY DEF Erased

LEMMA BegunTypes ==
    ASSUME TypeOK, NEW d \in Deliveries, NEW retry \in BOOLEAN, NEW lead \in BOOLEAN
    PROVE  /\ Begun(d, retry, lead) \in ActorStates
           /\ Begun(d, retry, lead).pc = "enqueue"
           /\ Begun(d, retry, lead).lead = lead
           /\ Begun(d, retry, lead).fresh = Erased
<1>1. me[d] \in ActorStates /\ "enqueue" \in Steps
  BY TypeParts DEF Actors, Steps
<1> DEFINE erased == Erased
<1>2. erased \in BOOLEAN
  BY ErasedIsBoolean
<1> HIDE DEF erased
<1> DEFINE state == [me[d] EXCEPT !.pc = "enqueue", !.retry = retry, !.lead = lead, !.fresh = erased]
<1>3. state \in ActorStates
  BY <1>1, <1>2 DEF ActorStates
<1>4. state.pc = "enqueue" /\ state.lead = lead
  BY <1>1 DEF ActorStates
<1>5. state.fresh = erased
  BY <1>1 DEF ActorStates
<1>6. Begun(d, retry, lead) = state
  BY DEF Begun, erased
<1>7. Erased = erased
  BY DEF erased
<1> QED
  BY <1>3, <1>4, <1>5, <1>6, <1>7

BeginSomehow(d) == BeginDispatch(d) \/ BeginTest(d) \/ \E original \in Deliveries : BeginRedelivery(d, original)

LEMMA BeginMoves ==
    ASSUME TypeOK, NEW d \in Deliveries, BeginSomehow(d)
    PROVE  \E retry, lead \in BOOLEAN :
              /\ me' \in [Actors -> ActorStates] /\ Targets(me')
              /\ me'[d] = Begun(d, retry, lead) /\ \A b \in Actors \ {d} : me'[b] = me[b]
              /\ At(d, "idle") /\ row[d].status = "NONE"
              /\ lead => ~Erased \/ \E o \in Deliveries : Stored(o) /\ row[o].lead
              /\ UNCHANGED <<row, list, sends, ghosts, people>>
<1>1. PICK retry \in BOOLEAN, lead \in BOOLEAN :
          Begin(d, retry, lead) /\ (lead => ~Erased \/ \E o \in Deliveries : Stored(o) /\ row[o].lead)
  <2>1. CASE BeginDispatch(d)
    BY <2>1, ErasedIsBoolean DEF BeginDispatch
  <2>2. CASE BeginTest(d)
    BY <2>2 DEF BeginTest
  <2>3. CASE \E original \in Deliveries : BeginRedelivery(d, original)
    <3>1. PICK o \in Deliveries : BeginRedelivery(d, o)
      BY <2>3
    <3>2. row[o].lead \in BOOLEAN
      BY TypeParts DEF Rows
    <3> QED
      BY <3>1, <3>2 DEF BeginRedelivery
  <2> QED
    BY <2>1, <2>2, <2>3 DEF BeginSomehow
<1>2. d \in Actors
  BY DEF Actors
<1>3. me' = [me EXCEPT ![d] = Begun(d, retry, lead)]
  <2>1. me \in [Actors -> ActorStates]
    BY TypeParts
  <2> QED
    BY <1>1, <1>2, <2>1 DEF Begin, Begun
<1>4. Begun(d, retry, lead) \in ActorStates /\ Begun(d, retry, lead).pc = "enqueue"
  BY BegunTypes
<1>5. /\ me' \in [Actors -> ActorStates] /\ Targets(me')
      /\ me'[d] = Begun(d, retry, lead) /\ \A b \in Actors \ {d} : me'[b] = me[b]
  BY <1>2, <1>3, <1>4, Moves DEF UnderWay
<1> QED
  BY <1>1, <1>5 DEF Begin

\* What an attempt leaves of a row.
LEMMA OutcomeTypes ==
    ASSUME TypeOK, NEW a \in Actors, me[a].d \in Deliveries
    PROVE  /\ Outcome(a) \in Rows
           /\ Outcome(a).attempts = me[a].attempts + 1
           /\ Outcome(a).lead = row[me[a].d].lead
           /\ Outcome(a).status = (IF me[a].ok THEN "SUCCEEDED"
                                   ELSE IF ~me[a].retry \/ me[a].attempts + 1 >= MaxAttempts THEN "EXHAUSTED" ELSE "FAILED")
<1>1. me[a].attempts \in Nat
  BY TypeParts DEF ActorStates
<1>2. row[me[a].d].lead \in BOOLEAN /\ row[me[a].d].retry \in BOOLEAN
  BY TypeParts DEF Rows
<1>3. me[a].attempts + 1 \in Nat
  BY <1>1
<1>4. Outcome(a).status \in Statuses /\ Outcome(a).next \in {"never", "later", "now"}
  BY DEF Outcome, Statuses
<1> QED
  BY <1>2, <1>3, <1>4 DEF Outcome, Rows

LEMMA TypeStep == TypeOK /\ [Next]_vars => TypeOK'
<1> SUFFICES ASSUME TypeOK, [Next]_vars PROVE TypeOK'
  OBVIOUS
<1>0. /\ hook \in {"active", "paused", "gone"} /\ row \in [Deliveries -> Rows] /\ me \in [Actors -> ActorStates]
      /\ Targets(me) /\ list \in [Workers -> SUBSET Deliveries] /\ erasure \in Erasures
      /\ sends \in [Deliveries -> Nat] /\ delivered \subseteq Deliveries /\ straggled \in BOOLEAN
      /\ crashes \in Nat /\ switches \in Nat
  BY TypeParts
<1>1. ASSUME NEW d \in Deliveries, BeginSomehow(d) PROVE TypeOK'
  BY <1>0, <1>1, BeginMoves, TypePartsNext DEF ghosts, people
<1>2. ASSUME NEW d \in Deliveries, Enqueue(d) PROVE TypeOK'
  <2>0. d \in Actors /\ me[d] \in ActorStates
    BY <1>0 DEF Actors
  <2>1. CASE hook = "gone"
    <3>1. Leave(d) /\ UNCHANGED <<row, straggled>>
      BY <1>2, <2>1 DEF Enqueue
    <3> QED
      BY <1>0, <1>2, <2>0, <3>1, LeaveMoves, TypePartsNext DEF Enqueue, people
  <2>2. CASE hook # "gone"
    <3> DEFINE new == [status |-> "PENDING", attempts |-> 0, next |-> FirstRetry(me[d].retry), lead |-> me[d].lead, retry |-> me[d].retry]
    <3>1. new \in Rows
      BY <2>0 DEF Rows, Statuses, ActorStates, FirstRetry
    <3>2. row' = [row EXCEPT ![d] = new] /\ me' = [me EXCEPT ![d].pc = "attempt"]
      BY <1>2, <2>2 DEF Enqueue
    <3> HIDE DEF new
    <3>3. row' \in [Deliveries -> Rows]
      BY <1>0, <3>1, <3>2
    <3>4. [me[d] EXCEPT !.pc = "attempt"] \in ActorStates /\ [me[d] EXCEPT !.pc = "attempt"].pc = "attempt"
      BY <2>0 DEF ActorStates, Steps
    <3>5. me' \in [Actors -> ActorStates] /\ Targets(me')
      BY <2>0, <3>2, <3>4, Moves DEF UnderWay
    <3>6. straggled' \in BOOLEAN
      BY <1>2, <2>2 DEF Enqueue
    <3> QED
      BY <1>0, <1>2, <3>3, <3>5, <3>6, TypePartsNext DEF Enqueue, people
  <2> QED
    BY <2>1, <2>2
<1>3. ASSUME NEW d \in Deliveries, FirstAttempt(d) PROVE TypeOK'
  <2>0. d \in Actors /\ me[d].retry \in BOOLEAN
    BY <1>0 DEF Actors, ActorStates
  <2> QED
    BY <1>0, <1>3, <2>0, AttemptMoves, TypePartsNext DEF FirstAttempt, ghosts, people
<1>4. ASSUME NEW a \in Actors, Send(a) PROVE TypeOK'
  <2>1. PICK ok \in BOOLEAN : me' = [me EXCEPT ![a].pc = "record", ![a].ok = ok]
    BY <1>4 DEF Send
  <2>2. me[a] \in ActorStates /\ me[a].d \in Deliveries
    BY <1>0, <1>4 DEF Send, At, Targets, UnderWay
  <2>3. [me[a] EXCEPT !.pc = "record", !.ok = ok] \in ActorStates /\ [me[a] EXCEPT !.pc = "record", !.ok = ok].d = me[a].d
    BY <2>2 DEF ActorStates, Steps
  <2>4. me' = [me EXCEPT ![a] = [me[a] EXCEPT !.pc = "record", !.ok = ok]]
    BY <1>0, <2>1
  <2>5. me' \in [Actors -> ActorStates] /\ Targets(me')
    BY <2>2, <2>3, <2>4, Moves
  <2>6. sends' \in [Deliveries -> Nat]
    BY <1>0, <1>4, <2>2 DEF Send
  <2> QED
    BY <1>0, <1>4, <2>5, <2>6, TypePartsNext DEF Send, ghosts, people
<1>5. ASSUME NEW a \in Actors, Throw(a) PROVE TypeOK'
  <2>1. list' \in [Workers -> SUBSET Deliveries]
    BY <1>0, <1>5 DEF Throw
  <2> QED
    BY <1>0, <1>5, <2>1, LeaveMoves, TypePartsNext DEF Throw, ghosts, people
<1>6. ASSUME NEW a \in Actors, Record(a) PROVE TypeOK'
  <2>0. me[a].d \in Deliveries
    BY <1>0, <1>6 DEF Record, At, Targets, UnderWay
  <2>1. CASE Stored(me[a].d)
    <3>1. row' \in [Deliveries -> Rows]
      BY <1>0, <1>6, <2>0, <2>1, OutcomeTypes DEF Record
    <3>2. delivered' \subseteq Deliveries
      BY <1>0, <1>6, <2>0, <2>1 DEF Record
    <3> QED
      BY <1>0, <1>6, <2>1, <3>1, <3>2, GoOnMoves, TypePartsNext DEF Record, people
  <2> QED
    BY <1>5, <1>6, <2>1 DEF Record
<1>7. ASSUME NEW a \in Actors, Park(a) PROVE TypeOK'
  <2>0. me[a].d \in Deliveries
    BY <1>0, <1>7 DEF Park, At, Targets, UnderWay
  <2>1. CASE Stored(me[a].d)
    <3>1. [row[me[a].d] EXCEPT !.status = "FAILED", !.next = "never"] \in Rows
      <4>1. ASSUME NEW r \in Rows PROVE [r EXCEPT !.status = "FAILED", !.next = "never"] \in Rows
        BY DEF Rows, Statuses
      <4>2. row[me[a].d] \in Rows
        BY <1>0, <2>0
      <4> QED
        BY <4>1, <4>2
    <3>2. row' = [row EXCEPT ![me[a].d] = [row[me[a].d] EXCEPT !.status = "FAILED", !.next = "never"]]
      BY <1>0, <1>7, <2>0, <2>1 DEF Park
    <3>3. row' \in [Deliveries -> Rows]
      BY <1>0, <2>0, <3>1, <3>2
    <3> QED
      BY <1>0, <1>7, <2>1, <3>3, GoOnMoves, TypePartsNext DEF Park, ghosts, people
  <2> QED
    BY <1>5, <1>7, <2>1 DEF Park
<1>8. ASSUME NEW w \in Workers, BeginPass(w) PROVE TypeOK'
  <2> DEFINE erased == Erased
  <2>0. w \in Actors /\ me[w] \in ActorStates /\ erased \in BOOLEAN
    BY <1>0, ErasedIsBoolean DEF Actors
  <2>1. me' = [me EXCEPT ![w].pc = "pass", ![w].fresh = erased]
    BY <1>8 DEF BeginPass
  <2> HIDE DEF erased
  <2>2. [me[w] EXCEPT !.pc = "pass", !.fresh = erased] \in ActorStates /\ [me[w] EXCEPT !.pc = "pass", !.fresh = erased].pc = "pass"
    BY <2>0 DEF ActorStates, Steps
  <2>3. me' = [me EXCEPT ![w] = [me[w] EXCEPT !.pc = "pass", !.fresh = erased]]
    BY <1>0, <2>0, <2>1
  <2>4. me' \in [Actors -> ActorStates] /\ Targets(me')
    BY <2>0, <2>2, <2>3, Moves DEF UnderWay
  <2>5. list' \in [Workers -> SUBSET Deliveries]
    BY <1>0, <1>8 DEF BeginPass, Due
  <2> QED
    BY <1>0, <1>8, <2>4, <2>5, TypePartsNext DEF BeginPass, ghosts, people
<1>9. ASSUME NEW w \in Workers, NEW d \in Deliveries, Retry(w, d) PROVE TypeOK'
  <2>1. w \in Actors /\ list' \in [Workers -> SUBSET Deliveries]
    BY <1>0, <1>9 DEF Retry, Actors
  <2>2. me' \in [Actors -> ActorStates] /\ Targets(me')
    BY <1>9, <2>1, AttemptMoves DEF Retry
  <2> QED
    BY <1>0, <1>9, <2>1, <2>2, TypePartsNext DEF Retry, ghosts, people
<1>10. ASSUME NEW w \in Workers, EndPass(w) PROVE TypeOK'
  BY <1>0, <1>10, LeaveMoves, TypePartsNext DEF EndPass, ghosts, people, Actors
<1>11. ASSUME NEW d \in Deliveries, ComeDue(d) PROVE TypeOK'
  <2>1. [row[d] EXCEPT !.next = "now"] \in Rows /\ row' = [row EXCEPT ![d] = [row[d] EXCEPT !.next = "now"]]
    BY <1>0, <1>11 DEF ComeDue, Rows
  <2>2. row' \in [Deliveries -> Rows]
    BY <1>0, <2>1
  <2> QED
    BY <1>0, <1>11, <2>2, TypePartsNext DEF ComeDue, ghosts, people
<1>12. CASE Switch
  <2>1. hook' \in {"active", "paused", "gone"} /\ switches' \in Nat
    BY <1>0, <1>12 DEF Switch
  <2> QED
    BY <1>0, <1>12, <2>1, TypePartsNext DEF Switch, ghosts
<1>13. CASE RemoveHook
  <2>1. [Nowhere EXCEPT !.status = "GONE"] \in Rows
    BY DEF Nowhere, Rows, Statuses
  <2>2. row' \in [Deliveries -> Rows]
    BY <1>0, <1>13, <2>1 DEF RemoveHook
  <2>3. hook' \in {"active", "paused", "gone"} /\ switches' \in Nat
    BY <1>0, <1>13 DEF RemoveHook
  <2> QED
    BY <1>0, <1>13, <2>2, <2>3, TypePartsNext DEF RemoveHook, ghosts
<1>14. CASE FindDeliveries
  <2>1. erasure' \in Erasures
    BY <1>14 DEF FindDeliveries, Erasures
  <2> QED
    BY <1>0, <1>14, <2>1, TypePartsNext DEF FindDeliveries, ghosts
<1>15. CASE EraseLead
  <2>1. erasure' \in Erasures
    BY <1>15 DEF EraseLead, Erasures
  <2>2. ASSUME NEW d \in Deliveries
        PROVE  [row[d] EXCEPT !.lead = FALSE] \in Rows /\ [row[d] EXCEPT !.lead = FALSE, !.status = "EXHAUSTED", !.next = "never"] \in Rows
    BY <1>0 DEF Rows, Statuses
  <2>3. row' \in [Deliveries -> Rows]
    BY <1>0, <1>15, <2>2 DEF EraseLead
  <2> QED
    BY <1>0, <1>15, <2>1, <2>3, TypePartsNext DEF EraseLead, ghosts
<1>16. ASSUME NEW i \in Instances, Crash(i) PROVE TypeOK'
  <2>1. me' \in [Actors -> ActorStates] /\ Targets(me')
    BY <1>0, <1>16, IdleTypes DEF Crash, Targets, UnderWay
  <2>2. list' \in [Workers -> SUBSET Deliveries] /\ crashes' \in Nat
    BY <1>0, <1>16 DEF Crash
  <2> QED
    BY <1>0, <1>16, <2>1, <2>2, TypePartsNext DEF Crash, ghosts
<1>17. CASE UNCHANGED vars
  BY <1>0, <1>17, TypePartsNext DEF vars
<1> QED
  BY <1>1, <1>2, <1>3, <1>4, <1>6, <1>7, <1>8, <1>9, <1>10, <1>11, <1>12, <1>13, <1>14, <1>15, <1>16, <1>17
     DEF Next, RequestStep, WorkerStep, AttemptStep, BeginSomehow, Actors

(* Every variable keeps its type. *)
THEOREM DeliveriesTyped == Spec => []TypeOK
BY TypeInit, TypeStep, PTL DEF Spec

-------------------------------------------------------------------------------
(* The erasure *)

(* Once the erasure has looked, no delivery gets the lead but from a request *)
(* older than it; what was begun after it has none to send.                  *)
LeadInv ==
    /\ TypeOK
    /\ \A a \in Actors : (me[a].fresh => Erased) /\ (me[a].pc = "idle" => ~me[a].lead)
    /\ ~straggled =>
          /\ erasure.pc = "found" => \A d \in Deliveries : Stored(d) /\ row[d].lead => d \in erasure.found
          /\ Erased => \A d \in Deliveries : Stored(d) => ~row[d].lead
          /\ \A a \in Actors : me[a].fresh => ~me[a].lead

LEMMA LeadInit == Init => LeadInv
<1> SUFFICES ASSUME Init PROVE LeadInv
  OBVIOUS
<1>1. \A a \in Actors : ~me[a].fresh /\ ~me[a].lead
  BY IdleTypes DEF Init
<1> QED
  BY <1>1, TypeInit DEF Init, LeadInv, Erased

\* What the lead's invariant asks of a step.
NoNewLead ==
    \A d \in Deliveries : Stored(d)' /\ row'[d].lead => Stored(d) /\ row[d].lead

LEMMA LeadFrame ==
    ASSUME LeadInv, TypeOK', erasure' = erasure, straggled' = straggled, NoNewLead,
           NEW a \in Actors, \A b \in Actors \ {a} : me'[b] = me[b],
           me'[a].fresh => Erased, me'[a].pc = "idle" => ~me'[a].lead, ~straggled /\ me'[a].fresh => ~me'[a].lead
    PROVE  LeadInv'
BY DEF LeadInv, NoNewLead, Erased

LEMMA SameLead ==
    ASSUME row' = row PROVE NoNewLead
BY DEF NoNewLead, Stored

LEMMA LeadStep == LeadInv /\ [Next]_vars => LeadInv'
<1> SUFFICES ASSUME LeadInv, [Next]_vars PROVE LeadInv'
  OBVIOUS
<1>0. /\ TypeOK /\ TypeOK' /\ row \in [Deliveries -> Rows] /\ me \in [Actors -> ActorStates] /\ Targets(me)
      /\ erasure \in Erasures /\ Deliveries \subseteq Actors
  BY TypeStep, TypeParts DEF LeadInv, Actors
<1>a. ASSUME NEW a \in Actors PROVE (me[a].fresh => Erased) /\ (me[a].pc = "idle" => ~me[a].lead) /\ (~straggled /\ me[a].fresh => ~me[a].lead)
  BY DEF LeadInv
<1>1. ASSUME NEW d \in Deliveries, BeginSomehow(d) PROVE LeadInv'
  <2>1. PICK retry \in BOOLEAN, lead \in BOOLEAN :
              /\ me'[d] = Begun(d, retry, lead) /\ \A b \in Actors \ {d} : me'[b] = me[b]
              /\ lead => ~Erased \/ \E o \in Deliveries : Stored(o) /\ row[o].lead
              /\ UNCHANGED <<row, list, sends, ghosts, people>>
    BY <1>0, <1>1, BeginMoves
  <2>2. me'[d].lead = lead /\ me'[d].fresh = Erased /\ me'[d].pc = "enqueue"
    BY <1>0, <2>1, BegunTypes
  <2>3. ~straggled /\ Erased => ~lead
    BY <2>1 DEF LeadInv
  <2> QED
    BY <1>0, <2>1, <2>2, <2>3, LeadFrame, SameLead DEF ghosts, people
<1>2. ASSUME NEW d \in Deliveries, Enqueue(d) PROVE LeadInv'
  <2>0. d \in Actors
    BY DEF Actors
  <2>1. CASE hook = "gone"
    <3>1. Leave(d) /\ UNCHANGED <<row, straggled, erasure>>
      BY <1>2, <2>1 DEF Enqueue, people
    <3>2. ~me'[d].fresh /\ ~me'[d].lead /\ \A b \in Actors \ {d} : me'[b] = me[b]
      BY <1>0, <2>0, <3>1, LeaveMoves, IdleTypes
    <3> QED
      BY <1>0, <2>0, <3>1, <3>2, LeadFrame, SameLead
  <2>2. CASE hook # "gone"
    <3>1. /\ row' = [row EXCEPT ![d] = [status |-> "PENDING", attempts |-> 0, next |-> FirstRetry(me[d].retry),
                                        lead |-> me[d].lead, retry |-> me[d].retry]]
          /\ straggled' = (straggled \/ (erasure.pc # "none" /\ ~me[d].fresh))
          /\ me' = [me EXCEPT ![d].pc = "attempt"] /\ erasure' = erasure
      BY <1>2, <2>2 DEF Enqueue, people
    <3>2. \A a \in Actors : me'[a].fresh = me[a].fresh /\ me'[a].lead = me[a].lead /\ (me'[a].pc = "idle" => me[a].pc = "idle")
      BY <1>0, <3>1 DEF ActorStates
    <3>3. \A e \in Deliveries \ {d} : row'[e] = row[e]
      BY <1>0, <3>1
    <3>4. row'[d].lead = me[d].lead
      BY <1>0, <3>1
    <3>5. ~straggled' => ~straggled /\ (erasure.pc # "none" => me[d].fresh)
      BY <3>1
    <3>6. ~straggled' /\ erasure.pc # "none" => ~row'[d].lead
      BY <1>0, <1>a, <3>4, <3>5
    <3> QED
      BY <1>0, <3>1, <3>2, <3>3, <3>5, <3>6 DEF LeadInv, Erased, Stored
  <2> QED
    BY <2>1, <2>2
<1>3. ASSUME NEW a \in Actors, NEW d \in Deliveries, NEW retry \in BOOLEAN, Attempt(a, d, retry),
             row' = row, erasure' = erasure, straggled' = straggled
      PROVE  LeadInv'
  <2>1. \A b \in Actors \ {a} : me'[b] = me[b]
    BY <1>0, <1>3, AttemptMoves
  <2>2. (me'[a].fresh => Erased) /\ (me'[a].pc = "idle" => ~me'[a].lead) /\ (~straggled /\ me'[a].fresh => ~me'[a].lead)
    <3>1. CASE me'[a] = Onward(a)
      BY <1>0, <1>a, <3>1, OnwardTypes
    <3>2. CASE me'[a] = Attempting(a, d, retry) /\ Stored(d)
      <4>1. me'[a].fresh = me[a].fresh /\ me'[a].lead = row[d].lead /\ me'[a].pc # "idle"
        BY <1>0, <3>2, AttemptingTypes
      <4> QED
        BY <1>a, <3>2, <4>1 DEF LeadInv
    <3> QED
      BY <1>0, <1>3, <3>1, <3>2, AttemptMoves
  <2> QED
    BY <1>0, <1>3, <2>1, <2>2, LeadFrame, SameLead
<1>4. ASSUME NEW a \in Actors, Send(a) PROVE LeadInv'
  <2>1. PICK ok \in BOOLEAN : me' = [me EXCEPT ![a].pc = "record", ![a].ok = ok]
    BY <1>4 DEF Send
  <2>2. me'[a].fresh = me[a].fresh /\ me'[a].lead = me[a].lead /\ me'[a].pc = "record" /\ \A b \in Actors \ {a} : me'[b] = me[b]
    BY <1>0, <2>1 DEF ActorStates
  <2> QED
    BY <1>0, <1>4, <1>a, <2>2, LeadFrame, SameLead DEF Send, ghosts, people
<1>5. ASSUME NEW a \in Actors, Throw(a) PROVE LeadInv'
  BY <1>0, <1>5, LeaveMoves, IdleTypes, LeadFrame, SameLead DEF Throw, ghosts, people
<1>6. ASSUME NEW a \in Actors, GoOn(a), NoNewLead, erasure' = erasure, straggled' = straggled PROVE LeadInv'
  BY <1>0, <1>a, <1>6, GoOnMoves, OnwardTypes, LeadFrame
<1>7. ASSUME NEW a \in Actors, Record(a) PROVE LeadInv'
  <2>0. me[a].d \in Deliveries
    BY <1>0, <1>7 DEF Record, At, Targets, UnderWay
  <2>1. CASE Stored(me[a].d)
    <3>1. row' = [row EXCEPT ![me[a].d] = Outcome(a)]
      BY <1>7, <2>1 DEF Record
    <3>2. NoNewLead
      BY <1>0, <2>0, <2>1, <3>1, OutcomeTypes DEF NoNewLead, Stored
    <3> QED
      BY <1>6, <1>7, <2>1, <3>2 DEF Record, people
  <2> QED
    BY <1>5, <1>7, <2>1 DEF Record
<1>8. ASSUME NEW a \in Actors, Park(a) PROVE LeadInv'
  <2>0. me[a].d \in Deliveries
    BY <1>0, <1>8 DEF Park, At, Targets, UnderWay
  <2>1. CASE Stored(me[a].d)
    <3>1. row' = [row EXCEPT ![me[a].d].status = "FAILED", ![me[a].d].next = "never"]
      BY <1>8, <2>1 DEF Park
    <3>2. row'[me[a].d].lead = row[me[a].d].lead /\ \A e \in Deliveries \ {me[a].d} : row'[e] = row[e]
      BY <1>0, <2>0, <3>1 DEF Rows
    <3>3. NoNewLead
      BY <2>1, <3>2 DEF NoNewLead, Stored
    <3> QED
      BY <1>6, <1>8, <2>1, <3>3 DEF Park, people, ghosts
  <2> QED
    BY <1>5, <1>8, <2>1 DEF Park
<1>9. ASSUME NEW w \in Workers, BeginPass(w) PROVE LeadInv'
  <2> DEFINE erased == Erased
  <2>0. w \in Actors
    BY DEF Actors
  <2>1. me' = [me EXCEPT ![w].pc = "pass", ![w].fresh = erased]
    BY <1>9 DEF BeginPass
  <2> HIDE DEF erased
  <2>2. me'[w].fresh = erased /\ me'[w].lead = me[w].lead /\ me'[w].pc = "pass" /\ \A b \in Actors \ {w} : me'[b] = me[b]
    BY <1>0, <2>0, <2>1 DEF ActorStates
  <2>3. ~me'[w].lead
    BY <1>9, <1>a, <2>0, <2>2 DEF BeginPass, At
  <2>4. me'[w].fresh => Erased
    BY <2>2 DEF erased
  <2> QED
    BY <1>0, <1>9, <2>0, <2>2, <2>3, <2>4, LeadFrame, SameLead DEF BeginPass, ghosts, people
<1>10. ASSUME NEW w \in Workers, EndPass(w) PROVE LeadInv'
  <2>1. w \in Actors
    BY DEF Actors
  <2> QED
    BY <1>0, <1>10, <2>1, LeaveMoves, IdleTypes, LeadFrame, SameLead DEF EndPass, ghosts, people
<1>11. ASSUME NEW d \in Deliveries, ComeDue(d) PROVE LeadInv'
  <2>1. row' = [row EXCEPT ![d].next = "now"] /\ me' = me /\ straggled' = straggled /\ erasure' = erasure
    BY <1>11 DEF ComeDue, ghosts, people
  <2>2. \A e \in Deliveries : row'[e].status = row[e].status /\ row'[e].lead = row[e].lead
    BY <1>0, <2>1 DEF Rows
  <2> QED
    BY <1>0, <2>1, <2>2 DEF LeadInv, Stored, Erased
<1>12. CASE Switch \/ UNCHANGED vars
  BY <1>0, <1>12 DEF Switch, vars, LeadInv, ghosts, Stored, Erased
<1>13. CASE RemoveHook
  <2>1. \A d \in Deliveries : Stored(d)' => FALSE
    BY <1>0, <1>13 DEF RemoveHook, Stored, Nowhere
  <2> QED
    BY <1>0, <1>13, <2>1 DEF RemoveHook, LeadInv, ghosts, Erased
<1>14. CASE FindDeliveries
  <2>1. /\ erasure.pc = "none" /\ erasure'.pc = "found"
        /\ erasure'.found = {d \in Deliveries : Stored(d) /\ row[d].lead}
        /\ row' = row /\ me' = me /\ straggled' = straggled
    BY <1>14 DEF FindDeliveries, ghosts
  <2> QED
    BY <1>0, <2>1 DEF LeadInv, Erased, Stored
<1>15. CASE EraseLead
  <2>1. erasure.pc = "found" /\ erasure'.pc = "done" /\ me' = me /\ straggled' = straggled
    BY <1>15 DEF EraseLead, ghosts
  <2>2. ASSUME NEW d \in Deliveries, Stored(d)', row'[d].lead PROVE Stored(d) /\ row[d].lead /\ d \notin erasure.found
    BY <1>0, <1>15, <2>2 DEF EraseLead, Redacted, Stored, Rows, Erasures
  <2>3. ~straggled => \A d \in Deliveries : Stored(d)' => ~row'[d].lead
    BY <2>1, <2>2 DEF LeadInv
  <2> QED
    BY <1>0, <2>1, <2>3 DEF LeadInv, Erased
<1>16. ASSUME NEW i \in Instances, Crash(i) PROVE LeadInv'
  <2>1. row' = row /\ erasure' = erasure /\ straggled' = straggled
    BY <1>16 DEF Crash, ghosts
  <2>2. \A a \in Actors : me'[a] = me[a] \/ (~me'[a].fresh /\ ~me'[a].lead)
    BY <1>16, IdleTypes DEF Crash
  <2> QED
    BY <1>0, <2>1, <2>2 DEF LeadInv, Erased, Stored
<1>17. ASSUME NEW d \in Deliveries, FirstAttempt(d) PROVE LeadInv'
  <2>1. me[d].retry \in BOOLEAN
    BY <1>0 DEF ActorStates
  <2> QED
    BY <1>0, <1>3, <1>17, <2>1 DEF FirstAttempt, ghosts, people
<1>18. ASSUME NEW w \in Workers, NEW d \in Deliveries, Retry(w, d) PROVE LeadInv'
  BY <1>0, <1>3, <1>18 DEF Retry, ghosts, people, Actors
<1> QED
  BY <1>1, <1>2, <1>4, <1>7, <1>8, <1>9, <1>10, <1>11, <1>12, <1>13, <1>14, <1>15, <1>16, <1>17, <1>18
     DEF Next, RequestStep, WorkerStep, AttemptStep, BeginSomehow, Actors

(* Nothing begun after the erasure sends the lead's data out, unless a       *)
(* request older than the erasure enqueued it behind its back.               *)
THEOREM ErasedStaysIn == Spec => []ErasedIsNotSent
<1>1. LeadInv => ErasedIsNotSent
  BY DEF LeadInv, ErasedIsNotSent
<1> QED
  BY LeadInit, LeadStep, <1>1, PTL DEF Spec

-------------------------------------------------------------------------------
(* One instance *)

Busy(a) == me[a].pc \in UnderWay

(* In one instance no two actors attempt a delivery, and none attempts one   *)
(* that was recorded as accepted.                                            *)
FlightInv ==
    /\ \A d \in Deliveries : me[d].pc = "enqueue" => row[d].status = "NONE"
    /\ \A d \in delivered : row[d].status \notin Unsent /\ row[d].status # "NONE"
    /\ \A a \in Actors : Busy(a) => row[me[a].d].status # "NONE" /\ me[a].d \notin delivered
    /\ \A a, b \in Actors : Busy(a) /\ Busy(b) /\ me[a].d = me[b].d => a = b

LEMMA FlightInit == Init => FlightInv
<1> SUFFICES ASSUME Init PROVE FlightInv
  OBVIOUS
<1>1. \A a \in Actors : me[a].pc = "idle"
  BY IdleTypes DEF Init
<1> QED
  BY <1>1 DEF Init, FlightInv, Busy, UnderWay, Actors

\* Steps after which nobody attempts what they did not.
LEMMA FlightFrame ==
    ASSUME TypeOK, FlightInv, delivered' = delivered,
           \A d \in Deliveries : row'[d].status = "NONE" <=> row[d].status = "NONE",
           \A d \in delivered : row'[d].status \notin Unsent,
           \A a \in Actors : me'[a].pc \in UnderWay => me[a].pc \in UnderWay /\ me'[a].d = me[a].d,
           \A d \in Deliveries : me'[d].pc = "enqueue" => me[d].pc = "enqueue"
    PROVE  FlightInv'
<1>1. delivered \subseteq Deliveries /\ Targets(me)
  BY TypeParts
<1> QED
  BY <1>1 DEF FlightInv, Busy, Targets

\* In particular when one actor stops, and the rows stay as they are.
LEMMA FlightStops ==
    ASSUME TypeOK, FlightInv, delivered' = delivered, row' = row, NEW a \in Actors,
           \A b \in Actors \ {a} : me'[b] = me[b], me'[a].pc \notin UnderWay \union {"enqueue"}
    PROVE  FlightInv'
<1>1. Deliveries \subseteq Actors /\ delivered \subseteq Deliveries
  BY TypeParts DEF Actors
<1>2. \A d \in delivered : row'[d].status \notin Unsent
  BY DEF FlightInv
<1> QED
  BY <1>1, <1>2, FlightFrame

LEMMA FlightStep == TypeOK /\ OneInstance /\ FlightInv /\ [Next]_vars => FlightInv'
<1> SUFFICES ASSUME TypeOK, OneInstance, FlightInv, [Next]_vars PROVE FlightInv'
  OBVIOUS
<1>0. /\ row \in [Deliveries -> Rows] /\ me \in [Actors -> ActorStates] /\ Targets(me) /\ delivered \subseteq Deliveries
      /\ erasure \in Erasures /\ Deliveries \subseteq Actors /\ Workers \subseteq Actors
  BY TypeParts DEF Actors
<1>a. \A d \in delivered : row[d].status \notin Unsent /\ row[d].status # "NONE"
  BY DEF FlightInv
<1>1. ASSUME NEW d \in Deliveries, BeginSomehow(d) PROVE FlightInv'
  <2>1. /\ me'[d].pc = "enqueue" /\ \A b \in Actors \ {d} : me'[b] = me[b]
        /\ row[d].status = "NONE" /\ row' = row /\ delivered' = delivered
    BY <1>0, <1>1, BeginMoves, BegunTypes DEF ghosts
  <2> QED
    BY <1>0, <2>1 DEF FlightInv, Busy, UnderWay
<1>2. ASSUME NEW d \in Deliveries, Enqueue(d) PROVE FlightInv'
  <2>1. CASE hook = "gone"
    <3>1. Leave(d) /\ row' = row /\ delivered' = delivered
      BY <1>2, <2>1 DEF Enqueue
    <3>2. me'[d].pc = "idle" /\ \A b \in Actors \ {d} : me'[b] = me[b]
      <4>1. d \in Actors /\ Idle(d).pc = "idle"
        BY <1>0, IdleTypes
      <4> QED
        BY <3>1, <4>1, LeaveMoves
    <3> QED
      BY <1>0, <3>1, <3>2, FlightStops DEF UnderWay
  <2>2. CASE hook # "gone"
    <3>1. /\ row' = [row EXCEPT ![d] = [status |-> "PENDING", attempts |-> 0, next |-> FirstRetry(me[d].retry),
                                        lead |-> me[d].lead, retry |-> me[d].retry]]
          /\ me' = [me EXCEPT ![d].pc = "attempt"] /\ delivered' = delivered
      BY <1>2, <2>2 DEF Enqueue
    <3>2. me'[d].pc = "attempt" /\ \A b \in Actors \ {d} : me'[b] = me[b]
      BY <1>0, <3>1 DEF ActorStates
    <3>3. row'[d].status = "PENDING" /\ \A e \in Deliveries \ {d} : row'[e] = row[e]
      BY <1>0, <3>1
    <3>4. row[d].status = "NONE" /\ d \notin delivered
      BY <1>2 DEF Enqueue, At, FlightInv
    <3>5. \A a \in Actors : me'[a].pc \in UnderWay => a # d
      BY <3>2 DEF UnderWay
    <3> QED
      BY <1>0, <3>1, <3>2, <3>3, <3>4, <3>5 DEF FlightInv, Busy, Targets
  <2> QED
    BY <2>1, <2>2
<1>3. ASSUME NEW a \in Actors, NEW d \in Deliveries, NEW retry \in BOOLEAN, Attempt(a, d, retry), row' = row, delivered' = delivered
      PROVE  FlightInv'
  <2>0. \A b \in Actors \ {a} : me'[b] = me[b]
    BY <1>0, <1>3, AttemptMoves
  <2>1. CASE me'[a] = Onward(a)
    <3>1. me'[a].pc \in {"idle", "pass"}
      BY <2>1, OnwardTypes
    <3> QED
      BY <1>3, <2>0, <3>1, FlightStops DEF UnderWay
  <2>2. CASE me'[a] = Attempting(a, d, retry) /\ ~InFlight(a, d) /\ Stored(d) /\ row[d].status \notin Finished
    <3>1. me'[a].pc \in {"send", "park"} /\ me'[a].d = d
      BY <2>2, AttemptingTypes
    <3>2. \A b \in Actors : ~(Busy(b) /\ me[b].d = d)
      BY <2>2 DEF InFlight, OneInstance, Busy, UnderWay
    <3>3. row[d].status \in Unsent
      BY <1>0, <2>2 DEF Stored, Finished, Unsent, Rows, Statuses
    <3>4. d \notin delivered /\ row[d].status # "NONE"
      BY <1>a, <3>3 DEF Unsent
    <3>5. \A b \in Actors : me'[b].pc = "enqueue" => b # a
      BY <3>1
    <3> QED
      BY <1>0, <1>3, <2>0, <3>1, <3>2, <3>4, <3>5 DEF FlightInv, Busy, Targets
  <2> QED
    BY <1>0, <1>3, <2>1, <2>2, AttemptMoves
<1>4. ASSUME NEW a \in Actors, Send(a) PROVE FlightInv'
  <2>1. PICK ok \in BOOLEAN : me' = [me EXCEPT ![a].pc = "record", ![a].ok = ok]
    BY <1>4 DEF Send
  <2>2. me'[a].pc = "record" /\ me'[a].d = me[a].d /\ \A b \in Actors \ {a} : me'[b] = me[b]
    BY <1>0, <2>1 DEF ActorStates
  <2>3. me[a].pc \in UnderWay /\ row' = row /\ delivered' = delivered
    BY <1>4 DEF Send, At, UnderWay, ghosts
  <2>4. \A b \in Actors : me'[b].pc \in UnderWay => me[b].pc \in UnderWay /\ me'[b].d = me[b].d
    BY <2>2, <2>3
  <2>5. \A d \in Deliveries : me'[d].pc = "enqueue" => me[d].pc = "enqueue"
    BY <1>0, <2>2
  <2> QED
    BY <1>a, <2>3, <2>4, <2>5, FlightFrame
<1>5. ASSUME NEW a \in Actors, Throw(a) PROVE FlightInv'
  <2>1. me'[a].pc = "idle" /\ (\A b \in Actors \ {a} : me'[b] = me[b]) /\ row' = row /\ delivered' = delivered
    BY <1>5, LeaveMoves, IdleTypes DEF Throw, ghosts
  <2> QED
    BY <2>1, FlightStops DEF UnderWay
<1>6. ASSUME NEW a \in Actors, Record(a) PROVE FlightInv'
  <2> DEFINE d == me[a].d
  <2>0. d \in Deliveries /\ Busy(a)
    BY <1>0, <1>6 DEF Record, At, Targets, UnderWay, Busy
  <2>1. CASE Stored(d)
    <3>1. row' = [row EXCEPT ![d] = Outcome(a)] /\ delivered' = (IF me[a].ok THEN delivered \union {d} ELSE delivered) /\ GoOn(a)
      BY <1>6, <2>1 DEF Record
    <3>2. me'[a].pc \in {"idle", "pass"} /\ \A b \in Actors \ {a} : me'[b] = me[b]
      BY <3>1, GoOnMoves, OnwardTypes
    <3>3. row'[d].status \in {"SUCCEEDED", "EXHAUSTED", "FAILED"} /\ (me[a].ok => row'[d].status = "SUCCEEDED")
      BY <1>0, <2>0, <3>1, OutcomeTypes
    <3>4. \A e \in Deliveries \ {d} : row'[e] = row[e]
      BY <1>0, <3>1
    <3>5. d \notin delivered /\ row[d].status # "NONE" /\ \A b \in Actors \ {a} : Busy(b) => me[b].d # d
      BY <2>0 DEF FlightInv
    <3>6. \A b \in Actors : me'[b].pc \in UnderWay \union {"enqueue"} => b # a
      BY <3>2 DEF UnderWay
    <3> HIDE DEF d
    <3>7. \A e \in Deliveries : me'[e].pc = "enqueue" => row'[e].status = "NONE"
      BY <1>0, <3>2, <3>4, <3>5, <3>6 DEF FlightInv
    <3>8. \A e \in delivered' : row'[e].status \notin Unsent /\ row'[e].status # "NONE"
      BY <1>0, <1>a, <3>1, <3>3, <3>4, <3>5 DEF Unsent
    <3>9. \A b \in Actors : me'[b].pc \in UnderWay => row'[me'[b].d].status # "NONE" /\ me'[b].d \notin delivered'
      BY <1>0, <3>1, <3>2, <3>4, <3>5, <3>6 DEF FlightInv, Busy, Targets
    <3>10. \A b, c \in Actors : me'[b].pc \in UnderWay /\ me'[c].pc \in UnderWay /\ me'[b].d = me'[c].d => b = c
      BY <3>2, <3>6 DEF FlightInv, Busy
    <3> QED
      BY <3>7, <3>8, <3>9, <3>10 DEF FlightInv, Busy
  <2> QED
    BY <1>5, <1>6, <2>1 DEF Record
<1>7. ASSUME NEW a \in Actors, Park(a) PROVE FlightInv'
  <2> DEFINE d == me[a].d
  <2>0. d \in Deliveries /\ d \notin delivered /\ row[d].status # "NONE"
    BY <1>0, <1>7 DEF Park, At, Targets, UnderWay, Busy, FlightInv
  <2>1. CASE Stored(d)
    <3>1. row' = [row EXCEPT ![d].status = "FAILED", ![d].next = "never"] /\ delivered' = delivered /\ GoOn(a)
      BY <1>7, <2>1 DEF Park, ghosts
    <3>2. me'[a].pc \in {"idle", "pass"} /\ \A b \in Actors \ {a} : me'[b] = me[b]
      BY <3>1, GoOnMoves, OnwardTypes
    <3>3. row'[d].status = "FAILED" /\ \A e \in Deliveries \ {d} : row'[e] = row[e]
      BY <1>0, <2>0, <3>1 DEF Rows
    <3> HIDE DEF d
    <3>4. \A b \in Actors : me'[b].pc \in UnderWay => me[b].pc \in UnderWay /\ me'[b].d = me[b].d
      BY <3>2 DEF UnderWay
    <3>5. \A e \in Deliveries : me'[e].pc = "enqueue" => me[e].pc = "enqueue"
      BY <1>0, <3>2
    <3>6. \A e \in Deliveries : row'[e].status = "NONE" <=> row[e].status = "NONE"
      BY <2>0, <3>3
    <3>7. \A e \in delivered : row'[e].status \notin Unsent
      BY <1>0, <1>a, <2>0, <3>3
    <3> QED
      BY <3>1, <3>4, <3>5, <3>6, <3>7, FlightFrame
  <2> QED
    BY <1>5, <1>7, <2>1 DEF Park
<1>8. ASSUME NEW w \in Workers, BeginPass(w) PROVE FlightInv'
  <2>1. me'[w].pc = "pass" /\ (\A b \in Actors \ {w} : me'[b] = me[b]) /\ row' = row /\ delivered' = delivered
    BY <1>0, <1>8 DEF BeginPass, ActorStates, ghosts
  <2> QED
    BY <1>0, <2>1, FlightStops DEF UnderWay
<1>9. ASSUME NEW d \in Deliveries, FirstAttempt(d) PROVE FlightInv'
  <2>1. me[d].retry \in BOOLEAN
    BY <1>0 DEF ActorStates
  <2> QED
    BY <1>0, <1>3, <1>9, <2>1 DEF FirstAttempt, ghosts
<1>10. ASSUME NEW w \in Workers, NEW d \in Deliveries, Retry(w, d) PROVE FlightInv'
  BY <1>0, <1>3, <1>10 DEF Retry, ghosts
<1>11. ASSUME NEW w \in Workers, EndPass(w) PROVE FlightInv'
  <2>1. me'[w].pc = "idle" /\ (\A b \in Actors \ {w} : me'[b] = me[b]) /\ row' = row /\ delivered' = delivered
    <3>1. w \in Actors /\ Idle(w).pc = "idle"
      BY <1>0, IdleTypes
    <3> QED
      BY <1>11, <3>1, LeaveMoves DEF EndPass, ghosts
  <2> QED
    BY <1>0, <2>1, FlightStops DEF UnderWay
<1>12. ASSUME me' = me, delivered' = delivered, \A d \in Deliveries : row'[d].status = "NONE" <=> row[d].status = "NONE",
              \A d \in delivered : row'[d].status \notin Unsent
       PROVE  FlightInv'
  BY <1>12, FlightFrame
<1>13. ASSUME NEW d \in Deliveries, ComeDue(d) PROVE FlightInv'
  <2>1. row' = [row EXCEPT ![d].next = "now"] /\ me' = me /\ delivered' = delivered
    BY <1>13 DEF ComeDue, ghosts
  <2>2. \A e \in Deliveries : row'[e].status = row[e].status
    BY <1>0, <2>1 DEF Rows
  <2> QED
    BY <1>0, <1>12, <1>a, <2>1, <2>2
<1>14. CASE Switch \/ FindDeliveries \/ UNCHANGED vars
  BY <1>12, <1>14, <1>a DEF Switch, FindDeliveries, vars, ghosts
<1>15. CASE RemoveHook
  <2>1. \A d \in Deliveries : row'[d].status = (IF Stored(d) THEN "GONE" ELSE row[d].status)
    BY <1>0, <1>15 DEF RemoveHook, Nowhere
  <2> QED
    BY <1>0, <1>12, <1>15, <1>a, <2>1 DEF RemoveHook, Stored, Unsent, ghosts
<1>16. CASE EraseLead
  <2>1. \A d \in Deliveries : row'[d].status = row[d].status \/ (Stored(d) /\ row'[d].status = "EXHAUSTED")
    <3> SUFFICES ASSUME NEW d \in Deliveries
                 PROVE  row'[d].status = row[d].status \/ (Stored(d) /\ row'[d].status = "EXHAUSTED")
      OBVIOUS
    <3>1. row[d] \in Rows
      BY <1>0
    <3>2. \/ row'[d] = row[d]
          \/ row'[d] = [row[d] EXCEPT !.lead = FALSE]
          \/ Stored(d) /\ row'[d] = [row[d] EXCEPT !.lead = FALSE, !.status = "EXHAUSTED", !.next = "never"]
      BY <1>16 DEF EraseLead
    <3>3. [row[d] EXCEPT !.lead = FALSE].status = row[d].status
      BY <3>1 DEF Rows
    <3>4. [row[d] EXCEPT !.lead = FALSE, !.status = "EXHAUSTED", !.next = "never"].status = "EXHAUSTED"
      BY <3>1 DEF Rows
    <3> QED
      BY <3>2, <3>3, <3>4
  <2> QED
    BY <1>0, <1>12, <1>16, <1>a, <2>1 DEF EraseLead, Stored, Unsent, ghosts
<1>17. ASSUME NEW i \in Instances, Crash(i) PROVE FlightInv'
  <2>1. \A a \in Actors : me'[a] = me[a] \/ me'[a].pc = "idle"
    BY <1>17, IdleTypes DEF Crash
  <2>2. row' = row /\ delivered' = delivered
    BY <1>17 DEF Crash, ghosts
  <2> QED
    BY <1>0, <1>a, <2>1, <2>2, FlightFrame DEF UnderWay
<1> QED
  BY <1>1, <1>2, <1>4, <1>6, <1>7, <1>8, <1>9, <1>10, <1>11, <1>13, <1>14, <1>15, <1>16, <1>17
     DEF Next, RequestStep, WorkerStep, AttemptStep, BeginSomehow, Actors

(* In one instance what was recorded as accepted is not sent again, whatever *)
(* list it is still on.                                                      *)
THEOREM AcceptedIsFinal == Spec => DeliveredIsNotSentAgain
<1> DEFINE A == OneInstance => \A d \in delivered : sends'[d] = sends[d] /\ row'[d].status \notin Unsent
<1> DEFINE Inv == TypeOK /\ (OneInstance => FlightInv)
<1>1. Init => Inv
  BY TypeInit, FlightInit
<1>2. Inv /\ [Next]_vars => Inv'
  BY TypeStep, FlightStep DEF OneInstance
<1>3. Inv /\ [Next]_vars => [A]_vars
  <2> SUFFICES ASSUME Inv, Next, OneInstance, NEW d \in delivered PROVE sends'[d] = sends[d] /\ row'[d].status \notin Unsent
    BY DEF vars
  <2>0. FlightInv /\ sends \in [Deliveries -> Nat] /\ delivered \subseteq Deliveries
    BY TypeParts
  <2>1. sends'[d] = sends[d]
    <3>1. ASSUME NEW a \in Actors, Send(a) PROVE sends'[d] = sends[d]
      <4>1. me[a].d # d
        BY <2>0, <3>1 DEF Send, At, FlightInv, Busy, UnderWay
      <4> QED
        BY <2>0, <3>1, <4>1 DEF Send
    <3> QED
      BY <3>1 DEF Next, RequestStep, WorkerStep, AttemptStep, Actors, BeginDispatch, BeginTest, BeginRedelivery, Begin, Enqueue,
                  FirstAttempt, Record, Park, Throw, BeginPass, Retry, EndPass, ComeDue, Switch, RemoveHook, FindDeliveries,
                  EraseLead, Crash
  <2>2. d \in delivered'
    BY DEF Next, RequestStep, WorkerStep, AttemptStep, Actors, BeginDispatch, BeginTest, BeginRedelivery, Begin, Enqueue,
           FirstAttempt, Send, Record, Park, Throw, BeginPass, Retry, EndPass, ComeDue, Switch, RemoveHook, FindDeliveries,
           EraseLead, Crash, ghosts
  <2>3. FlightInv'
    BY <1>2 DEF OneInstance
  <2> QED
    BY <2>1, <2>2, <2>3 DEF FlightInv
<1> QED
  BY <1>1, <1>2, <1>3, PTL DEF Spec, DeliveredIsNotSentAgain, A

-------------------------------------------------------------------------------
(* How often a delivery is sent *)

(* Whoever attempts a delivery knows how often it was attempted, and it may  *)
(* be once more; what the row does not count is under way or has crashed.    *)
AttemptsKnown ==
    \A a \in Actors : Busy(a) /\ Stored(me[a].d) =>
        me[a].attempts = row[me[a].d].attempts /\ me[a].attempts < MaxAttempts

RowsBounded ==
    \A d \in Deliveries : Stored(d) =>
        row[d].attempts <= MaxAttempts /\ (row[d].status \in Unsent => row[d].attempts < MaxAttempts)

SendsBounded ==
    \A d \in Deliveries : Stored(d) =>
        /\ sends[d] <= row[d].attempts + crashes + 1
        /\ ~Unrecorded(d) => sends[d] <= row[d].attempts + crashes

CountInv ==
    /\ AttemptsKnown /\ RowsBounded /\ SendsBounded
    /\ \A d \in Deliveries : row[d].status = "NONE" => sends[d] = 0

LEMMA CountInit == Init => CountInv
<1> SUFFICES ASSUME Init PROVE CountInv
  OBVIOUS
<1>1. \A a \in Actors : me[a].pc = "idle"
  BY IdleTypes DEF Init
<1>2. \A d \in Deliveries : ~Stored(d) /\ sends[d] = 0
  BY DEF Init, Stored, Nowhere
<1> QED
  BY <1>1, <1>2 DEF CountInv, AttemptsKnown, RowsBounded, SendsBounded, Busy, UnderWay

\* Nobody knows what they did not, and the rows count what they did.
SameCounts ==
    \A d \in Deliveries :
        /\ row'[d].status = "NONE" => row[d].status = "NONE"
        /\ Stored(d)' => /\ Stored(d) /\ row'[d].attempts = row[d].attempts
                         /\ row'[d].status \in Unsent => row[d].attempts < MaxAttempts

LEMMA CountFrame ==
    ASSUME CountInv, sends' = sends, crashes' = crashes, SameCounts, AttemptsKnown',
           \A d \in Deliveries : Stored(d)' /\ Unrecorded(d) => Unrecorded(d)'
    PROVE  CountInv'
<1>1. RowsBounded'
  BY DEF CountInv, RowsBounded, SameCounts
<1>2. SendsBounded'
  BY DEF CountInv, SendsBounded, SameCounts
<1> QED
  BY <1>1, <1>2 DEF CountInv, SameCounts

LEMMA SameRowsCount ==
    ASSUME TypeOK, CountInv, row' = row PROVE SameCounts
BY DEF SameCounts, CountInv, RowsBounded, Stored

\* One actor stops what it may have attempted, if not before the record.
LEMMA CountStops ==
    ASSUME TypeOK, CountInv, sends' = sends, crashes' = crashes, SameCounts, NEW a \in Actors,
           \A b \in Actors \ {a} : me'[b] = me[b], me'[a].pc \notin UnderWay,
           At(a, "record") => row'[me[a].d].status \in {"NONE", "GONE"}
    PROVE  CountInv'
<1>1. AttemptsKnown'
  <2> SUFFICES ASSUME NEW b \in Actors, me'[b].pc \in UnderWay, Stored(me[b].d)'
               PROVE  me'[b].attempts = row'[me'[b].d].attempts /\ me'[b].attempts < MaxAttempts
    BY DEF AttemptsKnown, Busy, Stored
  <2>1. me'[b] = me[b] /\ Busy(b) /\ me[b].d \in Deliveries
    BY TypeParts DEF Busy, Targets
  <2>2. Stored(me[b].d) /\ row'[me[b].d].attempts = row[me[b].d].attempts
    BY <2>1 DEF SameCounts, Stored
  <2> QED
    BY <2>1, <2>2 DEF CountInv, AttemptsKnown
<1>2. ASSUME NEW d \in Deliveries, Stored(d)', Unrecorded(d) PROVE Unrecorded(d)'
  <2>1. PICK b \in Actors : At(b, "record") /\ me[b].d = d
    BY <1>2 DEF Unrecorded
  <2>2. b # a
    BY <1>2, <2>1 DEF Stored
  <2> QED
    BY <2>1, <2>2 DEF Unrecorded, At
<1> QED
  BY <1>1, <1>2, CountFrame

\* Nobody moves.
LEMMA CountStays ==
    ASSUME TypeOK, CountInv, sends' = sends, crashes' = crashes, SameCounts, me' = me
    PROVE  CountInv'
<1>1. AttemptsKnown'
  <2> SUFFICES ASSUME NEW b \in Actors, Busy(b), Stored(me[b].d)'
               PROVE  me[b].attempts = row'[me[b].d].attempts /\ me[b].attempts < MaxAttempts
    BY DEF AttemptsKnown, Busy, Stored
  <2>1. me[b].d \in Deliveries
    BY TypeParts DEF Busy, Targets
  <2>2. Stored(me[b].d) /\ row'[me[b].d].attempts = row[me[b].d].attempts
    BY <2>1 DEF SameCounts, Stored
  <2> QED
    BY <2>2 DEF CountInv, AttemptsKnown
<1>2. \A d \in Deliveries : Unrecorded(d)' <=> Unrecorded(d)
  BY DEF Unrecorded, At
<1> QED
  BY <1>1, <1>2, CountFrame

LEMMA CountStep == TypeOK /\ OneInstance /\ FlightInv /\ CountInv /\ [Next]_vars => CountInv'
<1> SUFFICES ASSUME TypeOK, OneInstance, FlightInv, CountInv, [Next]_vars PROVE CountInv'
  OBVIOUS
<1>0. /\ row \in [Deliveries -> Rows] /\ me \in [Actors -> ActorStates] /\ Targets(me) /\ sends \in [Deliveries -> Nat]
      /\ erasure \in Erasures /\ crashes \in Nat /\ Deliveries \subseteq Actors /\ Workers \subseteq Actors
  BY TypeParts DEF Actors
<1>1. ASSUME NEW d \in Deliveries, BeginSomehow(d) PROVE CountInv'
  <2>1. /\ me'[d].pc = "enqueue" /\ (\A b \in Actors \ {d} : me'[b] = me[b]) /\ At(d, "idle")
        /\ row' = row /\ sends' = sends /\ crashes' = crashes
    BY <1>0, <1>1, BeginMoves, BegunTypes DEF ghosts, people
  <2> QED
    BY <1>0, <2>1, CountStops, SameRowsCount DEF UnderWay, At
<1>2. ASSUME NEW d \in Deliveries, Enqueue(d) PROVE CountInv'
  <2>0. d \in Actors /\ At(d, "enqueue") /\ sends' = sends /\ crashes' = crashes
    BY <1>0, <1>2 DEF Enqueue, people
  <2>1. CASE hook = "gone"
    <3>1. Leave(d) /\ row' = row
      BY <1>2, <2>1 DEF Enqueue
    <3>2. me'[d].pc = "idle" /\ \A b \in Actors \ {d} : me'[b] = me[b]
      BY <2>0, <3>1, LeaveMoves, IdleTypes
    <3> QED
      BY <2>0, <3>1, <3>2, CountStops, SameRowsCount DEF UnderWay, At
  <2>2. CASE hook # "gone"
    <3>1. /\ row' = [row EXCEPT ![d] = [status |-> "PENDING", attempts |-> 0, next |-> FirstRetry(me[d].retry),
                                        lead |-> me[d].lead, retry |-> me[d].retry]]
          /\ me' = [me EXCEPT ![d].pc = "attempt"]
      BY <1>2, <2>2 DEF Enqueue
    <3>2. me'[d].pc = "attempt" /\ \A b \in Actors \ {d} : me'[b] = me[b]
      BY <1>0, <3>1 DEF ActorStates
    <3>3. row'[d].status = "PENDING" /\ row'[d].attempts = 0 /\ \A e \in Deliveries \ {d} : row'[e] = row[e]
      BY <1>0, <3>1
    <3>4. row[d].status = "NONE" /\ sends[d] = 0
      BY <2>0 DEF At, FlightInv, CountInv
    <3>5. AttemptsKnown'
      <4> SUFFICES ASSUME NEW b \in Actors, me'[b].pc \in UnderWay, Stored(me[b].d)'
                   PROVE  me'[b].attempts = row'[me'[b].d].attempts /\ me'[b].attempts < MaxAttempts
        BY DEF AttemptsKnown, Busy, Stored
      <4>1. b # d /\ me'[b] = me[b] /\ Busy(b)
        BY <3>2 DEF UnderWay, Busy
      <4>2. me[b].d \in Deliveries /\ me[b].d # d
        BY <1>0, <3>4, <4>1 DEF FlightInv, Targets, Busy
      <4>3. row'[me[b].d] = row[me[b].d] /\ Stored(me[b].d)
        BY <3>3, <4>1, <4>2 DEF Stored
      <4> QED
        BY <4>1, <4>3 DEF CountInv, AttemptsKnown
    <3>6. RowsBounded'
      BY <3>3 DEF CountInv, RowsBounded, Stored
    <3>7. SendsBounded'
      <4> SUFFICES ASSUME NEW e \in Deliveries, Stored(e)'
                   PROVE  /\ sends[e] <= row'[e].attempts + crashes + 1
                          /\ ~Unrecorded(e)' => sends[e] <= row'[e].attempts + crashes
        BY <2>0 DEF SendsBounded
      <4>1. CASE e = d
        BY <1>0, <3>3, <3>4, <4>1
      <4>2. CASE e # d
        <5>1. row'[e] = row[e] /\ Stored(e)
          BY <3>3, <4>2 DEF Stored
        <5>2. Unrecorded(e) => Unrecorded(e)'
          BY <2>0, <3>2 DEF Unrecorded, At
        <5> QED
          BY <5>1, <5>2 DEF CountInv, SendsBounded
      <4> QED
        BY <4>1, <4>2
    <3>8. \A e \in Deliveries : row'[e].status = "NONE" => sends'[e] = 0
      BY <2>0, <3>3 DEF CountInv
    <3> QED
      BY <3>5, <3>6, <3>7, <3>8 DEF CountInv
  <2> QED
    BY <2>1, <2>2
<1>3. ASSUME NEW a \in Actors, NEW d \in Deliveries, NEW retry \in BOOLEAN, Attempt(a, d, retry), me[a].pc \notin UnderWay,
             row' = row, sends' = sends, crashes' = crashes
      PROVE  CountInv'
  <2>0. \A b \in Actors \ {a} : me'[b] = me[b]
    BY <1>0, <1>3, AttemptMoves
  <2>1. CASE me'[a] = Onward(a)
    <3>1. me'[a].pc \in {"idle", "pass"}
      BY <2>1, OnwardTypes
    <3> QED
      BY <1>3, <2>0, <3>1, CountStops, SameRowsCount DEF UnderWay, At
  <2>2. CASE me'[a] = Attempting(a, d, retry) /\ Stored(d) /\ row[d].status \notin Finished
    <3>1. me'[a].d = d /\ me'[a].attempts = row[d].attempts
      BY <2>2, AttemptingTypes
    <3>2. row[d].status \in Unsent
      BY <1>0, <2>2 DEF Stored, Finished, Unsent, Rows, Statuses
    <3>3. row[d].attempts < MaxAttempts
      BY <2>2, <3>2 DEF CountInv, RowsBounded
    <3>4. AttemptsKnown'
      <4> SUFFICES ASSUME NEW b \in Actors, me'[b].pc \in UnderWay, Stored(me'[b].d)
                   PROVE  me'[b].attempts = row[me'[b].d].attempts /\ me'[b].attempts < MaxAttempts
        BY <1>3 DEF AttemptsKnown, Busy, Stored
      <4>1. CASE b = a
        BY <3>1, <3>3, <4>1
      <4>2. CASE b # a
        BY <2>0, <4>2 DEF CountInv, AttemptsKnown, Busy
      <4> QED
        BY <4>1, <4>2
    <3>5. \A e \in Deliveries : Unrecorded(e) => Unrecorded(e)'
      BY <1>3, <2>0 DEF Unrecorded, At, UnderWay
    <3> QED
      BY <1>3, <3>4, <3>5, CountFrame, SameRowsCount
  <2> QED
    BY <1>3, <2>1, <2>2, AttemptMoves
<1>4. ASSUME NEW a \in Actors, Send(a) PROVE CountInv'
  <2> DEFINE d == me[a].d
  <2>0. d \in Deliveries /\ At(a, "send") /\ Busy(a) /\ row' = row /\ crashes' = crashes /\ sends' = [sends EXCEPT ![d] = @ + 1]
    BY <1>0, <1>4 DEF Send, At, Targets, UnderWay, Busy, ghosts, people
  <2>1. PICK ok \in BOOLEAN : me' = [me EXCEPT ![a].pc = "record", ![a].ok = ok]
    BY <1>4 DEF Send
  <2>2. /\ me'[a].pc = "record" /\ me'[a].d = d /\ me'[a].attempts = me[a].attempts
        /\ \A b \in Actors \ {a} : me'[b] = me[b]
    BY <1>0, <2>1 DEF ActorStates
  <2>3. ~Unrecorded(d)
    BY <2>0 DEF Unrecorded, FlightInv, Busy, UnderWay, At
  <2>4. row[d].status # "NONE"
    BY <2>0 DEF FlightInv
  <2> HIDE DEF d
  <2>5. AttemptsKnown'
    <3> SUFFICES ASSUME NEW b \in Actors, me'[b].pc \in UnderWay, Stored(me'[b].d)
                 PROVE  me'[b].attempts = row[me'[b].d].attempts /\ me'[b].attempts < MaxAttempts
      BY <2>0 DEF AttemptsKnown, Busy, Stored
    <3>1. Busy(b) /\ me'[b].d = me[b].d /\ me'[b].attempts = me[b].attempts
      BY <2>0, <2>2 DEF d, Busy
    <3> QED
      BY <3>1 DEF CountInv, AttemptsKnown
  <2>6. RowsBounded'
    BY <2>0 DEF CountInv, RowsBounded, Stored
  <2>7. SendsBounded'
    <3> SUFFICES ASSUME NEW e \in Deliveries, Stored(e)
                 PROVE  /\ sends'[e] <= row[e].attempts + crashes + 1
                        /\ ~Unrecorded(e)' => sends'[e] <= row[e].attempts + crashes
      BY <2>0 DEF SendsBounded, Stored
    <3>0. row[e].attempts \in Nat /\ sends[e] \in Nat
      BY <1>0 DEF Rows
    <3>1. CASE e = d
      <4>1. Unrecorded(e)'
        BY <2>2, <3>1 DEF Unrecorded, At
      <4>2. sends[e] <= row[e].attempts + crashes
        BY <2>3, <3>1 DEF CountInv, SendsBounded
      <4>3. sends[e] + 1 <= row[e].attempts + crashes + 1
        BY <1>0, <3>0, <4>2
      <4>4. sends'[e] = sends[e] + 1
        BY <1>0, <2>0, <3>1
      <4> QED
        BY <4>1, <4>3, <4>4
    <3>2. CASE e # d
      <4>1. sends'[e] = sends[e]
        BY <1>0, <2>0, <3>2
      <4>2. Unrecorded(e) => Unrecorded(e)'
        BY <2>0, <2>2 DEF Unrecorded, At
      <4> QED
        BY <4>1, <4>2 DEF CountInv, SendsBounded
    <3> QED
      BY <3>1, <3>2
  <2>8. \A e \in Deliveries : row'[e].status = "NONE" => sends'[e] = 0
    BY <1>0, <2>0, <2>4 DEF CountInv
  <2> QED
    BY <2>5, <2>6, <2>7, <2>8 DEF CountInv
<1>5. ASSUME NEW a \in Actors, Throw(a), ~Stored(me[a].d) PROVE CountInv'
  <2>1. /\ me'[a].pc = "idle" /\ (\A b \in Actors \ {a} : me'[b] = me[b]) /\ row' = row /\ sends' = sends
        /\ crashes' = crashes
    BY <1>5, LeaveMoves, IdleTypes DEF Throw, ghosts, people
  <2> QED
    BY <1>5, <2>1, CountStops, SameRowsCount DEF UnderWay, Stored
<1>6. ASSUME NEW a \in Actors, Record(a) PROVE CountInv'
  <2> DEFINE d == me[a].d
  <2>0. d \in Deliveries /\ Busy(a)
    BY <1>0, <1>6 DEF Record, At, Targets, UnderWay, Busy
  <2>1. CASE Stored(d)
    <3>1. row' = [row EXCEPT ![d] = Outcome(a)] /\ GoOn(a) /\ sends' = sends /\ crashes' = crashes
      BY <1>6, <2>1 DEF Record, people
    <3>2. me'[a].pc \in {"idle", "pass"} /\ \A b \in Actors \ {a} : me'[b] = me[b]
      BY <3>1, GoOnMoves, OnwardTypes
    <3>3. me[a].attempts = row[d].attempts /\ me[a].attempts < MaxAttempts /\ me[a].attempts \in Nat
      BY <1>0, <2>0, <2>1 DEF CountInv, AttemptsKnown, ActorStates
    <3>4. /\ row'[d].attempts = me[a].attempts + 1 /\ row'[d].status \in {"SUCCEEDED", "EXHAUSTED", "FAILED"}
          /\ row'[d].status = "FAILED" => ~(me[a].attempts + 1 >= MaxAttempts)
      BY <1>0, <2>0, <3>1, OutcomeTypes
    <3>5. \A e \in Deliveries \ {d} : row'[e] = row[e]
      BY <1>0, <3>1
    <3>6. \A b \in Actors \ {a} : Busy(b) => me[b].d # d
      BY <2>0 DEF FlightInv
    <3>7. \A e \in Deliveries \ {d} : Unrecorded(e) => Unrecorded(e)'
      BY <2>0, <3>2 DEF Unrecorded, At
    <3> HIDE DEF d
    <3>8. AttemptsKnown'
      <4> SUFFICES ASSUME NEW b \in Actors, me'[b].pc \in UnderWay, Stored(me[b].d)'
                   PROVE  me'[b].attempts = row'[me'[b].d].attempts /\ me'[b].attempts < MaxAttempts
        BY DEF AttemptsKnown, Busy, Stored
      <4>1. b # a /\ me'[b] = me[b] /\ Busy(b)
        BY <3>2 DEF UnderWay, Busy
      <4>2. me[b].d \in Deliveries /\ me[b].d # d
        BY <1>0, <3>6, <4>1 DEF Targets, Busy
      <4>3. row'[me[b].d] = row[me[b].d] /\ Stored(me[b].d)
        BY <3>5, <4>1, <4>2 DEF Stored
      <4> QED
        BY <4>1, <4>3 DEF CountInv, AttemptsKnown
    <3>9. RowsBounded'
      <4> SUFFICES ASSUME NEW e \in Deliveries, Stored(e)'
                   PROVE  row'[e].attempts <= MaxAttempts /\ (row'[e].status \in Unsent => row'[e].attempts < MaxAttempts)
        BY DEF RowsBounded
      <4>1. CASE e = d
        <5>1. me[a].attempts + 1 <= MaxAttempts /\ (~(me[a].attempts + 1 >= MaxAttempts) => me[a].attempts + 1 < MaxAttempts)
          BY <3>3
        <5> QED
          BY <3>4, <4>1, <5>1 DEF Unsent
      <4>2. CASE e # d
        BY <3>5, <4>2 DEF CountInv, RowsBounded, Stored
      <4> QED
        BY <4>1, <4>2
    <3>10. SendsBounded'
      <4> SUFFICES ASSUME NEW e \in Deliveries, Stored(e)'
                   PROVE  /\ sends[e] <= row'[e].attempts + crashes + 1
                          /\ ~Unrecorded(e)' => sends[e] <= row'[e].attempts + crashes
        BY <3>1 DEF SendsBounded
      <4>1. CASE e = d
        <5>1. sends[e] <= row[d].attempts + crashes + 1 /\ sends[e] \in Nat
          BY <1>0, <2>1, <4>1 DEF CountInv, SendsBounded, d
        <5>2. sends[e] <= (me[a].attempts + 1) + crashes /\ sends[e] <= (me[a].attempts + 1) + crashes + 1
          BY <1>0, <3>3, <5>1
        <5> QED
          BY <3>4, <4>1, <5>2
      <4>2. CASE e # d
        <5>1. row'[e] = row[e] /\ Stored(e)
          BY <3>5, <4>2 DEF Stored
        <5> QED
          BY <3>7, <4>2, <5>1 DEF CountInv, SendsBounded
      <4> QED
        BY <4>1, <4>2
    <3>11. \A e \in Deliveries : row'[e].status = "NONE" => sends'[e] = 0
      BY <3>1, <3>4, <3>5 DEF CountInv
    <3> QED
      BY <3>8, <3>9, <3>10, <3>11 DEF CountInv
  <2> QED
    BY <1>5, <1>6, <2>1 DEF Record
<1>7. ASSUME NEW a \in Actors, Park(a) PROVE CountInv'
  <2> DEFINE d == me[a].d
  <2>0. d \in Deliveries /\ Busy(a) /\ At(a, "park")
    BY <1>0, <1>7 DEF Park, At, Targets, UnderWay, Busy
  <2>1. CASE Stored(d)
    <3>1. row' = [row EXCEPT ![d].status = "FAILED", ![d].next = "never"] /\ GoOn(a) /\ sends' = sends /\ crashes' = crashes
      BY <1>7, <2>1 DEF Park, ghosts, people
    <3>2. me'[a].pc \in {"idle", "pass"} /\ \A b \in Actors \ {a} : me'[b] = me[b]
      BY <3>1, GoOnMoves, OnwardTypes
    <3>3. row'[d].status = "FAILED" /\ row'[d].attempts = row[d].attempts /\ \A e \in Deliveries \ {d} : row'[e] = row[e]
      BY <1>0, <2>0, <3>1 DEF Rows
    <3>4. row[d].attempts < MaxAttempts
      BY <2>0, <2>1 DEF CountInv, AttemptsKnown
    <3>5. SameCounts
      BY <2>1, <3>3, <3>4 DEF SameCounts, Stored, CountInv, RowsBounded
    <3> QED
      BY <2>0, <3>1, <3>2, <3>5, CountStops DEF At, UnderWay
  <2> QED
    BY <1>5, <1>7, <2>1 DEF Park
<1>8. ASSUME NEW w \in Workers, BeginPass(w) PROVE CountInv'
  <2>1. /\ me'[w].pc = "pass" /\ (\A b \in Actors \ {w} : me'[b] = me[b]) /\ At(w, "idle")
        /\ row' = row /\ sends' = sends /\ crashes' = crashes
    BY <1>0, <1>8 DEF BeginPass, ActorStates, ghosts, people
  <2> QED
    BY <1>0, <2>1, CountStops, SameRowsCount DEF UnderWay, At
<1>9. ASSUME NEW d \in Deliveries, FirstAttempt(d) PROVE CountInv'
  <2>1. me[d].retry \in BOOLEAN /\ me[d].pc \notin UnderWay
    BY <1>0, <1>9 DEF ActorStates, FirstAttempt, At, UnderWay
  <2> QED
    BY <1>0, <1>3, <1>9, <2>1 DEF FirstAttempt, ghosts, people
<1>10. ASSUME NEW w \in Workers, NEW d \in Deliveries, Retry(w, d) PROVE CountInv'
  <2>1. me[w].pc \notin UnderWay
    BY <1>10 DEF Retry, At, UnderWay
  <2> QED
    BY <1>0, <1>3, <1>10, <2>1 DEF Retry, ghosts, people
<1>11. ASSUME NEW w \in Workers, EndPass(w) PROVE CountInv'
  <2>1. w \in Actors /\ Idle(w).pc = "idle"
    BY <1>0, IdleTypes
  <2>2. me'[w].pc = "idle" /\ (\A b \in Actors \ {w} : me'[b] = me[b])
    BY <1>11, <2>1, LeaveMoves DEF EndPass
  <2>3. At(w, "pass") /\ row' = row /\ sends' = sends /\ crashes' = crashes
    BY <1>11 DEF EndPass, ghosts, people
  <2> QED
    BY <2>1, <2>2, <2>3, CountStops, SameRowsCount DEF UnderWay, At
<1>12. ASSUME NEW d \in Deliveries, ComeDue(d) PROVE CountInv'
  <2>1. row' = [row EXCEPT ![d].next = "now"] /\ me' = me /\ sends' = sends /\ crashes' = crashes
    BY <1>12 DEF ComeDue, ghosts, people
  <2>2. \A e \in Deliveries : row'[e].status = row[e].status /\ row'[e].attempts = row[e].attempts
    BY <1>0, <2>1 DEF Rows
  <2>3. SameCounts
    BY <2>2 DEF SameCounts, Stored, CountInv, RowsBounded
  <2> QED
    BY <2>1, <2>3, CountStays
<1>13. CASE Switch \/ FindDeliveries \/ UNCHANGED vars
  BY <1>13, CountStays, SameRowsCount DEF Switch, FindDeliveries, vars, ghosts
<1>14. CASE RemoveHook
  <2>1. \A d \in Deliveries : row'[d].status = (IF Stored(d) THEN "GONE" ELSE row[d].status)
    BY <1>0, <1>14 DEF RemoveHook, Nowhere
  <2>2. SameCounts
    BY <2>1 DEF SameCounts, Stored
  <2> QED
    BY <1>14, <2>2, CountStays DEF RemoveHook, ghosts
<1>15. CASE EraseLead
  <2>1. ASSUME NEW d \in Deliveries
        PROVE  /\ row'[d].attempts = row[d].attempts
               /\ row'[d].status = row[d].status \/ (Stored(d) /\ row'[d].status = "EXHAUSTED")
    <3>1. row[d] \in Rows
      BY <1>0
    <3>2. \/ row'[d] = row[d]
          \/ row'[d] = [row[d] EXCEPT !.lead = FALSE]
          \/ Stored(d) /\ row'[d] = [row[d] EXCEPT !.lead = FALSE, !.status = "EXHAUSTED", !.next = "never"]
      BY <1>15 DEF EraseLead
    <3>3. [row[d] EXCEPT !.lead = FALSE].status = row[d].status /\ [row[d] EXCEPT !.lead = FALSE].attempts = row[d].attempts
      BY <3>1 DEF Rows
    <3>4. /\ [row[d] EXCEPT !.lead = FALSE, !.status = "EXHAUSTED", !.next = "never"].status = "EXHAUSTED"
          /\ [row[d] EXCEPT !.lead = FALSE, !.status = "EXHAUSTED", !.next = "never"].attempts = row[d].attempts
      BY <3>1 DEF Rows
    <3> QED
      BY <3>2, <3>3, <3>4
  <2>2. SameCounts
    BY <2>1 DEF SameCounts, Stored, Unsent, CountInv, RowsBounded
  <2> QED
    BY <1>15, <2>2, CountStays DEF EraseLead, ghosts
<1>16. ASSUME NEW i \in Instances, Crash(i) PROVE CountInv'
  <2>1. \A a \in Actors : me'[a] = me[a] \/ me'[a].pc = "idle"
    BY <1>16, IdleTypes DEF Crash
  <2>2. row' = row /\ sends' = sends /\ crashes' = crashes + 1
    BY <1>16 DEF Crash, ghosts
  <2>3. AttemptsKnown'
    BY <2>1, <2>2 DEF CountInv, AttemptsKnown, Busy, Stored, UnderWay
  <2>4. RowsBounded' /\ \A d \in Deliveries : row'[d].status = "NONE" => sends'[d] = 0
    BY <2>2 DEF CountInv, RowsBounded, Stored
  <2>5. SendsBounded'
    <3> SUFFICES ASSUME NEW e \in Deliveries, Stored(e)
                 PROVE  sends[e] <= row[e].attempts + (crashes + 1) + 1 /\ sends[e] <= row[e].attempts + (crashes + 1)
      BY <2>2 DEF SendsBounded, Stored
    <3>1. row[e].attempts \in Nat /\ sends[e] \in Nat
      BY <1>0 DEF Rows
    <3>2. sends[e] <= row[e].attempts + crashes + 1
      BY DEF CountInv, SendsBounded
    <3> QED
      BY <1>0, <3>1, <3>2
  <2> QED
    BY <2>3, <2>4, <2>5 DEF CountInv
<1> QED
  BY <1>1, <1>2, <1>4, <1>6, <1>7, <1>8, <1>9, <1>10, <1>11, <1>12, <1>13, <1>14, <1>15, <1>16
     DEF Next, RequestStep, WorkerStep, AttemptStep, BeginSomehow, Actors

(* In one instance the row counts the sends but for the one under way and    *)
(* those that crashed, and MAX_ATTEMPTS bounds them.                         *)
THEOREM RowsCountSends == Spec => []SendsAreCounted
<1> DEFINE Inv == TypeOK /\ (OneInstance => FlightInv /\ CountInv)
<1>1. Init => Inv
  BY TypeInit, FlightInit, CountInit
<1>2. Inv /\ [Next]_vars => Inv'
  BY TypeStep, FlightStep, CountStep DEF OneInstance
<1>3. Inv => SendsAreCounted
  <2> SUFFICES ASSUME Inv, OneInstance, NEW d \in Deliveries, Stored(d)
               PROVE  /\ sends[d] <= row[d].attempts + crashes + (IF Unrecorded(d) THEN 1 ELSE 0)
                      /\ sends[d] <= MaxAttempts + crashes
    BY DEF SendsAreCounted
  <2>0. row[d].attempts \in Nat /\ sends[d] \in Nat /\ crashes \in Nat
    BY TypeParts DEF Rows
  <2>1. CASE Unrecorded(d)
    <3>1. PICK a \in Actors : Busy(a) /\ me[a].d = d
      BY <2>1 DEF Unrecorded, At, Busy, UnderWay
    <3>2. row[d].attempts < MaxAttempts /\ sends[d] <= row[d].attempts + crashes + 1
      BY <3>1 DEF CountInv, AttemptsKnown, SendsBounded
    <3> QED
      BY <2>0, <2>1, <3>2
  <2>2. CASE ~Unrecorded(d)
    <3>1. row[d].attempts <= MaxAttempts /\ sends[d] <= row[d].attempts + crashes
      BY <2>2 DEF CountInv, RowsBounded, SendsBounded
    <3> QED
      BY <2>0, <2>2, <3>1
  <2> QED
    BY <2>1, <2>2
<1> QED
  BY <1>1, <1>2, <1>3, PTL DEF Spec
===============================================================================
