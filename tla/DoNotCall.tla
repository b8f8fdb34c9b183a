------------------------------- MODULE DoNotCall -------------------------------
(***************************************************************************)
(* The do-not-call list of a workspace, the leads whose flag goes with it, *)
(* and everybody who writes either: adding, editing, erasing and importing *)
(* leads (leads.service.ts, leads.dedupe.ts) and the blocked numbers in    *)
(* Settings (call-settings.service.ts).                                    *)
(*                                                                         *)
(* A request reads, decides and then writes in one transaction; requests   *)
(* interleave between these.                                               *)
(***************************************************************************)
EXTENDS PhoneNumbers, FiniteSets

CONSTANTS
    LeadIds, NoLead,        \* ids for leads, each used once
    Requests,
    Spellings,      \* for each person, the digits people may type for their number
    Files,          \* the files to import: sequences of rows
    MaxBegun,       \* bound: requests when they come in turn
    MaxRaced        \* bound: requests when some are under way at once

People == DOMAIN Spellings
Typed == UNION {Spellings[p] : p \in People}
Numbers == {Normalised(digits) : digits \in Typed} \ {Unusable}
Sources == {"MANUAL", "LEAD_DELETE", "IMPORT", "SETTINGS"}

\* Any two spellings of a person's number match.
DoNotCallAssumption ==
    /\ Files \subseteq Seq([typed : Typed, dnc : BOOLEAN, name : BOOLEAN, dated : BOOLEAN])
    /\ \A p \in People : \A one, other \in {Normalised(digits) : digits \in Spellings[p]} \ {Unusable} : Stops(one, other)

ASSUME DoNotCallAssumption

VARIABLES
    lead,           \* leads: state, phone and doNotCall
    list,           \* suppressions: rows with a phone, a source and an id
    made,           \* ids given to rows of the list
    me,             \* me[r]: where request r is, what it was asked and what it has read
    begun,
    optedOut,       \* people whose number a committed import marked do-not-call
    overlapped      \* two requests have been under way at once

vars == <<lead, list, made, me, begun, optedOut, overlapped>>

Same == "SAME"      \* a flag the request leaves as it is
Unborn == [state |-> "unborn", phone |-> Unusable, dnc |-> FALSE]
Idle == [pc |-> "idle", id |-> NoLead, phone |-> Unusable, old |-> Unusable, flagged |-> FALSE, want |-> Same, moving |-> FALSE,
         read |-> {}, file |-> <<>>, wanted |-> {}]

\* A lead may be flagged and not be on the list: it was flagged before the list existed.
Init ==
    /\ \E first \in LeadIds, phone \in Numbers, flagged \in BOOLEAN :
          lead = [l \in LeadIds |-> IF l = first THEN [state |-> "live", phone |-> phone, dnc |-> flagged] ELSE Unborn]
    /\ list = {} /\ made = 0
    /\ me = [r \in Requests |-> Idle]
    /\ begun = 0
    /\ optedOut = {} /\ overlapped = FALSE

At(r, step) == me[r].pc = step
Leave(r) == me' = [me EXCEPT ![r] = Idle]
Live == {l \in LeadIds : lead[l].state = "live"}
Taken == {lead[l].phone : l \in Live}
Ids(state) == {l \in LeadIds : lead[l].state = state}

Begin(r, record) ==
    /\ At(r, "idle")
    /\ overlapped' = (overlapped \/ \E q \in Requests \ {r} : ~At(q, "idle"))
    /\ begun < IF overlapped' THEN MaxRaced ELSE MaxBegun
    /\ begun' = begun + 1
    /\ me' = [me EXCEPT ![r] = record]
    /\ UNCHANGED <<lead, list, made, optedOut>>

Rows(phones) == {row \in list : row.phone \in phones}

\* The list without some rows and with numbers added for one reason; a number that is already there for
\* it keeps its row.
Listed(rows, phones, source) ==
    rows \union {[phone |-> n, source |-> source, id |-> made + 1] :
                    n \in {n \in phones : ~\E row \in rows : row.phone = n /\ row.source = source}}

Relist(removed, phones, source) ==
    /\ list' = Listed(list \ removed, phones, source)
    /\ made' = IF list' \subseteq list THEN made ELSE made + 1

\* The marks a lead's own switch lays down and takes up.
OnlyManual == {"MANUAL"}

LeadMarkSources == {"MANUAL", "LEAD_DELETE"}

Marks(rows) == {row \in rows : row.source \in LeadMarkSources}
StandingSuppressions == {"IMPORT", "SETTINGS"}
Standing(rows) == \E row \in rows : row.source \in StandingSuppressions

-------------------------------------------------------------------------------
(* create *)

BeginCreate(r, typed, want) ==
    LET phone == Normalised(typed) IN
    /\ phone # Unusable
    /\ Begin(r, [Idle EXCEPT !.pc = "create", !.phone = phone, !.want = want, !.read = Rows({phone})])

\* Refused when another lead has the number.
Create(r) ==
    /\ At(r, "create")
    /\ IF me[r].phone \in Taken
       THEN UNCHANGED <<lead, list, made>>
       ELSE /\ \E l \in Ids("unborn") :
                 lead' = [lead EXCEPT ![l] = [state |-> "live", phone |-> me[r].phone,
                                              dnc |-> me[r].read # {} \/ me[r].want = "YES"]]
            /\ IF me[r].want = "YES" /\ Marks(me[r].read) = {}
               THEN Relist({}, {me[r].phone}, "MANUAL")
               ELSE UNCHANGED <<list, made>>
    /\ Leave(r)
    /\ UNCHANGED <<begun, optedOut, overlapped>>

-------------------------------------------------------------------------------
(* update *)

\* A number, or Unusable when none is given; a flag, or Same.
BeginUpdate(r, l, phone, want) ==
    /\ l \in Live
    /\ Begin(r, [Idle EXCEPT !.pc = "rows", !.id = l, !.want = want, !.old = lead[l].phone, !.flagged = lead[l].dnc,
                             !.moving = phone # Unusable, !.phone = IF phone = Unusable THEN lead[l].phone ELSE phone])

Moved(r) == me[r].phone # me[r].old
Wanted(r) == IF me[r].want = Same THEN me[r].flagged ELSE me[r].want = "YES"

\* A callable lead cannot be made of a number that others hold.
Refused(r, rows) ==
    /\ rows # {} /\ ~Wanted(r)
    /\ IF Moved(r) THEN me[r].want = "NO" ELSE Standing(rows) /\ me[r].flagged

ReadRows(r) ==
    /\ At(r, "rows")
    /\ IF Refused(r, Rows({me[r].phone}))
       THEN Leave(r)
       ELSE me' = [me EXCEPT ![r].pc = "update", ![r].read = Rows({me[r].phone})]
    /\ UNCHANGED <<lead, list, made, begun, optedOut, overlapped>>

\* A lead moved onto a listed number is flagged, whatever it was before.
Flag(r) == Wanted(r) \/ (me[r].read # {} /\ Moved(r))

\* Switching on leaves a mark beside any other reason; a flagged lead without a row gets one.
AddsMark(r) ==
    /\ Flag(r) /\ Marks(me[r].read) = {}
    /\ me[r].read = {} \/ (me[r].want = "YES" /\ ~me[r].flagged)

ClearsMarks(r) == ~Flag(r) /\ ~Standing(me[r].read) /\ me[r].want = "NO"

\* Nothing is written when the lead is gone, or the new number is another lead's.  The number is
\* written when it was given, the flag when it changes.
Update(r) ==
    LET l == me[r].id IN
    /\ At(r, "update")
    /\ IF l \notin Live \/ (me[r].moving /\ \E o \in Live \ {l} : lead[o].phone = me[r].phone)
       THEN UNCHANGED <<lead, list, made>>
       ELSE /\ lead' = [lead EXCEPT ![l].phone = IF me[r].moving THEN me[r].phone ELSE @,
                                    ![l].dnc = IF Flag(r) # me[r].flagged THEN Flag(r) ELSE @]
            /\ CASE AddsMark(r)    -> Relist({}, {me[r].phone}, "MANUAL")
                 [] ClearsMarks(r) -> list' = list \ Marks(me[r].read) /\ UNCHANGED made
                 [] OTHER          -> UNCHANGED <<list, made>>
    /\ Leave(r)
    /\ UNCHANGED <<begun, optedOut, overlapped>>

-------------------------------------------------------------------------------
(* remove *)

BeginErase(r, l) ==
    /\ l \in Live
    /\ Begin(r, [Idle EXCEPT !.pc = "look", !.id = l, !.phone = lead[l].phone, !.flagged = lead[l].dnc])

LookUp(r) ==
    /\ At(r, "look")
    /\ me' = [me EXCEPT ![r].pc = "erase", ![r].read = Rows({me[r].phone})]
    /\ UNCHANGED <<lead, list, made, begun, optedOut, overlapped>>

\* Erasing takes everything of the lead with it.
KeepsNothing(r) == FALSE

\* A do-not-call lead whose number nothing else holds leaves a row behind.
KeepsMark(r) == me[r].flagged /\ me[r].read = {}

Erase(r) ==
    /\ At(r, "erase")
    /\ IF KeepsMark(r) THEN Relist({}, {me[r].phone}, "LEAD_DELETE") ELSE UNCHANGED <<list, made>>
    /\ lead' = [lead EXCEPT ![me[r].id] = [Unborn EXCEPT !.state = "erased"]]
    /\ Leave(r)
    /\ UNCHANGED <<begun, optedOut, overlapped>>

-------------------------------------------------------------------------------
(* The blocked numbers in Settings *)

\* Only what this screen put on the list is read or touched.
OwnRows(rows) == {row \in rows : row.source = "SETTINGS"}

BeginSave(r, wanted) ==
    Begin(r, [Idle EXCEPT !.pc = "save", !.wanted = wanted, !.read = OwnRows(list)])

Save(r) ==
    /\ At(r, "save")
    /\ Relist({row \in me[r].read : row.phone \notin me[r].wanted}, me[r].wanted, "SETTINGS")
    /\ Leave(r)
    /\ UNCHANGED <<lead, begun, optedOut, overlapped>>

-------------------------------------------------------------------------------
(* import *)

PhoneOf(row) == Normalised(row.typed)
Readable(row) == row.name /\ PhoneOf(row) # Unusable

\* The opt-outs of the file are those of the rows it brings in.
MarkedWhenInserted(file) == {PhoneOf(file[i]) : i \in {i \in DOMAIN file : Readable(file[i]) /\ file[i].dated /\ file[i].dnc}}

\* Every opt-out of a row with a name and a number counts, whatever becomes of the row.
MarkedIn(file) == {PhoneOf(file[i]) : i \in {i \in DOMAIN file : Readable(file[i]) /\ file[i].dnc}}

\* Rows that become leads: the first of each number, unless the number is listed or another lead's.
Inserted(file, known) ==
    {i \in DOMAIN file :
        /\ Readable(file[i]) /\ file[i].dated
        /\ PhoneOf(file[i]) \notin known
        /\ ~\E j \in 1 .. i - 1 : Readable(file[j]) /\ file[j].dated /\ PhoneOf(file[j]) = PhoneOf(file[i])}

BeginImport(r, file) ==
    Begin(r, [Idle EXCEPT !.pc = "import", !.file = file, !.wanted = Taken \union {row.phone : row \in list}])

\* skipDuplicates: a number that has become another lead's meanwhile is passed over.  Then the opt-outs
\* go on the list, and onto every lead with one of their numbers.
Import(r) ==
    LET file == me[r].file
        rows == Inserted(file, me[r].wanted \union Taken)
        marked == MarkedIn(file)
    IN
    /\ At(r, "import")
    /\ \E row \in [rows -> Ids("unborn")] :
          /\ \A i, j \in rows : row[i] = row[j] => i = j
          /\ lead' = [l \in LeadIds |->
                        IF \E i \in rows : row[i] = l
                        THEN LET i == CHOOSE i \in rows : row[i] = l IN
                             [state |-> "live", phone |-> PhoneOf(file[i]), dnc |-> file[i].dnc \/ PhoneOf(file[i]) \in marked]
                        ELSE [lead[l] EXCEPT !.dnc = @ \/ lead[l].phone \in marked]]
    /\ Relist({}, marked, "IMPORT")
    /\ optedOut' = optedOut \union {p \in People : \E i \in DOMAIN file : Readable(file[i]) /\ file[i].dnc /\ file[i].typed \in Spellings[p]}
    /\ Leave(r)
    /\ UNCHANGED <<begun, overlapped>>

-------------------------------------------------------------------------------
Next ==
    \E r \in Requests :
        \/ \E typed \in Typed, want \in {"YES", Same} : BeginCreate(r, typed, want)
        \/ Create(r)
        \/ \E l \in LeadIds, phone \in Numbers \union {Unusable}, want \in {"YES", "NO", Same} : BeginUpdate(r, l, phone, want)
        \/ ReadRows(r) \/ Update(r)
        \/ (\E l \in LeadIds : BeginErase(r, l)) \/ LookUp(r) \/ Erase(r)
        \/ (\E wanted \in SUBSET Numbers : BeginSave(r, wanted)) \/ Save(r)
        \/ (\E file \in Files : BeginImport(r, file)) \/ Import(r)

Spec == Init /\ [][Next]_vars

-------------------------------------------------------------------------------
Row == [phone : Numbers, source : Sources, id : Nat]

\* The values each variable takes.
TypeOK ==
    /\ lead \in [LeadIds -> [state : {"unborn", "live", "erased"}, phone : Numbers \union {Unusable}, dnc : BOOLEAN]]
    /\ list \subseteq Row
    /\ made \in Nat
    /\ me \in [Requests -> [pc : {"idle", "create", "rows", "update", "look", "erase", "save", "import"},
                           id : LeadIds \union {NoLead}, phone : Numbers \union {Unusable}, old : Numbers \union {Unusable},
                           flagged : BOOLEAN, want : {"YES", "NO", Same}, moving : BOOLEAN,
                           read : SUBSET Row, file : Files \union {<<>>}, wanted : SUBSET Numbers]]
    /\ begun \in Nat
    /\ optedOut \subseteq People /\ overlapped \in BOOLEAN

\* The gate every call passes.
Blocked(phone) == \E row \in list : Stops(row.phone, phone)

(* An opt-out that came with a committed import stands for ever: whatever is *)
(* edited, erased, saved in Settings or imported afterwards, and in whatever *)
(* spelling that person's number comes back, a call to it is blocked.        *)
OptOutsStand ==
    \A p \in optedOut : \A typed \in Spellings[p] :
        Normalised(typed) # Unusable => Blocked(Normalised(typed))

\* Somebody holds the number back: the list, or the flag of its lead.
HeldBack(phone) == Rows({phone}) # {} \/ \E l \in Live : lead[l].phone = phone /\ lead[l].dnc

TakenBack(r, phone) ==
    \/ At(r, "save")
    \/ At(r, "update") /\ me[r].old = phone /\ (me[r].want = "NO" \/ (Moved(r) /\ Rows({phone}) = {}))

(* Do-not-call outlives the lead: requests in turn free a number only when   *)
(* its lead is switched back, its block in Settings is taken off, or the     *)
(* flag that alone held it goes to another number with its lead.             *)
HeldUntilTakenBack ==
    [][~overlapped => \A phone \in Numbers :
            HeldBack(phone) /\ ~HeldBack(phone)' => \E r \in Requests : TakenBack(r, phone)]_vars

(* When requests come in turn, a lead that was switched back to callable is  *)
(* no longer on the list for any reason: the switch takes up every mark of   *)
(* the workspace's own, or is refused.                                       *)
SwitchedBackIsCallable ==
    [][~overlapped => \A l \in LeadIds :
            lead[l].dnc /\ lead'[l].state = "live" /\ ~lead'[l].dnc =>
                \A phone \in Numbers : lead'[l].phone = phone => ~HeldBack(phone)']_vars
===============================================================================
