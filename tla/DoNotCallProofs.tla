---------------------------- MODULE DoNotCallProofs ----------------------------
(***************************************************************************)
(* What holds of DoNotCall for any leads, requests, files and spellings    *)
(* that match.                                                             *)
(***************************************************************************)
EXTENDS DoNotCall, TLAPS

USE DoNotCallAssumption DEF DoNotCallAssumption

-------------------------------------------------------------------------------
(* Requests and the list *)

LEMMA BeginsAt ==
    ASSUME DOMAIN me = Requests, NEW r \in Requests, NEW record, Begin(r, record)
    PROVE  /\ DOMAIN me' = Requests
           /\ me'[r] = record
           /\ \A q \in Requests \ {r} : me'[q] = me[q]
           /\ UNCHANGED <<lead, list, made, optedOut>>
BY DEF Begin

LEMMA LeavesAt ==
    ASSUME DOMAIN me = Requests, NEW r \in Requests, Leave(r)
    PROVE  /\ DOMAIN me' = Requests
           /\ me'[r] = Idle
           /\ \A q \in Requests \ {r} : me'[q] = me[q]
BY DEF Leave

\* Numbers are added for a reason, and only the rows named are taken off.
LEMMA Relisting ==
    ASSUME NEW removed, NEW phones, NEW source, Relist(removed, phones, source)
    PROVE  /\ list \ removed \subseteq list'
           /\ \A n \in phones : \E row \in list' : row.phone = n /\ row.source = source
<1> DEFINE rows == list \ removed
<1> DEFINE new == {n \in phones : ~\E row \in rows : row.phone = n /\ row.source = source}
<1> DEFINE Added(n) == [phone |-> n, source |-> source, id |-> made + 1]
<1>1. list' = rows \union {Added(n) : n \in new}
  BY DEF Relist, Listed
<1>2. \A n \in phones : n \in new => Added(n) \in list' /\ Added(n).phone = n /\ Added(n).source = source
  BY <1>1
<1> QED
  BY <1>1, <1>2

-------------------------------------------------------------------------------
(* Opt-outs *)

\* The row that an import wrote for somebody.
OptOutListed(p) ==
    \E row \in list :
        /\ row.source = "IMPORT"
        /\ row.phone \in {Normalised(digits) : digits \in Spellings[p]} \ {Unusable}

\* Nothing but an import writes or takes a row of an import: a save in Settings has read its own rows.
OptOutInv ==
    /\ DOMAIN me = Requests
    /\ \A p \in optedOut : p \in People /\ OptOutListed(p)
    /\ \A r \in Requests : At(r, "save") => \A row \in me[r].read : row.source = "SETTINGS"

LEMMA OptOutInit == Init => OptOutInv
BY DEF Init, OptOutInv, Idle, At

\* Rows of an import are kept and no opt-out is new.
LEMMA OptOutKept ==
    ASSUME OptOutInv, UNCHANGED optedOut, \A row \in list : row.source = "IMPORT" => row \in list'
    PROVE  \A p \in optedOut' : p \in People /\ OptOutListed(p)'
BY DEF OptOutInv, OptOutListed

LEMMA OptOutStep == OptOutInv /\ [Next]_vars => OptOutInv'
<1> SUFFICES ASSUME OptOutInv, [Next]_vars PROVE OptOutInv'
  OBVIOUS
<1>0. DOMAIN me = Requests
  BY DEF OptOutInv
<1>1. ASSUME NEW r \in Requests, NEW record, Begin(r, record), record.pc = "save" => \A row \in record.read : row.source = "SETTINGS"
      PROVE  OptOutInv'
  BY <1>0, <1>1, BeginsAt, OptOutKept DEF OptOutInv, At
<1>2. ASSUME NEW r \in Requests, Leave(r), UNCHANGED optedOut, \A row \in list : row.source = "IMPORT" => row \in list'
      PROVE  OptOutInv'
  BY <1>0, <1>2, LeavesAt, OptOutKept DEF OptOutInv, At, Idle
<1>3. ASSUME NEW r \in Requests, NEW typed \in Typed, NEW want \in {"YES", Same}, BeginCreate(r, typed, want) PROVE OptOutInv'
  BY <1>1, <1>3 DEF BeginCreate, Idle
<1>4. ASSUME NEW r \in Requests, Create(r) PROVE OptOutInv'
  <2>1. \A row \in list : row \in list'
    BY <1>4, Relisting DEF Create
  <2> QED
    BY <1>2, <1>4, <2>1 DEF Create
<1>5. ASSUME NEW r \in Requests, NEW l \in LeadIds, NEW phone \in Numbers \union {Unusable}, NEW want \in {"YES", "NO", Same},
             BeginUpdate(r, l, phone, want)
      PROVE  OptOutInv'
  BY <1>1, <1>5 DEF BeginUpdate, Idle
<1>6. ASSUME NEW r \in Requests, ReadRows(r) PROVE OptOutInv'
  <2>1. CASE Leave(r)
    BY <1>2, <1>6, <2>1 DEF ReadRows
  <2>2. CASE me' = [me EXCEPT ![r].pc = "update", ![r].read = Rows({me[r].phone})]
    BY <1>0, <1>6, <2>2 DEF ReadRows, OptOutInv, OptOutListed, At
  <2> QED
    BY <1>6, <2>1, <2>2 DEF ReadRows
<1>7. ASSUME NEW r \in Requests, Update(r) PROVE OptOutInv'
  <2>1. \A row \in list : row.source = "IMPORT" => row \in list'
    BY <1>7, Relisting DEF Update, Marks, LeadMarkSources
  <2> QED
    BY <1>2, <1>7, <2>1 DEF Update
<1>8. ASSUME NEW r \in Requests, NEW l \in LeadIds, BeginErase(r, l) PROVE OptOutInv'
  BY <1>1, <1>8 DEF BeginErase, Idle
<1>9. ASSUME NEW r \in Requests, LookUp(r) PROVE OptOutInv'
  BY <1>0, <1>9 DEF LookUp, OptOutInv, OptOutListed, At
<1>10. ASSUME NEW r \in Requests, Erase(r) PROVE OptOutInv'
  <2>1. \A row \in list : row \in list'
    BY <1>10, Relisting DEF Erase
  <2> QED
    BY <1>2, <1>10, <2>1 DEF Erase
<1>11. ASSUME NEW r \in Requests, NEW wanted \in SUBSET Numbers, BeginSave(r, wanted) PROVE OptOutInv'
  BY <1>1, <1>11 DEF BeginSave, OwnRows, Idle
<1>12. ASSUME NEW r \in Requests, Save(r) PROVE OptOutInv'
  <2>1. \A row \in list : row.source = "IMPORT" => row \in list'
    BY <1>12, Relisting DEF Save, OptOutInv, At
  <2> QED
    BY <1>2, <1>12, <2>1 DEF Save
<1>13. ASSUME NEW r \in Requests, NEW file \in Files, BeginImport(r, file) PROVE OptOutInv'
  BY <1>1, <1>13 DEF BeginImport, Idle
<1>14. ASSUME NEW r \in Requests, Import(r) PROVE OptOutInv'
  <2> DEFINE file == me[r].file
  <2> DEFINE New(p) == \E i \in DOMAIN file : Readable(file[i]) /\ file[i].dnc /\ file[i].typed \in Spellings[p]
  <2>1. Relist({}, MarkedIn(file), "IMPORT") /\ optedOut' = optedOut \union {p \in People : New(p)} /\ Leave(r)
    BY <1>14 DEF Import
  <2>2. list \subseteq list' /\ \A n \in MarkedIn(file) : \E row \in list' : row.phone = n /\ row.source = "IMPORT"
    BY <2>1, Relisting
  <2>3. ASSUME NEW p \in People, New(p) PROVE OptOutListed(p)'
    <3>1. PICK i \in DOMAIN file : Readable(file[i]) /\ file[i].dnc /\ file[i].typed \in Spellings[p]
      BY <2>3
    <3>2. PhoneOf(file[i]) \in MarkedIn(file) /\ PhoneOf(file[i]) # Unusable /\ PhoneOf(file[i]) = Normalised(file[i].typed)
      BY <3>1 DEF MarkedIn, Readable, PhoneOf
    <3> QED
      BY <2>2, <3>1, <3>2 DEF OptOutListed
  <2>4. \A p \in optedOut : p \in People /\ OptOutListed(p)'
    BY <2>2 DEF OptOutInv, OptOutListed
  <2>5. \A q \in Requests : At(q, "save")' => \A row \in me'[q].read : row.source = "SETTINGS"
    BY <1>0, <2>1, LeavesAt DEF OptOutInv, At, Idle
  <2> QED
    BY <1>0, <2>1, <2>3, <2>4, <2>5, LeavesAt DEF OptOutInv
<1>15. CASE UNCHANGED vars
  BY <1>15 DEF vars, OptOutInv, OptOutListed, At
<1> QED
  BY <1>3, <1>4, <1>5, <1>6, <1>7, <1>8, <1>9, <1>10, <1>11, <1>12, <1>13, <1>14, <1>15 DEF Next

(* An opt-out that came with a committed import stands for ever, in whatever *)
(* spelling the number comes back.                                           *)
THEOREM ImportedOptOutsStand == Spec => []OptOutsStand
<1>1. ASSUME OptOutInv PROVE OptOutsStand
  <2> SUFFICES ASSUME NEW p \in optedOut, NEW typed \in Spellings[p], Normalised(typed) # Unusable PROVE Blocked(Normalised(typed))
    BY DEF OptOutsStand
  <2>1. PICK row \in list : row.phone \in {Normalised(digits) : digits \in Spellings[p]} \ {Unusable}
    BY <1>1 DEF OptOutInv, OptOutListed
  <2>2. Stops(row.phone, Normalised(typed))
    BY <1>1, <2>1 DEF OptOutInv
  <2> QED
    BY <2>2 DEF Blocked
<1> QED
  BY OptOutInit, OptOutStep, <1>1, PTL DEF Spec

-------------------------------------------------------------------------------
(* Types *)

AnyNumber == Numbers \union {Unusable}
LeadRow == [state : {"unborn", "live", "erased"}, phone : AnyNumber, dnc : BOOLEAN]
Asked == [pc : {"idle", "create", "rows", "update", "look", "erase", "save", "import"},
          id : LeadIds \union {NoLead}, phone : AnyNumber, old : AnyNumber, flagged : BOOLEAN, want : {"YES", "NO", Same},
          moving : BOOLEAN, read : SUBSET Row, file : Files \union {<<>>}, wanted : SUBSET Numbers]

LEMMA IdleAsked == Idle \in Asked
BY DEF Idle, Asked, AnyNumber, Same

LEMMA TypedNumbers == \A typed \in Typed : Normalised(typed) # Unusable => Normalised(typed) \in Numbers
BY DEF Numbers

\* The rows of a file bring numbers.
LEMMA FileRows ==
    ASSUME NEW file \in Files \union {<<>>}, NEW i \in DOMAIN file
    PROVE  /\ i \in Nat /\ 1 .. i - 1 \subseteq DOMAIN file
           /\ file[i].dnc \in BOOLEAN
           /\ Readable(file[i]) => PhoneOf(file[i]) \in Numbers
<1>1. file \in Seq([typed : Typed, dnc : BOOLEAN, name : BOOLEAN, dated : BOOLEAN])
  <2>1. file # <<>>
    OBVIOUS
  <2> QED
    BY <2>1
<1>2. DOMAIN file = 1 .. Len(file) /\ Len(file) \in Nat
  BY <1>1
<1>3. \A S : file \in Seq(S) => file[i] \in S
  BY <1>2
<1>4. file[i] \in [typed : Typed, dnc : BOOLEAN, name : BOOLEAN, dated : BOOLEAN]
  BY <1>1, <1>3
<1> QED
  BY <1>2, <1>4, TypedNumbers DEF Readable, PhoneOf

LEMMA RelistTypes ==
    ASSUME list \subseteq Row, made \in Nat, NEW removed, NEW phones \in SUBSET Numbers, NEW source \in Sources,
           Relist(removed, phones, source)
    PROVE  list' \subseteq Row /\ made' \in Nat
<1> DEFINE rows == list \ removed
<1>1. \A n \in phones : [phone |-> n, source |-> source, id |-> made + 1] \in Row
  BY DEF Row
<1>2. list' = rows \union {[phone |-> n, source |-> source, id |-> made + 1] :
                              n \in {n \in phones : ~\E row \in rows : row.phone = n /\ row.source = source}}
  BY DEF Relist, Listed
<1>3. made' \in Nat
  BY DEF Relist
<1> QED
  BY <1>1, <1>2, <1>3

\* A live lead has a number, and so has a request about one.
Usable ==
    /\ \A l \in Live : lead[l].phone \in Numbers
    /\ \A r \in Requests : me[r].pc \in {"create", "rows", "update", "look", "erase"} => me[r].phone \in Numbers

TypeInv == TypeOK /\ Usable

LEMMA TypeParts ==
    TypeOK <=> /\ lead \in [LeadIds -> LeadRow] /\ list \subseteq Row /\ made \in Nat
               /\ me \in [Requests -> Asked] /\ begun \in Nat /\ optedOut \subseteq People /\ overlapped \in BOOLEAN
BY DEF TypeOK, LeadRow, Asked, AnyNumber

\* A request begins with a record, or leaves.
LEMMA BeginTypes ==
    ASSUME TypeInv, NEW r \in Requests, NEW record \in Asked, Begin(r, record),
           record.pc \in {"create", "rows", "update", "look", "erase"} => record.phone \in Numbers
    PROVE  TypeInv'
<1>1. me' \in [Requests -> Asked] /\ begun' \in Nat /\ overlapped' \in BOOLEAN /\ UNCHANGED <<lead, list, made, optedOut>>
  BY TypeParts DEF Begin, TypeInv
<1>2. \A q \in Requests : me'[q] = IF q = r THEN record ELSE me[q]
  BY TypeParts DEF Begin, TypeInv
<1>3. Usable'
  BY <1>1, <1>2 DEF TypeInv, Usable, Live
<1> QED
  BY <1>1, <1>3 DEF TypeInv, TypeOK, LeadRow, Asked, AnyNumber

LEMMA LeaveTypes ==
    ASSUME TypeInv, NEW r \in Requests, Leave(r), UNCHANGED <<begun, overlapped>>,
           lead' \in [LeadIds -> LeadRow], \A l \in Live' : lead'[l].phone \in Numbers,
           list' \subseteq Row, made' \in Nat, optedOut' \subseteq People
    PROVE  TypeInv'
<1>1. me' \in [Requests -> Asked]
  BY TypeParts, IdleAsked DEF Leave, TypeInv
<1>2. \A q \in Requests : me'[q] = IF q = r THEN Idle ELSE me[q]
  BY TypeParts DEF Leave, TypeInv
<1>3. Usable'
  BY <1>2 DEF TypeInv, Usable, Idle
<1>4. begun' \in Nat /\ overlapped' \in BOOLEAN
  BY DEF TypeInv, TypeOK
<1> QED
  BY <1>1, <1>3, <1>4 DEF TypeInv, TypeOK, LeadRow, Asked, AnyNumber

LEMMA TypeInit == Init => TypeInv
<1> SUFFICES ASSUME Init PROVE TypeInv
  OBVIOUS
<1>1. lead \in [LeadIds -> LeadRow] /\ \A l \in Live : lead[l].phone \in Numbers
  BY DEF Init, LeadRow, AnyNumber, Unborn, Live
<1>2. me \in [Requests -> Asked] /\ \A r \in Requests : me[r].pc = "idle"
  BY IdleAsked DEF Init, Idle
<1>3. list \subseteq Row /\ made \in Nat /\ begun \in Nat /\ optedOut \subseteq People /\ overlapped \in BOOLEAN
  BY DEF Init
<1> QED
  BY <1>1, <1>2, <1>3, TypeParts DEF TypeInv, Usable

LEMMA TypeStep == TypeInv /\ [Next]_vars => TypeInv'
<1> SUFFICES ASSUME TypeInv, [Next]_vars PROVE TypeInv'
  OBVIOUS
<1>0. /\ lead \in [LeadIds -> LeadRow] /\ list \subseteq Row /\ made \in Nat
      /\ me \in [Requests -> Asked] /\ begun \in Nat /\ optedOut \subseteq People /\ overlapped \in BOOLEAN
      /\ \A l \in Live : lead[l].phone \in Numbers
  BY TypeParts DEF TypeInv, Usable
<1>1. ASSUME NEW r \in Requests, NEW typed \in Typed, NEW want \in {"YES", Same}, BeginCreate(r, typed, want) PROVE TypeInv'
  <2> DEFINE record == [Idle EXCEPT !.pc = "create", !.phone = Normalised(typed), !.want = want, !.read = Rows({Normalised(typed)})]
  <2>1. Normalised(typed) \in Numbers
    BY <1>1, TypedNumbers DEF BeginCreate
  <2>2. record \in Asked /\ record.phone \in Numbers
    BY <1>0, <2>1, IdleAsked DEF Asked, AnyNumber, Rows, Same
  <2> QED
    BY <1>1, <2>2, BeginTypes DEF BeginCreate
<1>2. ASSUME NEW r \in Requests, Create(r) PROVE TypeInv'
  <2>1. me[r].phone \in Numbers /\ me[r].read \subseteq Row
    BY <1>0, <1>2 DEF Create, At, TypeInv, Usable, Asked
  <2>2. lead' \in [LeadIds -> LeadRow] /\ \A l \in Live' : lead'[l].phone \in Numbers
    <3>1. CASE UNCHANGED lead
      BY <1>0, <3>1 DEF Live
    <3>2. ASSUME NEW l \in LeadIds,
                 lead' = [lead EXCEPT ![l] = [state |-> "live", phone |-> me[r].phone,
                                              dnc |-> me[r].read # {} \/ me[r].want = "YES"]]
          PROVE  lead' \in [LeadIds -> LeadRow] /\ \A k \in Live' : lead'[k].phone \in Numbers
      BY <1>0, <2>1, <3>2 DEF LeadRow, AnyNumber, Live
    <3> QED
      BY <1>2, <3>1, <3>2 DEF Create, Ids
  <2>3. list' \subseteq Row /\ made' \in Nat
    BY <1>0, <1>2, <2>1, RelistTypes DEF Create, Sources
  <2> QED
    BY <1>0, <1>2, <2>2, <2>3, LeaveTypes DEF Create
<1>3. ASSUME NEW r \in Requests, NEW l \in LeadIds, NEW phone \in AnyNumber, NEW want \in {"YES", "NO", Same},
             BeginUpdate(r, l, phone, want)
      PROVE  TypeInv'
  <2> DEFINE number == IF phone = Unusable THEN lead[l].phone ELSE phone
  <2> DEFINE record == [Idle EXCEPT !.pc = "rows", !.id = l, !.want = want, !.old = lead[l].phone, !.flagged = lead[l].dnc,
                                    !.moving = phone # Unusable, !.phone = number]
  <2>1. number \in Numbers /\ lead[l].phone \in AnyNumber /\ lead[l].dnc \in BOOLEAN /\ (phone # Unusable) \in BOOLEAN
    BY <1>0, <1>3 DEF BeginUpdate, AnyNumber, LeadRow
  <2>2. record \in Asked /\ record.phone \in Numbers
    BY <2>1, IdleAsked DEF Asked, AnyNumber
  <2> QED
    BY <1>3, <2>2, BeginTypes DEF BeginUpdate
<1>4. ASSUME NEW r \in Requests, ReadRows(r) PROVE TypeInv'
  <2>1. CASE Leave(r)
    BY <1>0, <1>4, <2>1, LeaveTypes DEF ReadRows, Live
  <2>2. CASE me' = [me EXCEPT ![r].pc = "update", ![r].read = Rows({me[r].phone})]
    <3>1. me[r] \in Asked /\ me[r].phone \in Numbers /\ Rows({me[r].phone}) \subseteq Row
      BY <1>0, <1>4 DEF ReadRows, At, TypeInv, Usable, Rows
    <3>2. [me[r] EXCEPT !.pc = "update", !.read = Rows({me[r].phone})] \in Asked
      BY <3>1 DEF Asked
    <3>3. me' \in [Requests -> Asked] /\ \A q \in Requests : me'[q].phone = me[q].phone /\ (q # r => me'[q] = me[q])
      BY <1>0, <2>2, <3>1, <3>2 DEF Asked
    <3>4. Usable'
      BY <1>4, <3>1, <3>3 DEF ReadRows, TypeInv, Usable, Live
    <3> QED
      BY <1>0, <1>4, <3>3, <3>4 DEF ReadRows, TypeInv, TypeOK, Asked, AnyNumber
  <2> QED
    BY <1>4, <2>1, <2>2 DEF ReadRows
<1>5. ASSUME NEW r \in Requests, Update(r) PROVE TypeInv'
  <2>1. me[r].phone \in Numbers /\ me[r].flagged \in BOOLEAN /\ Flag(r) \in BOOLEAN
    BY <1>0, <1>5 DEF Update, At, TypeInv, Usable, Asked, Flag
  <2>2. lead' \in [LeadIds -> LeadRow] /\ \A l \in Live' : lead'[l].phone \in Numbers
    BY <1>0, <1>5, <2>1 DEF Update, LeadRow, AnyNumber, Live
  <2>3. list' \subseteq Row /\ made' \in Nat
    BY <1>0, <1>5, <2>1, RelistTypes DEF Update, Sources
  <2> QED
    BY <1>0, <1>5, <2>2, <2>3, LeaveTypes DEF Update
<1>6. ASSUME NEW r \in Requests, NEW l \in LeadIds, BeginErase(r, l) PROVE TypeInv'
  <2> DEFINE record == [Idle EXCEPT !.pc = "look", !.id = l, !.phone = lead[l].phone, !.flagged = lead[l].dnc]
  <2>1. lead[l].phone \in Numbers /\ lead[l].dnc \in BOOLEAN
    BY <1>0, <1>6 DEF BeginErase, LeadRow
  <2>2. record \in Asked /\ record.phone \in Numbers
    BY <2>1, IdleAsked DEF Asked, AnyNumber
  <2> QED
    BY <1>6, <2>2, BeginTypes DEF BeginErase
<1>7. ASSUME NEW r \in Requests, LookUp(r) PROVE TypeInv'
  <2>1. me[r] \in Asked /\ me[r].phone \in Numbers /\ Rows({me[r].phone}) \subseteq Row
    BY <1>0, <1>7 DEF LookUp, At, TypeInv, Usable, Rows
  <2>2. [me[r] EXCEPT !.pc = "erase", !.read = Rows({me[r].phone})] \in Asked
    BY <2>1 DEF Asked
  <2>3. me' \in [Requests -> Asked] /\ \A q \in Requests : me'[q].phone = me[q].phone /\ (q # r => me'[q] = me[q])
    BY <1>0, <1>7, <2>1, <2>2 DEF LookUp, Asked
  <2>4. Usable'
    BY <1>7, <2>1, <2>3 DEF LookUp, TypeInv, Usable, Live
  <2> QED
    BY <1>0, <1>7, <2>3, <2>4 DEF LookUp, TypeInv, TypeOK, Asked, AnyNumber
<1>8. ASSUME NEW r \in Requests, Erase(r) PROVE TypeInv'
  <2>1. me[r].phone \in Numbers
    BY <1>0, <1>8 DEF Erase, At, TypeInv, Usable
  <2>2. lead' \in [LeadIds -> LeadRow] /\ \A l \in Live' : lead'[l].phone \in Numbers
    BY <1>0, <1>8 DEF Erase, LeadRow, Unborn, AnyNumber, Live
  <2>3. list' \subseteq Row /\ made' \in Nat
    BY <1>0, <1>8, <2>1, RelistTypes DEF Erase, Sources
  <2> QED
    BY <1>0, <1>8, <2>2, <2>3, LeaveTypes DEF Erase
<1>9. ASSUME NEW r \in Requests, NEW wanted \in SUBSET Numbers, BeginSave(r, wanted) PROVE TypeInv'
  <2>1. [Idle EXCEPT !.pc = "save", !.wanted = wanted, !.read = OwnRows(list)] \in Asked
    BY <1>0, IdleAsked DEF Asked, OwnRows
  <2> QED
    BY <1>9, <2>1, BeginTypes DEF BeginSave, Idle
<1>10. ASSUME NEW r \in Requests, Save(r) PROVE TypeInv'
  <2>1. me[r].wanted \subseteq Numbers
    BY <1>0 DEF Asked
  <2>2. list' \subseteq Row /\ made' \in Nat
    BY <1>0, <1>10, <2>1, RelistTypes DEF Save, Sources
  <2> QED
    BY <1>0, <1>10, <2>2, LeaveTypes DEF Save, Live
<1>11. ASSUME NEW r \in Requests, NEW file \in Files, BeginImport(r, file) PROVE TypeInv'
  <2>1. Taken \union {row.phone : row \in list} \subseteq Numbers
    BY <1>0 DEF Taken, Row
  <2>2. [Idle EXCEPT !.pc = "import", !.file = file, !.wanted = Taken \union {row.phone : row \in list}] \in Asked
    BY <2>1, IdleAsked DEF Asked
  <2> QED
    BY <1>11, <2>2, BeginTypes DEF BeginImport, Idle
<1>12. ASSUME NEW r \in Requests, Import(r) PROVE TypeInv'
  <2> DEFINE file == me[r].file
  <2> DEFINE rows == Inserted(file, me[r].wanted \union Taken)
  <2> DEFINE marked == MarkedIn(file)
  <2>1. file \in Files \union {<<>>}
    BY <1>0 DEF Asked
  <2>2. marked \subseteq Numbers
    BY <2>1, FileRows DEF MarkedIn
  <2>3. list' \subseteq Row /\ made' \in Nat
    BY <1>0, <1>12, <2>2, RelistTypes DEF Import, Sources
  <2>4. PICK row \in [rows -> Ids("unborn")] :
            lead' = [l \in LeadIds |->
                        IF \E i \in rows : row[i] = l
                        THEN LET i == CHOOSE i \in rows : row[i] = l IN
                             [state |-> "live", phone |-> PhoneOf(file[i]), dnc |-> file[i].dnc \/ PhoneOf(file[i]) \in marked]
                        ELSE [lead[l] EXCEPT !.dnc = @ \/ lead[l].phone \in marked]]
    BY <1>12 DEF Import
  <2>5. ASSUME NEW l \in LeadIds PROVE lead'[l] \in LeadRow /\ (lead'[l].state = "live" => lead'[l].phone \in Numbers)
    <3>1. CASE \E i \in rows : row[i] = l
      <4>1. PICK i \in rows : lead'[l] = [state |-> "live", phone |-> PhoneOf(file[i]), dnc |-> file[i].dnc \/ PhoneOf(file[i]) \in marked]
        BY <2>4, <3>1
      <4>2. i \in DOMAIN file /\ Readable(file[i])
        BY DEF Inserted
      <4>3. PhoneOf(file[i]) \in Numbers /\ file[i].dnc \in BOOLEAN
        BY <2>1, <4>2, FileRows
      <4> QED
        BY <4>1, <4>3 DEF LeadRow, AnyNumber
    <3>2. CASE ~\E i \in rows : row[i] = l
      <4>1. lead'[l] = [lead[l] EXCEPT !.dnc = @ \/ lead[l].phone \in marked]
        BY <2>4, <3>2
      <4>2. lead[l] \in LeadRow /\ (lead[l].state = "live" => lead[l].phone \in Numbers)
        BY <1>0 DEF Live
      <4> QED
        BY <4>1, <4>2 DEF LeadRow
    <3> QED
      BY <3>1, <3>2
  <2>6. lead' \in [LeadIds -> LeadRow] /\ \A l \in Live' : lead'[l].phone \in Numbers
    BY <2>4, <2>5 DEF Live
  <2>7. optedOut' \subseteq People
    BY <1>0, <1>12 DEF Import
  <2> QED
    BY <1>0, <1>12, <2>3, <2>6, <2>7, LeaveTypes DEF Import
<1>13. CASE UNCHANGED vars
  BY <1>13 DEF vars, TypeInv, TypeOK, Usable, Live
<1> QED
  BY <1>1, <1>2, <1>3, <1>4, <1>5, <1>6, <1>7, <1>8, <1>9, <1>10, <1>11, <1>12, <1>13 DEF Next, AnyNumber

(* Every variable keeps its type. *)
THEOREM TypesKept == Spec => []TypeOK
<1>1. TypeInv => TypeOK
  BY DEF TypeInv
<1> QED
  BY TypeInit, TypeStep, <1>1, PTL DEF Spec

-------------------------------------------------------------------------------
(* Requests in turn *)

\* A number is the number of one lead, and what is not a lead holds nothing back.
Distinct == \A l, k \in Live : lead[l].phone = lead[k].phone => l = k
Blank == \A l \in LeadIds \ Live : lead[l].phone = Unusable /\ ~lead[l].dnc

Alone(r) == \A q \in Requests \ {r} : At(q, "idle")

OfLead(r, phone) == me[r].id \in Live /\ phone = lead[me[r].id].phone /\ me[r].flagged = lead[me[r].id].dnc

\* What a request has read is still so.
Current(r) ==
    /\ At(r, "create") => me[r].read = Rows({me[r].phone})
    /\ me[r].pc \in {"rows", "update"} => OfLead(r, me[r].old) /\ (~me[r].moving => me[r].phone = me[r].old)
    /\ At(r, "update") => me[r].read = Rows({me[r].phone}) /\ ~Refused(r, me[r].read)
    /\ me[r].pc \in {"look", "erase"} => OfLead(r, me[r].phone)
    /\ At(r, "erase") => me[r].read = Rows({me[r].phone})

InTurn == ~overlapped => \A r \in Requests : ~At(r, "idle") => Alone(r) /\ Current(r)

TurnInv == TypeInv /\ Distinct /\ Blank /\ InTurn

LEMMA TurnInit == Init => TurnInv
<1> SUFFICES ASSUME Init PROVE Distinct /\ Blank /\ InTurn
  BY TypeInit DEF TurnInv
<1>1. PICK first \in LeadIds, phone \in Numbers, flagged \in BOOLEAN :
          lead = [l \in LeadIds |-> IF l = first THEN [state |-> "live", phone |-> phone, dnc |-> flagged] ELSE Unborn]
  BY DEF Init
<1>2. Live = {first} /\ \A l \in LeadIds \ {first} : lead[l].phone = Unusable /\ ~lead[l].dnc
  BY <1>1 DEF Live, Unborn
<1>3. InTurn
  BY DEF Init, InTurn, At, Idle
<1> QED
  BY <1>2, <1>3 DEF Distinct, Blank

LEMMA BeginTurn ==
    ASSUME TurnInv, NEW r \in Requests, NEW record, Begin(r, record), Current(r)'
    PROVE  Distinct' /\ Blank' /\ InTurn'
<1>1. UNCHANGED lead /\ me'[r] = record /\ \A q \in Requests \ {r} : me'[q] = me[q]
  BY TypeParts DEF TurnInv, TypeInv, Begin
<1>2. ~overlapped' => \A q \in Requests \ {r} : At(q, "idle")
  BY DEF Begin
<1>3. InTurn'
  BY <1>1, <1>2 DEF InTurn, Alone, At
<1> QED
  BY <1>1, <1>3 DEF TurnInv, Distinct, Blank, Live

LEMMA LeaveTurn ==
    ASSUME TurnInv, NEW r \in Requests, ~At(r, "idle"), Leave(r), UNCHANGED overlapped
    PROVE  InTurn'
<1>1. \A q \in Requests : me'[q] = IF q = r THEN Idle ELSE me[q]
  BY TypeParts DEF TurnInv, TypeInv, Leave
<1> QED
  BY <1>1 DEF TurnInv, InTurn, Alone, At, Idle

\* What an import makes of the leads.
ImportedLead(r, row, l) ==
    LET file == me[r].file
        marked == MarkedIn(file)
        rows == Inserted(file, me[r].wanted \union Taken)
    IN  IF \E i \in rows : row[i] = l
        THEN LET i == CHOOSE i \in rows : row[i] = l IN
             [state |-> "live", phone |-> PhoneOf(file[i]), dnc |-> file[i].dnc \/ PhoneOf(file[i]) \in marked]
        ELSE [lead[l] EXCEPT !.dnc = @ \/ lead[l].phone \in marked]

LEMMA Imported ==
    ASSUME TypeInv, NEW r \in Requests, Import(r)
    PROVE  LET file == me[r].file
               rows == Inserted(file, me[r].wanted \union Taken)
           IN  \E row \in [rows -> Ids("unborn")] :
                  /\ \A i, j \in rows : row[i] = row[j] => i = j
                  /\ \A i \in rows : row[i] \in LeadIds \ Live /\ lead'[row[i]].state = "live" /\ lead'[row[i]].phone = PhoneOf(file[i])
                  /\ \A l \in LeadIds : (\A i \in rows : row[i] # l) =>
                         /\ lead'[l].state = lead[l].state /\ lead'[l].phone = lead[l].phone
                         /\ lead'[l].dnc = (lead[l].dnc \/ lead[l].phone \in MarkedIn(file))
<1> DEFINE file == me[r].file
<1> DEFINE rows == Inserted(file, me[r].wanted \union Taken)
<1>1. PICK row \in [rows -> Ids("unborn")] :
          /\ \A i, j \in rows : row[i] = row[j] => i = j
          /\ lead' = [l \in LeadIds |-> ImportedLead(r, row, l)]
  BY DEF Import, ImportedLead
<1>2. ASSUME NEW i \in rows PROVE row[i] \in LeadIds \ Live /\ lead'[row[i]].state = "live" /\ lead'[row[i]].phone = PhoneOf(file[i])
  <2>1. row[i] \in LeadIds \ Live
    BY <1>1 DEF Ids, Live
  <2>2. (CHOOSE j \in rows : row[j] = row[i]) = i
    BY <1>1
  <2>3. lead'[row[i]] = [state |-> "live", phone |-> PhoneOf(file[i]), dnc |-> file[i].dnc \/ PhoneOf(file[i]) \in MarkedIn(file)]
    BY <1>1, <2>1, <2>2 DEF ImportedLead
  <2> QED
    BY <2>1, <2>3
<1>3. ASSUME NEW l \in LeadIds, \A i \in rows : row[i] # l
      PROVE  /\ lead'[l].state = lead[l].state /\ lead'[l].phone = lead[l].phone
             /\ lead'[l].dnc = (lead[l].dnc \/ lead[l].phone \in MarkedIn(file))
  <2>1. lead'[l] = [lead[l] EXCEPT !.dnc = @ \/ lead[l].phone \in MarkedIn(file)]
    BY <1>1, <1>3 DEF ImportedLead
  <2>2. lead[l] \in LeadRow
    BY TypeParts DEF TypeInv
  <2> QED
    BY <2>1, <2>2 DEF LeadRow
<1> QED
  BY <1>1, <1>2, <1>3

LEMMA ImportedLive ==
    ASSUME TypeInv, NEW r \in Requests, Import(r), NEW k \in Live
    PROVE  /\ lead'[k].state = lead[k].state /\ lead'[k].phone = lead[k].phone
           /\ lead'[k].dnc = (lead[k].dnc \/ lead[k].phone \in MarkedIn(me[r].file))
<1> DEFINE rows == Inserted(me[r].file, me[r].wanted \union Taken)
<1>1. PICK row \in [rows -> Ids("unborn")] :
          /\ \A i \in rows : row[i] \in LeadIds \ Live
          /\ \A l \in LeadIds : (\A i \in rows : row[i] # l) =>
                 /\ lead'[l].state = lead[l].state /\ lead'[l].phone = lead[l].phone
                 /\ lead'[l].dnc = (lead[l].dnc \/ lead[l].phone \in MarkedIn(me[r].file))
  BY Imported
<1>2. k \in LeadIds /\ \A i \in rows : row[i] # k
  BY <1>1 DEF Live
<1> QED
  BY <1>1, <1>2

\* Two rows of a file that bring leads bring two numbers, and neither is a lead's.
LEMMA InsertedNumbers ==
    ASSUME TypeInv, NEW r \in Requests,
           NEW i \in Inserted(me[r].file, me[r].wanted \union Taken), NEW j \in Inserted(me[r].file, me[r].wanted \union Taken)
    PROVE  /\ PhoneOf(me[r].file[i]) \notin Taken
           /\ PhoneOf(me[r].file[i]) = PhoneOf(me[r].file[j]) => i = j
<1>1. me[r].file \in Files \union {<<>>}
  BY TypeParts DEF TypeInv, Asked
<1>2. i \in DOMAIN me[r].file /\ j \in DOMAIN me[r].file /\ i \in Nat /\ j \in Nat
  BY <1>1, FileRows DEF Inserted
<1>3. i \geq 1 /\ j \geq 1
  BY <1>1, <1>2, FileRows
<1> QED
  BY <1>2, <1>3 DEF Inserted

LEMMA TurnStep == TurnInv /\ [Next]_vars => TurnInv'
<1> SUFFICES ASSUME TurnInv, [Next]_vars PROVE Distinct' /\ Blank' /\ InTurn'
  BY TypeStep DEF TurnInv
<1>0. /\ lead \in [LeadIds -> LeadRow] /\ me \in [Requests -> Asked]
      /\ \A l \in Live : lead[l].phone \in Numbers
      /\ Distinct /\ Blank
  BY TypeParts DEF TurnInv, TypeInv, Usable
<1>1. ASSUME NEW r \in Requests, NEW typed \in Typed, NEW want \in {"YES", Same}, BeginCreate(r, typed, want)
      PROVE  Distinct' /\ Blank' /\ InTurn'
  <2>1. /\ me'[r].pc = "create" /\ me'[r].phone = Normalised(typed) /\ me'[r].read = Rows({Normalised(typed)})
        /\ UNCHANGED list
    BY <1>0, <1>1 DEF BeginCreate, Begin, Idle
  <2>2. Current(r)'
    BY <2>1 DEF Current, At, Rows
  <2> QED
    BY <1>1, <2>2, BeginTurn DEF BeginCreate
<1>2. ASSUME NEW r \in Requests, Create(r) PROVE Distinct' /\ Blank' /\ InTurn'
  <2>1. CASE UNCHANGED lead
    BY <1>0, <1>2, <2>1, LeaveTurn DEF Create, At, Distinct, Blank, Live
  <2>2. ASSUME NEW l \in Ids("unborn"), me[r].phone \notin Taken,
               lead' = [lead EXCEPT ![l] = [state |-> "live", phone |-> me[r].phone,
                                            dnc |-> me[r].read # {} \/ me[r].want = "YES"]]
        PROVE  Distinct' /\ Blank'
    <3>1. l \in LeadIds \ Live /\ Live' = Live \union {l} /\ lead'[l].phone = me[r].phone
      BY <1>0, <2>2 DEF Ids, Live
    <3>2. \A k \in LeadIds \ {l} : lead'[k] = lead[k]
      BY <1>0, <2>2
    <3> QED
      BY <1>0, <2>2, <3>1, <3>2 DEF Distinct, Blank, Taken
  <2> QED
    BY <1>2, <2>1, <2>2, LeaveTurn DEF Create, At
<1>3. ASSUME NEW r \in Requests, NEW l \in LeadIds, NEW phone \in AnyNumber, NEW want \in {"YES", "NO", Same},
             BeginUpdate(r, l, phone, want)
      PROVE  Distinct' /\ Blank' /\ InTurn'
  <2>1. /\ me'[r].pc = "rows" /\ me'[r].id = l /\ me'[r].old = lead[l].phone /\ me'[r].flagged = lead[l].dnc
        /\ me'[r].moving = (phone # Unusable) /\ me'[r].phone = IF phone = Unusable THEN lead[l].phone ELSE phone
        /\ UNCHANGED lead /\ l \in Live
    BY <1>0, <1>3 DEF BeginUpdate, Begin, Idle
  <2>2. Current(r)'
    BY <2>1 DEF Current, At, OfLead, Live
  <2> QED
    BY <1>3, <2>2, BeginTurn DEF BeginUpdate
<1>4. ASSUME NEW r \in Requests, ReadRows(r) PROVE Distinct' /\ Blank' /\ InTurn'
  <2>1. CASE Leave(r)
    BY <1>0, <1>4, <2>1, LeaveTurn DEF ReadRows, At, Distinct, Blank, Live
  <2>2. CASE me' = [me EXCEPT ![r].pc = "update", ![r].read = Rows({me[r].phone})] /\ ~Refused(r, Rows({me[r].phone}))
    <3>1. /\ me'[r].pc = "update" /\ me'[r].read = Rows({me[r].phone})
          /\ me'[r].phone = me[r].phone /\ me'[r].old = me[r].old /\ me'[r].id = me[r].id /\ me'[r].want = me[r].want
          /\ me'[r].flagged = me[r].flagged /\ me'[r].moving = me[r].moving
          /\ \A q \in Requests \ {r} : me'[q] = me[q]
      BY <1>0, <2>2 DEF Asked
    <3>2. UNCHANGED <<lead, list, overlapped>> /\ me[r].pc = "rows"
      BY <1>4 DEF ReadRows, At
    <3>3. ~Refused(r, Rows({me[r].phone}))'
      BY <2>2, <3>1, <3>2 DEF Refused, Wanted, Moved, Rows, Standing
    <3>4. ~overlapped => Alone(r)' /\ Current(r)'
      BY <3>1, <3>2, <3>3 DEF TurnInv, InTurn, Alone, Current, OfLead, At, Live, Rows
    <3>5. InTurn'
      BY <3>1, <3>2, <3>4 DEF TurnInv, InTurn, Alone, At
    <3> QED
      BY <1>0, <3>2, <3>5 DEF Distinct, Blank, Live
  <2> QED
    BY <1>4, <2>1, <2>2 DEF ReadRows
<1>5. ASSUME NEW r \in Requests, Update(r) PROVE Distinct' /\ Blank' /\ InTurn'
  <2> DEFINE l == me[r].id
  <2>1. CASE UNCHANGED lead
    BY <1>0, <1>5, <2>1, LeaveTurn DEF Update, At, Distinct, Blank, Live
  <2>2. ASSUME l \in Live, ~(me[r].moving /\ \E o \in Live \ {l} : lead[o].phone = me[r].phone),
               lead' = [lead EXCEPT ![l].phone = IF me[r].moving THEN me[r].phone ELSE @,
                                    ![l].dnc = IF Flag(r) # me[r].flagged THEN Flag(r) ELSE @]
        PROVE  Distinct' /\ Blank'
    <3>1. \A k \in LeadIds \ {l} : lead'[k] = lead[k]
      BY <1>0, <2>2
    <3>2. lead'[l].phone = (IF me[r].moving THEN me[r].phone ELSE lead[l].phone) /\ lead'[l].state = "live" /\ l \in LeadIds
      BY <1>0, <2>2 DEF LeadRow, Live
    <3>3. Live' = Live
      BY <2>2, <3>1, <3>2 DEF Live
    <3>4. \A k \in Live \ {l} : lead'[k].phone = lead[k].phone /\ lead[k].phone # lead'[l].phone
      BY <1>0, <2>2, <3>1, <3>2 DEF Distinct, Live
    <3>5. Distinct'
      BY <1>0, <3>3, <3>4 DEF Distinct
    <3> QED
      BY <1>0, <2>2, <3>1, <3>3, <3>5 DEF Blank
  <2> QED
    BY <1>5, <2>1, <2>2, LeaveTurn DEF Update, At
<1>6. ASSUME NEW r \in Requests, NEW l \in LeadIds, BeginErase(r, l) PROVE Distinct' /\ Blank' /\ InTurn'
  <2>1. /\ me'[r].pc = "look" /\ me'[r].id = l /\ me'[r].phone = lead[l].phone /\ me'[r].flagged = lead[l].dnc
        /\ UNCHANGED lead /\ l \in Live
    BY <1>0, <1>6 DEF BeginErase, Begin, Idle
  <2>2. Current(r)'
    BY <2>1 DEF Current, At, OfLead, Live
  <2> QED
    BY <1>6, <2>2, BeginTurn DEF BeginErase
<1>7. ASSUME NEW r \in Requests, LookUp(r) PROVE Distinct' /\ Blank' /\ InTurn'
  <2>1. /\ me'[r].pc = "erase" /\ me'[r].read = Rows({me[r].phone})
        /\ me'[r].phone = me[r].phone /\ me'[r].id = me[r].id /\ me'[r].flagged = me[r].flagged
        /\ \A q \in Requests \ {r} : me'[q] = me[q]
    BY <1>0, <1>7 DEF LookUp, Asked
  <2>2. UNCHANGED <<lead, list, overlapped>> /\ me[r].pc = "look"
    BY <1>7 DEF LookUp, At
  <2>3. ~overlapped => Alone(r)' /\ Current(r)'
    BY <2>1, <2>2 DEF TurnInv, InTurn, Alone, Current, OfLead, At, Live, Rows
  <2>4. InTurn'
    BY <2>1, <2>2, <2>3 DEF TurnInv, InTurn, Alone, At
  <2> QED
    BY <1>0, <2>2, <2>4 DEF Distinct, Blank, Live
<1>8. ASSUME NEW r \in Requests, Erase(r) PROVE Distinct' /\ Blank' /\ InTurn'
  <2>1. \A k \in LeadIds : lead'[k] = IF k = me[r].id THEN [Unborn EXCEPT !.state = "erased"] ELSE lead[k]
    BY <1>0, <1>8 DEF Erase
  <2>2. Distinct' /\ Blank'
    BY <1>0, <2>1 DEF Distinct, Blank, Live, Unborn
  <2> QED
    BY <1>8, <2>2, LeaveTurn DEF Erase, At
<1>9. ASSUME NEW r \in Requests, NEW wanted \in SUBSET Numbers, BeginSave(r, wanted) PROVE Distinct' /\ Blank' /\ InTurn'
  <2>1. me'[r].pc = "save"
    BY <1>0, <1>9 DEF BeginSave, Begin, Idle
  <2> QED
    BY <1>9, <2>1, BeginTurn DEF BeginSave, Current, At
<1>10. ASSUME NEW r \in Requests, Save(r) PROVE Distinct' /\ Blank' /\ InTurn'
  BY <1>0, <1>10, LeaveTurn DEF Save, At, Distinct, Blank, Live
<1>11. ASSUME NEW r \in Requests, NEW file \in Files, BeginImport(r, file) PROVE Distinct' /\ Blank' /\ InTurn'
  <2>1. me'[r].pc = "import"
    BY <1>0, <1>11 DEF BeginImport, Begin, Idle
  <2> QED
    BY <1>11, <2>1, BeginTurn DEF BeginImport, Current, At
<1>12. ASSUME NEW r \in Requests, Import(r) PROVE Distinct' /\ Blank' /\ InTurn'
  <2> DEFINE file == me[r].file
  <2> DEFINE rows == Inserted(file, me[r].wanted \union Taken)
  <2>1. PICK row \in [rows -> Ids("unborn")] :
          /\ \A i, j \in rows : row[i] = row[j] => i = j
          /\ \A i \in rows : row[i] \in LeadIds \ Live /\ lead'[row[i]].state = "live" /\ lead'[row[i]].phone = PhoneOf(file[i])
          /\ \A l \in LeadIds : (\A i \in rows : row[i] # l) =>
                 /\ lead'[l].state = lead[l].state /\ lead'[l].phone = lead[l].phone
                 /\ lead'[l].dnc = (lead[l].dnc \/ lead[l].phone \in MarkedIn(file))
    BY <1>12, Imported DEF TurnInv
  <2>2. ASSUME NEW l \in Live'
        PROVE  (\E i \in rows : row[i] = l /\ lead'[l].phone = PhoneOf(file[i])) \/ (l \in Live /\ lead'[l].phone = lead[l].phone)
    <3>1. CASE \E i \in rows : row[i] = l
      BY <2>1, <3>1
    <3>2. CASE \A i \in rows : row[i] # l
      BY <2>1, <2>2, <3>2 DEF Live
    <3> QED
      BY <3>1, <3>2
  <2>3. Distinct'
    <3> SUFFICES ASSUME NEW l \in Live', NEW k \in Live', lead'[l].phone = lead'[k].phone PROVE l = k
      BY DEF Distinct
    <3>1. \A i \in rows : \A m \in Live : PhoneOf(file[i]) # lead[m].phone
      <4>1. \A i \in rows : PhoneOf(file[i]) \notin Taken
        BY InsertedNumbers DEF TurnInv
      <4> QED
        BY <4>1 DEF Taken
    <3>2. \A i, j \in rows : PhoneOf(file[i]) = PhoneOf(file[j]) => i = j
      BY InsertedNumbers DEF TurnInv
    <3>3. CASE l \in Live /\ lead'[l].phone = lead[l].phone
      BY <1>0, <2>2, <3>1, <3>3 DEF Distinct
    <3>4. CASE \E i \in rows : row[i] = l /\ lead'[l].phone = PhoneOf(file[i])
      BY <2>2, <3>1, <3>2, <3>4
    <3> QED
      BY <2>2, <3>3, <3>4
  <2>4. Blank'
    <3> SUFFICES ASSUME NEW l \in LeadIds \ Live' PROVE lead'[l].phone = Unusable /\ ~lead'[l].dnc
      BY DEF Blank
    <3>1. \A i \in rows : row[i] # l
      BY <2>1 DEF Live
    <3>2. l \notin Live /\ Unusable \notin MarkedIn(file)
      BY <2>1, <3>1 DEF Live, MarkedIn, Readable
    <3> QED
      BY <1>0, <2>1, <3>1, <3>2 DEF Blank
  <2> QED
    BY <1>12, <2>3, <2>4, LeaveTurn DEF Import, At
<1>13. CASE UNCHANGED vars
  BY <1>0, <1>13 DEF vars, TurnInv, Distinct, Blank, Live, InTurn, Alone, Current, OfLead, At, Rows, Refused, Wanted, Moved, Standing
<1> QED
  BY <1>1, <1>2, <1>3, <1>4, <1>5, <1>6, <1>7, <1>8, <1>9, <1>10, <1>11, <1>12, <1>13 DEF Next, AnyNumber

-------------------------------------------------------------------------------
(* What a step in turn does to the leads *)

\* To begin, and to look, changes nothing.
LEMMA OnlyWrites ==
    ASSUME TurnInv, [Next]_vars, ~UNCHANGED <<lead, list>>
    PROVE  \E r \in Requests : Create(r) \/ Update(r) \/ Erase(r) \/ Save(r) \/ Import(r)
BY DEF Next, vars, BeginCreate, BeginUpdate, BeginErase, BeginSave, BeginImport, Begin, ReadRows, LookUp

\* A request in turn works on what it has read.
LEMMA UpdateInTurn ==
    ASSUME TurnInv, ~overlapped, NEW r \in Requests, Update(r), ~UNCHANGED <<lead, list>>
    PROVE  LET l == me[r].id IN
           /\ l \in Live /\ lead[l].phone = me[r].old /\ lead[l].dnc = me[r].flagged
           /\ ~me[r].moving => me[r].phone = me[r].old
           /\ me[r].read = Rows({me[r].phone}) /\ ~Refused(r, me[r].read)
           /\ lead'[l].phone = me[r].phone /\ lead'[l].dnc = Flag(r) /\ lead'[l].state = "live"
           /\ \A k \in LeadIds \ {l} : lead'[k] = lead[k]
           /\ list' = list \ (IF ClearsMarks(r) THEN Marks(me[r].read) ELSE {}) \/ list \subseteq list'
           /\ me[r].moving => \A o \in Live \ {l} : lead[o].phone # me[r].phone
<1> DEFINE l == me[r].id
<1>1. Current(r) /\ me[r].pc = "update"
  BY DEF Update, At, TurnInv, InTurn
<1>2. lead[l] \in LeadRow /\ me[r].flagged \in BOOLEAN /\ Flag(r) \in BOOLEAN /\ l \in LeadIds
  BY <1>1, TypeParts DEF TurnInv, TypeInv, Asked, Flag, Current, OfLead, Live
<1>3. /\ l \in Live /\ (me[r].moving => \A o \in Live \ {l} : lead[o].phone # me[r].phone)
      /\ lead' = [lead EXCEPT ![l].phone = IF me[r].moving THEN me[r].phone ELSE @,
                              ![l].dnc = IF Flag(r) # me[r].flagged THEN Flag(r) ELSE @]
      /\ CASE AddsMark(r)    -> Relist({}, {me[r].phone}, "MANUAL")
           [] ClearsMarks(r) -> list' = list \ Marks(me[r].read) /\ UNCHANGED made
           [] OTHER          -> UNCHANGED <<list, made>>
  BY DEF Update
<1>4. /\ lead'[l].phone = me[r].phone /\ lead'[l].dnc = Flag(r) /\ lead'[l].state = "live"
      /\ \A k \in LeadIds \ {l} : lead'[k] = lead[k]
  BY <1>1, <1>2, <1>3, TypeParts DEF TurnInv, TypeInv, Current, OfLead, At, LeadRow, Live
<1>5. list' = list \ (IF ClearsMarks(r) THEN Marks(me[r].read) ELSE {}) \/ list \subseteq list'
  <2>1. CASE AddsMark(r)
    BY <1>3, <2>1, Relisting
  <2>2. CASE ~AddsMark(r) /\ ClearsMarks(r)
    BY <1>3, <2>2
  <2>3. CASE ~AddsMark(r) /\ ~ClearsMarks(r)
    BY <1>3, <2>3
  <2> QED
    BY <2>1, <2>2, <2>3
<1> QED
  BY <1>1, <1>3, <1>4, <1>5 DEF Current, OfLead, At

SwitchStep ==
    ~overlapped => \A l \in LeadIds :
        lead[l].dnc /\ lead'[l].state = "live" /\ ~lead'[l].dnc =>
            \A phone \in Numbers : lead'[l].phone = phone => ~HeldBack(phone)'

\* Only an edit switches a lead back.
LEMMA OnlyUpdateSwitches ==
    ASSUME TurnInv, [Next]_vars, NEW l \in LeadIds, lead[l].dnc, lead'[l].state = "live", ~lead'[l].dnc
    PROVE  \E r \in Requests : Update(r) /\ ~UNCHANGED <<lead, list>>
<1>0. lead \in [LeadIds -> LeadRow] /\ l \in Live
  BY TypeParts DEF TurnInv, TypeInv, Blank
<1>1. PICK r \in Requests : Create(r) \/ Update(r) \/ Erase(r) \/ Save(r) \/ Import(r)
  BY OnlyWrites
<1>2. ~Create(r)
  BY <1>0 DEF Create, Ids, Live
<1>3. ~Erase(r) /\ ~Save(r)
  BY <1>0 DEF Erase, Save, Unborn
<1>4. ~Import(r)
  <2> SUFFICES ASSUME Import(r) PROVE FALSE
    OBVIOUS
  <2>1. lead'[l].dnc = (lead[l].dnc \/ lead[l].phone \in MarkedIn(me[r].file))
    BY <1>0, ImportedLive DEF TurnInv
  <2> QED
    BY <2>1
<1> QED
  BY <1>1, <1>2, <1>3, <1>4

LEMMA SwitchKept == TurnInv /\ [Next]_vars => SwitchStep
<1> SUFFICES ASSUME TurnInv, [Next]_vars, ~overlapped, NEW l \in LeadIds, lead[l].dnc, lead'[l].state = "live", ~lead'[l].dnc,
                    NEW phone \in Numbers, lead'[l].phone = phone
             PROVE  ~HeldBack(phone)'
  BY DEF SwitchStep
<1>1. PICK r \in Requests : Update(r) /\ ~UNCHANGED <<lead, list>>
  BY OnlyUpdateSwitches
<1>2. l = me[r].id /\ ~Flag(r) /\ me[r].flagged /\ me[r].want = "NO" /\ lead'[l].phone = me[r].phone
  <2>1. l = me[r].id
    BY <1>1, UpdateInTurn
  <2>2. lead'[l].dnc = Flag(r) /\ lead[l].dnc = me[r].flagged /\ lead'[l].phone = me[r].phone
    BY <1>1, <2>1, UpdateInTurn
  <2>3. me[r].want \in {"YES", "NO", Same}
    BY TypeParts DEF TurnInv, TypeInv, Asked
  <2> QED
    BY <2>1, <2>2, <2>3 DEF Flag, Wanted, Same
<1>3. me[r].read = Rows({me[r].phone}) /\ ~Refused(r, me[r].read)
  BY <1>1, UpdateInTurn
<1>4. me[r].read = {} \/ (~Moved(r) /\ ~Standing(me[r].read))
  BY <1>2, <1>3 DEF Refused, Wanted, Same
<1>5. Rows({phone})' = {}
  <2>1. ~AddsMark(r) /\ ClearsMarks(r)
    BY <1>2, <1>4 DEF AddsMark, ClearsMarks, Standing
  <2>2. list' = list \ Marks(me[r].read)
    BY <1>1, <2>1 DEF Update
  <2>3. Marks(me[r].read) = me[r].read
    BY <1>3, <2>1, TypeParts
    DEF TurnInv, TypeInv, ClearsMarks, Marks, LeadMarkSources, Standing, StandingSuppressions, Rows, Row, Sources
  <2> QED
    BY <1>2, <1>3, <2>2, <2>3 DEF Rows
<1>6. \A k \in Live' : lead'[k].phone = phone => k = l
  BY TurnStep DEF TurnInv, Distinct, Live
<1> QED
  BY <1>5, <1>6 DEF HeldBack

(* A lead that a request in turn switched back to callable is no longer on   *)
(* the list, and no other lead holds its number back.                        *)
THEOREM SwitchedBackIsFree == Spec => SwitchedBackIsCallable
<1>1. TurnInv /\ [Next]_vars => [SwitchStep]_vars
  BY SwitchKept
<1> QED
  BY TurnInit, TurnStep, <1>1, PTL DEF Spec, SwitchedBackIsCallable, SwitchStep

HeldStep ==
    ~overlapped => \A phone \in Numbers :
        HeldBack(phone) /\ ~HeldBack(phone)' => \E r \in Requests : TakenBack(r, phone)

LEMMA HeldKept == TurnInv /\ [Next]_vars => HeldStep
<1> SUFFICES ASSUME TurnInv, [Next]_vars, ~overlapped, NEW phone \in Numbers, HeldBack(phone), ~HeldBack(phone)'
             PROVE  \E r \in Requests : TakenBack(r, phone)
  BY DEF HeldStep
<1>0. lead \in [LeadIds -> LeadRow]
  BY TypeParts DEF TurnInv, TypeInv
<1>1. Rows({phone})' = {} /\ \A k \in LeadIds : ~(lead'[k].state = "live" /\ lead'[k].phone = phone /\ lead'[k].dnc)
  BY DEF HeldBack, Live
<1>2. Rows({phone}) # {} \/ \E k \in LeadIds : lead[k].state = "live" /\ lead[k].phone = phone /\ lead[k].dnc
  BY DEF HeldBack, Live
<1>3. PICK r \in Requests : Create(r) \/ Update(r) \/ Erase(r) \/ Save(r) \/ Import(r)
  <2>1. ~UNCHANGED <<lead, list>>
    BY <1>1, <1>2 DEF Rows
  <2> QED
    BY <2>1, OnlyWrites
\* Where no row is taken off, the number was held by a lead alone.
<1>4. ASSUME list \subseteq list'
      PROVE  Rows({phone}) = {} /\ \E k \in LeadIds : lead[k].state = "live" /\ lead[k].phone = phone /\ lead[k].dnc
  BY <1>1, <1>2, <1>4 DEF Rows
<1>5. ~Create(r)
  <2> SUFFICES ASSUME Create(r) PROVE FALSE
    OBVIOUS
  <2>1. list \subseteq list'
    BY Relisting DEF Create
  <2>2. \A k \in LeadIds : lead[k].state = "live" => lead'[k] = lead[k]
    BY <1>0 DEF Create, Ids
  <2> QED
    BY <1>1, <1>4, <2>1, <2>2
<1>6. ~Import(r)
  <2> SUFFICES ASSUME Import(r) PROVE FALSE
    OBVIOUS
  <2>1. list \subseteq list'
    BY Relisting DEF Import
  <2>2. PICK k \in LeadIds : lead[k].state = "live" /\ lead[k].phone = phone /\ lead[k].dnc
    BY <1>4, <2>1
  <2>3. /\ lead'[k].state = lead[k].state /\ lead'[k].phone = lead[k].phone
        /\ lead'[k].dnc = (lead[k].dnc \/ lead[k].phone \in MarkedIn(me[r].file))
    BY <2>2, ImportedLive DEF TurnInv, Live
  <2> QED
    BY <1>1, <2>2, <2>3
<1>7. ASSUME Erase(r) PROVE FALSE
  <2>1. Current(r) /\ me[r].pc = "erase"
    BY <1>7 DEF Erase, At, TurnInv, InTurn
  <2>2. list \subseteq list'
    BY <1>7, Relisting DEF Erase
  <2>3. PICK k \in LeadIds : lead[k].state = "live" /\ lead[k].phone = phone /\ lead[k].dnc
    BY <1>4, <2>2
  <2>4. k = me[r].id
    BY <1>0, <1>1, <1>7, <2>3 DEF Erase
  <2>5. me[r].phone = phone /\ me[r].flagged /\ me[r].read = {}
    BY <1>4, <2>1, <2>2, <2>3, <2>4 DEF Current, OfLead, At
  <2>6. \E row \in list' : row.phone = phone
    BY <1>7, <2>5, Relisting DEF Erase, KeepsMark
  <2> QED
    BY <1>1, <2>6 DEF Rows
<1>8. ASSUME Save(r) PROVE TakenBack(r, phone)
  BY <1>8 DEF Save, TakenBack
<1>9. ASSUME Update(r) PROVE TakenBack(r, phone)
  <2> DEFINE l == me[r].id
  <2>0. ~UNCHANGED <<lead, list>> /\ me[r].pc = "update" /\ me[r].want \in {"YES", "NO", Same}
    BY <1>1, <1>2, <1>9, TypeParts DEF Update, At, Rows, TurnInv, TypeInv, Asked
  <2>1. CASE list \subseteq list'
    <3>1. PICK k \in LeadIds : lead[k].state = "live" /\ lead[k].phone = phone /\ lead[k].dnc
      BY <1>4, <2>1
    <3>2. k = l
      BY <1>1, <1>9, <2>0, <3>1, UpdateInTurn
    <3>3. me[r].old = phone /\ me[r].flagged /\ (me[r].phone # phone \/ ~Flag(r))
      BY <1>1, <1>9, <2>0, <3>1, <3>2, UpdateInTurn
    <3>4. ~Flag(r) => me[r].want = "NO"
      BY <2>0, <3>3 DEF Flag, Wanted
    <3> QED
      BY <1>4, <2>0, <2>1, <3>3, <3>4 DEF TakenBack, At, Moved
  <2>2. CASE ~(list \subseteq list')
    <3>1. ClearsMarks(r) /\ list' = list \ Marks(me[r].read) /\ me[r].read = Rows({me[r].phone}) /\ ~Refused(r, me[r].read)
      BY <1>9, <2>0, <2>2, UpdateInTurn
    <3>2. me[r].want = "NO" /\ ~Wanted(r) /\ me[r].read # {}
      BY <2>2, <3>1 DEF ClearsMarks, Flag, Marks
    <3>3. ~Moved(r)
      BY <3>1, <3>2 DEF Refused
    <3>4. me[r].phone = phone
      <4>1. CASE Rows({phone}) # {}
        BY <1>1, <3>1, <4>1 DEF Rows, Marks
      <4>2. CASE Rows({phone}) = {}
        <5>1. PICK k \in LeadIds : lead[k].state = "live" /\ lead[k].phone = phone /\ lead[k].dnc
          BY <1>2, <4>2
        <5>2. k = l
          BY <1>1, <1>9, <2>0, <5>1, UpdateInTurn
        <5> QED
          BY <1>9, <2>0, <3>3, <5>1, <5>2, UpdateInTurn DEF Moved
      <4> QED
        BY <4>1, <4>2
    <3> QED
      BY <2>0, <3>2, <3>3, <3>4 DEF TakenBack, At, Moved
  <2> QED
    BY <2>1, <2>2
<1> QED
  BY <1>3, <1>5, <1>6, <1>7, <1>8, <1>9

(* Do-not-call outlives the lead: requests in turn free a number only when   *)
(* somebody takes it back.                                                   *)
THEOREM HeldUntilSomebodyFrees == Spec => HeldUntilTakenBack
<1>1. TurnInv /\ [Next]_vars => [HeldStep]_vars
  BY HeldKept
<1> QED
  BY TurnInit, TurnStep, <1>1, PTL DEF Spec, HeldUntilTakenBack, HeldStep
===============================================================================
