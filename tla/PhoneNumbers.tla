------------------------------ MODULE PhoneNumbers ------------------------------
(***************************************************************************)
(* Telephone numbers as leads and the do-not-call list store and match     *)
(* them (normalisePhone and suppressionCandidates of leads.dedupe.ts,      *)
(* isBlocked of calling-rules.ts).  A number is the sequence of its        *)
(* digits; the lengths are parameters, so that small instances have every  *)
(* case of the code's 10, 8 and 15 digits.                                 *)
(***************************************************************************)
EXTENDS Integers, SequencesExt

CONSTANTS
    CountryCode,    \* DEFAULT_COUNTRY_CODE
    MobileLength,   \* digits of an Indian mobile number
    MinLength, MaxLength        \* of any number

Unusable == <<>>

WithoutTrunk(digits) == SubSeq(digits, SelectInSeq(digits, LAMBDA d : d # 0), Len(digits))

IsMobile(digits) == Len(digits) = MobileLength /\ digits[1] \in 6 .. 9

Coded(digits) == CountryCode \o digits

\* A mobile number with its country code.
IsCodedMobile(digits) == \E local \in {SubSeq(digits, Len(CountryCode) + 1, Len(digits))} :
                            IsMobile(local) /\ digits = Coded(local)

\* What is stored for the digits somebody typed.
Normalised(typed) ==
    IF \A i \in DOMAIN typed : typed[i] = 0 THEN Unusable
    ELSE LET digits == WithoutTrunk(typed) IN
         CASE IsMobile(digits) -> Coded(digits)
           [] Len(digits) = Len(CountryCode) + MobileLength /\ IsPrefix(CountryCode, digits) ->
                  IF IsCodedMobile(digits) THEN digits ELSE Unusable
           [] OTHER -> IF Len(digits) \in MinLength .. MaxLength THEN digits ELSE Unusable

\* Whether an entry of the list stops a call to a lead: a mobile number has one spelling, of any
\* other the country or area code may be missing on either side.
Stops(entry, phone) ==
    \/ entry = phone
    \/ /\ ~IsCodedMobile(phone)
       /\ IsSuffix(phone, entry) \/ (Len(entry) >= MinLength /\ IsSuffix(entry, phone))
===============================================================================
