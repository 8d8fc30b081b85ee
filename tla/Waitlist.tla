------------------------------ MODULE Waitlist ------------------------------
(***************************************************************************)
(* The waitlist (app/api/waitlist.py).  A request looks for its address,   *)
(* counts the signups, reads its referrer and commits: four statements at  *)
(* READ COMMITTED, no lock, and only the address is unique.  The referral  *)
(* count and the place of a referrer are read, changed in memory and       *)
(* written back.                                                           *)
(***************************************************************************)
EXTENDS Integers, FiniteSets

CONSTANTS
    Addresses,   \* email addresses, each with its referral code
    Joins,       \* requests
    Jump,        \* places a referrer moves up
    NoCode,      \* no referred_by
    NoSignup     \* an address without a row

ASSUME WaitlistAssumption ==
    /\ IsFiniteSet(Addresses) /\ NoCode \notin Addresses
    /\ Jump \in Nat /\ NoSignup \notin [position : Int, referrals : Int,
                                                by : Addresses \cup {NoCode}]

VARIABLES
    list,       \* waitlist_signups
    form,       \* what a request has sent
    step,       \* where it is
    place,      \* the position it has computed
    referrer    \* the referrer as it has read him

waitlistVars == <<list, form, step, place, referrer>>

Blank == [email |-> NoSignup, code |-> NoCode]

Rows == {a \in Addresses : list[a] # NoSignup}

WaitlistInit ==
    /\ list = [a \in Addresses |-> NoSignup]
    /\ form = [j \in Joins |-> Blank]
    /\ step = [j \in Joins |-> "idle"]
    /\ place = [j \in Joins |-> 0]
    /\ referrer = [j \in Joins |-> NoSignup]

Go(j, s) == step' = [step EXCEPT ![j] = s]

\* The form of a request carries the code of somebody on the list, or none that counts.
Forms == [email : Addresses, code : Rows \cup {NoCode}]

\* Already on the list.
RefuseDuplicate(j) ==
    /\ step[j] = "idle"
    /\ \E f \in Forms : f.email \in Rows
    /\ Go(j, "conflict")
    /\ UNCHANGED <<list, form, place, referrer>>

PassDuplicate(j) ==
    /\ step[j] = "idle"
    /\ \E f \in Forms : f.email \notin Rows /\ form' = [form EXCEPT ![j] = f]
    /\ Go(j, "checked")
    /\ UNCHANGED <<list, place, referrer>>

\* position = current count + 1
CountSignups(j) ==
    /\ step[j] = "checked"
    /\ place' = [place EXCEPT ![j] = Cardinality(Rows) + 1]
    /\ Go(j, "counted")
    /\ UNCHANGED <<list, form, referrer>>

ReadReferrer(j) ==
    /\ step[j] = "counted"
    /\ referrer' = [referrer EXCEPT ![j] =
           IF form[j].code = NoCode THEN NoSignup ELSE list[form[j].code]]
    /\ Go(j, "read")
    /\ UNCHANGED <<list, form, place>>

\* Mutant of Moved: the place is not kept positive.
MovedBelow(row) ==
    [row EXCEPT !.position = @ - Jump, !.referrals = @ + 1]

\* The referrer as the request writes him: from what it has read.
Moved(row) ==
    [row EXCEPT !.position = IF @ - Jump < 1 THEN 1 ELSE @ - Jump, !.referrals = @ + 1]

\* The ORM sends the columns it has changed; a place that stays 1 is not sent.
Referred(seen, row) ==
    [row EXCEPT !.referrals = Moved(seen).referrals,
                !.position = IF Moved(seen).position = seen.position THEN @
                             ELSE Moved(seen).position]

NewSignup(j) ==
    [position |-> place[j], referrals |-> 0, by |-> form[j].code]

CommitJoin(j) ==
    /\ step[j] = "read" /\ form[j].email \notin Rows
    /\ list' = [a \in Addresses |->
           IF a = form[j].email THEN NewSignup(j)
           ELSE IF referrer[j] # NoSignup /\ a = form[j].code THEN Referred(referrer[j], list[a])
           ELSE list[a]]
    /\ Go(j, "joined")
    /\ UNCHANGED <<form, place, referrer>>

\* Mutant of JoinFails: the referral is committed before the signup is inserted.
JoinFailsKeepingReferral(j) ==
    /\ step[j] = "read" /\ form[j].email \in Rows
    /\ list' = [a \in Addresses |->
           IF referrer[j] # NoSignup /\ a = form[j].code THEN Referred(referrer[j], list[a])
           ELSE list[a]]
    /\ Go(j, "failed")
    /\ UNCHANGED <<form, place, referrer>>

\* Another request has inserted the address meanwhile: the unique index takes back the
\* signup and the referral.
JoinFails(j) ==
    /\ step[j] = "read" /\ form[j].email \in Rows
    /\ Go(j, "failed")
    /\ UNCHANGED <<list, form, place, referrer>>

WaitlistNext ==
    \E j \in Joins :
        \/ RefuseDuplicate(j) \/ PassDuplicate(j) \/ CountSignups(j) \/ ReadReferrer(j)
        \/ CommitJoin(j) \/ JoinFails(j)

WaitlistSpec == WaitlistInit /\ [][WaitlistNext]_waitlistVars

----------------------------------------------------------------------------
(* Properties *)

ReferredBy(a) == {b \in Rows : list[b].by = a}

\* Overlapping signups may share a place and lose referrals, but every place is one of
\* the queue, and somebody is first.
PlacesInQueue ==
    /\ \A a \in Rows : list[a].position \in 1..Cardinality(Rows)
    /\ Rows # {} => \E a \in Rows : list[a].position = 1

\* A referral counts only with its signup in the list: a signup that fails counts for
\* nobody, and no overlap counts one twice.
ReferralsAreSignups ==
    \A a \in Rows : list[a].referrals <= Cardinality(ReferredBy(a))
=============================================================================
