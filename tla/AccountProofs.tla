--------------------------- MODULE AccountProofs ---------------------------
(***************************************************************************)
(* Theorems about those who come: Accounts, for any number of users, calls and *)
(* events, and Waitlist, for any number of addresses and requests.         *)
(***************************************************************************)
EXTENDS Accounts, Waitlist, FiniteSetTheorems, TLAPS

(* Accounts *)

\* Nothing has arrived, nobody has a row.
LEMMA InitIInv == Init => IInv
  BY DEF Init, IInv, TypeOK, LockInv, PortfolioCheckStaysValid, Open, Answered

\* A call that ends frees only the row it holds.
LEMMA EndWithFacts ==
    ASSUME IInv, NEW h \in Handlers, NEW outcome \in Answered, EndWith(h, outcome)
    PROVE  /\ pc' \in [Handlers -> {"arrived"} \cup Open \cup Answered]
           /\ lock' \in [Clerks -> Handlers \cup {NoHandler}]
           /\ \A g \in Handlers : pc'[g] \in Open => g # h /\ pc'[g] = pc[g]
           /\ LockInv'
<1> USE DEF IInv
<1>1. pc' \in [Handlers -> {"arrived"} \cup Open \cup Answered]
  BY DEF EndWith, TypeOK
<1>2. lock' \in [Clerks -> Handlers \cup {NoHandler}]
  BY DEF EndWith, TypeOK
<1>3. \A g \in Handlers : pc'[g] \in Open => g # h /\ pc'[g] = pc[g]
  BY DEF EndWith, TypeOK, Open, Answered
<1>4. \A g \in Handlers : Clerk(g) \in Clerks
  BY CallsAssumption DEF TypeOK, AllCalls, Clerk
<1>5. LockInv'
  <2> SUFFICES ASSUME NEW g \in Handlers, pc'[g] \in Open \ {"missing"}
               PROVE  /\ lock'[Clerk(g)] = g
                      /\ pc'[g] \in {"absent", "present"} => job[g].kind = "created"
    BY DEF LockInv, EndWith, Clerk, Open
  <2>1. g # h /\ pc[g] = pc'[g] /\ lock[Clerk(g)] = g
    BY <1>3 DEF LockInv, Open
  <2> QED BY <2>1, <1>4 DEF EndWith, LockInv, Open
<1> QED BY <1>1, <1>2, <1>3, <1>5

\* Every step keeps the row locks and what was read under them.
LEMMA NextKeepsIInv == IInv /\ [Next]_vars => IInv'
<1> SUFFICES ASSUME IInv, [Next]_vars PROVE IInv'
  OBVIOUS
<1> USE DEF IInv
<1>0. \A g \in Handlers : job[g] \in AllCalls /\ Clerk(g) \in Clerks
  BY CallsAssumption DEF TypeOK, AllCalls, Clerk
<1>1. ASSUME NEW c \in Clerks, Spend(c) PROVE IInv'
  <2>1. points[c] - 1 \in Nat /\ points[c] # NoPortfolio
    BY <1>1 DEF Spend, TypeOK, NoPortfolio
  <2>2. /\ points' \in [Clerks -> Nat \cup {NoPortfolio}]
        /\ \A d \in Clerks : points'[d] = NoPortfolio <=> points[d] = NoPortfolio
    BY <1>1, <2>1 DEF Spend, TypeOK, NoPortfolio
  <2> QED BY <1>0, <1>1, <2>2
          DEF Spend, TypeOK, LockInv, PortfolioCheckStaysValid, Clerk
<1>2. ASSUME NEW c \in Clerks, FoundTournament(c) \/ RankMember(c) PROVE IInv'
  <2>1. UNCHANGED <<names, points, job, pc, lock>> /\ referenced' \in [Clerks -> BOOLEAN]
    BY <1>2 DEF FoundTournament, RankMember, Refer, TypeOK
  <2> QED BY <2>1 DEF TypeOK, LockInv, PortfolioCheckStaysValid, Clerk
<1>3. ASSUME NEW h \in Handlers, Lookup(h) \/ Redeliver(h) PROVE IInv'
  BY <1>3 DEF Lookup, Redeliver, TypeOK, LockInv, PortfolioCheckStaysValid, Clerk,
              Open, Answered
<1>4. ASSUME NEW h \in Handlers, Upsert(h) PROVE IInv'
  <2>1. /\ lock[Clerk(h)] = NoHandler /\ lock' = [lock EXCEPT ![Clerk(h)] = h]
        /\ pc' = [pc EXCEPT ![h] = "upserted"]
        /\ UNCHANGED <<names, points, referenced, job>>
    BY <1>4 DEF Upsert, RowFree
  <2>2. TypeOK'
    BY <1>0, <2>1 DEF TypeOK, Open
  <2>3. \A g \in Handlers : pc[g] \in Open \ {"missing"} => Clerk(g) # Clerk(h)
    BY <2>1, ValuesAssumption DEF LockInv
  <2>4. LockInv'
    BY <1>0, <2>1, <2>3 DEF TypeOK, LockInv, Clerk
  <2>5. PortfolioCheckStaysValid'
    BY <2>1 DEF TypeOK, PortfolioCheckStaysValid, Clerk
  <2> QED BY <2>2, <2>4, <2>5
<1>5. ASSUME NEW h \in Handlers, SelectPortfolio(h) PROVE IInv'
  BY <1>5 DEF SelectPortfolio, TypeOK, LockInv, PortfolioCheckStaysValid, Clerk, Open
<1>6. ASSUME NEW h \in Handlers, UpsertFails(h) \/ DeleteRefused(h) \/ Abort(h)
      PROVE  IInv'
  <2>1. EndWith(h, "failed") /\ UNCHANGED <<names, points, referenced, job>>
    BY <1>6 DEF UpsertFails, DeleteRefused, Abort, EndWith
  <2>2. LockInv' /\ TypeOK' /\ \A g \in Handlers : pc'[g] \in Open => pc'[g] = pc[g]
    BY <2>1, EndWithFacts DEF TypeOK, Answered
  <2>3. PortfolioCheckStaysValid'
    BY <2>1, <2>2 DEF PortfolioCheckStaysValid, Clerk, Open
  <2> QED BY <2>2, <2>3
<1>7. ASSUME NEW h \in Handlers,
             Provision(h) \/ CommitCreated(h) \/ CommitUpdated(h) \/ DeleteAccount(h)
      PROVE  IInv'
  <2>1. /\ EndWith(h, "done") /\ UNCHANGED <<referenced, job>>
        /\ names' \in [Clerks -> {NoUser} \cup SUBSET Names]
    BY <1>0, <1>7 DEF Provision, CommitCreated, CommitUpdated, DeleteAccount, EndWith,
                      WriteUser, TypeOK, AllCalls
  <2>2. /\ points' \in [Clerks -> Nat \cup {NoPortfolio}]
        /\ \A d \in Clerks \ {Clerk(h)} : points'[d] = points[d]
    BY <1>0, <1>7, GrantAssumption DEF Provision, CommitCreated, CommitUpdated,
                      DeleteAccount, Granted, TypeOK
  <2>3. /\ LockInv' /\ TypeOK'
        /\ \A g \in Handlers : pc'[g] \in Open => g # h /\ pc'[g] = pc[g]
    BY <2>1, <2>2, EndWithFacts DEF TypeOK, Answered
  <2>4. lock[Clerk(h)] \in {h, NoHandler}
    BY <1>7 DEF Provision, CommitCreated, CommitUpdated, DeleteAccount, LockInv, Open
  <2>5. PortfolioCheckStaysValid'
    <3> SUFFICES ASSUME NEW g \in Handlers, pc'[g] \in {"absent", "present"}
                 PROVE  points'[Clerk(g)] = points[Clerk(g)] /\ pc'[g] = pc[g]
      BY <2>1 DEF PortfolioCheckStaysValid, Clerk
    <3>1. g # h /\ pc'[g] = pc[g]
      BY <2>3 DEF Open
    <3>2. lock[Clerk(g)] = g
      BY <3>1 DEF LockInv, Open
    <3>3. Clerk(g) # Clerk(h)
      BY <2>4, <3>1, <3>2, ValuesAssumption
    <3> QED BY <1>0, <2>2, <3>1, <3>3
  <2> QED BY <2>3, <2>5
<1>8. CASE UNCHANGED vars
  BY <1>8 DEF vars, TypeOK, LockInv, PortfolioCheckStaysValid, Clerk
<1> QED BY <1>1, <1>2, <1>3, <1>4, <1>5, <1>6, <1>7, <1>8 DEF Next, HandlerStep

\* What a call has read under its row lock stays true until it commits.
THEOREM InductiveInvariant == Spec => []IInv
<1> QED BY InitIInv, NextKeepsIInv, PTL DEF Spec

\* The check-then-insert of user.created is safe: no other call can add or remove
\* the portfolio between the SELECT and the commit.
THEOREM CheckStaysValid == Spec => []PortfolioCheckStaysValid
<1>1. IInv => PortfolioCheckStaysValid
  BY DEF IInv
<1> QED BY <1>1, InductiveInvariant, PTL

\* INV-08 for every user of whom no user.updated arrives: requests and user.created
\* write user and portfolio together, whatever their order and repetitions.
THEOREM PortfolioForEveryUser == Spec => []PortfolioUnlessUpdated
<1>1. Init => PortfolioUnlessUpdated
  BY DEF Init, PortfolioUnlessUpdated
<1>2. ASSUME IInv, PortfolioUnlessUpdated, [Next]_vars, NEW c \in Clerks,
             NoUpdate(c)', names'[c] # NoUser
      PROVE  points'[c] # NoPortfolio
  <2> USE <1>2 DEF IInv
  <2>0. \A h \in Handlers : Clerk(h) \in Clerks
    BY CallsAssumption DEF TypeOK, AllCalls, Clerk
  <2>a. UNCHANGED job
    BY DEF Next, HandlerStep, Spend, FoundTournament, RankMember, Refer, Lookup, Upsert, UpsertFails,
           SelectPortfolio, DeleteRefused, Abort, Redeliver, Provision, CommitCreated,
           CommitUpdated, DeleteAccount, EndWith, vars
  <2>b. NoUpdate(c)
    BY <2>a DEF NoUpdate, Clerk
  <2>c. names[c] # NoUser => points[c] # NoPortfolio
    BY <2>b DEF PortfolioUnlessUpdated
  <2>1. ASSUME NEW d \in Clerks, Spend(d) PROVE points'[c] # NoPortfolio
    <3>1. points[d] - 1 # NoPortfolio
      BY <2>1 DEF Spend, TypeOK, NoPortfolio
    <3> QED BY <2>1, <2>c, <3>1 DEF Spend, TypeOK
  <2>2. ASSUME NEW h \in Handlers,
               \/ Lookup(h) \/ Upsert(h) \/ UpsertFails(h) \/ SelectPortfolio(h)
               \/ DeleteRefused(h) \/ Abort(h) \/ Redeliver(h)
        PROVE  points'[c] # NoPortfolio
    BY <2>2, <2>c DEF Lookup, Upsert, UpsertFails, SelectPortfolio, DeleteRefused, Abort,
                Redeliver
  <2>3. ASSUME NEW h \in Handlers, Provision(h) \/ CommitCreated(h)
        PROVE  points'[c] # NoPortfolio
    <3>1. points'[Clerk(h)] # NoPortfolio
      BY <2>0, <2>3, GrantAssumption
         DEF Provision, CommitCreated, Granted, PortfolioCheckStaysValid, TypeOK,
             NoPortfolio
    <3>2. \A d \in Clerks \ {Clerk(h)} : points'[d] = points[d] /\ names'[d] = names[d]
      BY <2>0, <2>3 DEF Provision, CommitCreated, Granted, WriteUser, TypeOK
    <3> QED BY <2>0, <2>c, <3>1, <3>2
  <2>4. ASSUME NEW h \in Handlers, DeleteAccount(h) PROVE points'[c] # NoPortfolio
    BY <2>0, <2>c, <2>4 DEF DeleteAccount, TypeOK
  <2>5. ASSUME NEW d \in Clerks, FoundTournament(d) \/ RankMember(d) PROVE points'[c] # NoPortfolio
    BY <2>5, <2>c DEF FoundTournament, RankMember, Refer
  <2>6. CASE UNCHANGED vars
    BY <2>6, <2>c DEF vars
  <2>7. ASSUME NEW h \in Handlers, CommitUpdated(h) PROVE points'[c] # NoPortfolio
    <3>1. Clerk(h) # c
      BY <2>b, <2>7 DEF CommitUpdated, NoUpdate
    <3> QED BY <2>0, <2>7, <2>c, <3>1 DEF CommitUpdated, WriteUser, TypeOK
  <2> QED BY <2>1, <2>2, <2>3, <2>4, <2>5, <2>6, <2>7 DEF Next, HandlerStep
<1>3. IInv /\ PortfolioUnlessUpdated /\ [Next]_vars => PortfolioUnlessUpdated'
  BY <1>2 DEF PortfolioUnlessUpdated
<1> QED BY <1>1, <1>3, InductiveInvariant, PTL DEF Spec

\* No call ever sets a balance back: only trades change a balance that exists.
THEOREM BalanceKept == Spec => BalanceNeverReset
<1>1. ASSUME IInv, [Next]_vars, NEW c \in Clerks,
             points[c] # NoPortfolio, points'[c] # NoPortfolio
      PROVE  points'[c] <= points[c]
  <2> USE <1>1 DEF IInv
  <2>0. points[c] \in Nat /\ \A h \in Handlers : Clerk(h) \in Clerks
    BY CallsAssumption DEF TypeOK, AllCalls, Clerk
  <2>1. ASSUME NEW d \in Clerks, Spend(d) PROVE points'[c] <= points[c]
    BY <2>0, <2>1 DEF Spend, TypeOK
  <2>2. ASSUME NEW h \in Handlers, HandlerStep(h) \/ Abort(h) \/ Redeliver(h)
        PROVE  points'[c] <= points[c]
    <3>1. CASE Provision(h)
      BY <2>0, <3>1 DEF Provision, Granted, TypeOK
    <3>2. CASE CommitCreated(h)
      BY <2>0, <3>2 DEF CommitCreated, TypeOK
    <3>3. CASE DeleteAccount(h)
      BY <2>0, <3>3 DEF DeleteAccount, TypeOK
    <3>4. CASE ~(Provision(h) \/ CommitCreated(h) \/ DeleteAccount(h))
      BY <2>0, <2>2, <3>4 DEF HandlerStep, Lookup, Upsert, UpsertFails,
                SelectPortfolio, CommitUpdated, DeleteRefused, Abort, Redeliver
    <3> QED BY <3>1, <3>2, <3>3, <3>4
  <2>3. ASSUME NEW d \in Clerks, FoundTournament(d) \/ RankMember(d) PROVE points'[c] <= points[c]
    BY <2>0, <2>3 DEF FoundTournament, RankMember, Refer
  <2>4. CASE UNCHANGED vars
    BY <2>0, <2>4 DEF vars
  <2> QED BY <2>1, <2>2, <2>3, <2>4 DEF Next
<1>2. IInv /\ [Next]_vars =>
        [\A c \in Clerks : points[c] # NoPortfolio /\ points'[c] # NoPortfolio
              => points'[c] <= points[c]]_vars
  BY <1>1
<1> QED BY <1>2, InductiveInvariant, PTL DEF Spec, BalanceNeverReset

----------------------------------------------------------------------------
(* The waitlist *)

Signup  == [position : Int, referrals : Int, by : Addresses \cup {NoCode}]
Working == {"checked", "counted", "read"}
Size    == Cardinality(Rows)
Counted(a) == Cardinality(ReferredBy(a))

\* Types of the table and of what the requests have read.
WaitlistTypeOK ==
    /\ list \in [Addresses -> Signup \cup {NoSignup}]
    /\ form \in [Joins -> [email : Addresses \cup {NoSignup}, code : Addresses \cup {NoCode}]]
    /\ step \in [Joins -> {"idle", "conflict", "joined", "failed"} \cup Working]
    /\ place \in [Joins -> Int]
    /\ referrer \in [Joins -> Signup \cup {NoSignup}]

HasReferrer(j) == step[j] = "read" /\ referrer[j] # NoSignup

\* Rows are never removed, so what a request has read stays within what there is now.
ReadInv ==
    \A j \in Joins :
        /\ step[j] \in Working => form[j].email \in Addresses /\ form[j].code \in Rows \cup {NoCode}
        /\ step[j] \in {"counted", "read"} => place[j] \in 1..Size + 1
        /\ HasReferrer(j) => /\ form[j].code \in Rows
                             /\ referrer[j].position \in 1..Size
                             /\ referrer[j].referrals \in 0..Counted(form[j].code)

\* What is written back is bounded by what was read and by the new row.
RowInv ==
    \A a \in Rows :
        /\ list[a].position \in 1..Size
        /\ list[a].referrals \in 0..Counted(a)

\* The signup that was alone has always been first, so no request has read another place
\* for it and none can write one.
FirstInv ==
    Rows # {} => \E a \in Rows :
        /\ list[a].position = 1
        /\ \A j \in Joins : HasReferrer(j) /\ form[j].code = a => referrer[j].position = 1

WaitlistInv == WaitlistTypeOK /\ ReadInv /\ RowInv /\ FirstInv

\* The list is a finite set.
LEMMA SizesAreNumbers ==
    /\ IsFiniteSet(Rows) /\ Size \in Nat
    /\ \A a : IsFiniteSet(ReferredBy(a)) /\ Counted(a) \in Nat
<1>1. IsFiniteSet(Rows)
  BY WaitlistAssumption, FS_Subset DEF Rows
<1>2. \A a : IsFiniteSet(ReferredBy(a))
  BY <1>1, FS_Subset DEF ReferredBy
<1> QED BY <1>1, <1>2, FS_CardinalityType DEF Size, Counted

\* An empty list and no request.
LEMMA InitWaitlistInv == WaitlistInit => WaitlistInv
<1> SUFFICES ASSUME WaitlistInit PROVE WaitlistInv
  OBVIOUS
<1>1. Rows = {}
  BY DEF WaitlistInit, Rows
<1>2. WaitlistTypeOK
  BY DEF WaitlistInit, WaitlistTypeOK, Blank
<1> QED BY <1>1, <1>2 DEF WaitlistInv, WaitlistInit, ReadInv, RowInv, FirstInv, HasReferrer,
                          Working

\* What a request writes to the row of its referrer.
LEMMA ReferredFacts ==
    ASSUME NEW seen \in Signup, NEW row \in Signup
    PROVE  /\ Referred(seen, row) \in Signup
           /\ Referred(seen, row).by = row.by
           /\ Referred(seen, row).referrals = seen.referrals + 1
           /\ Referred(seen, row).position =
                 IF Moved(seen).position = seen.position THEN row.position
                 ELSE Moved(seen).position
           /\ seen.position >= 1 => /\ Moved(seen).position \in 1..seen.position
                                    /\ seen.position = 1 => Moved(seen).position = 1
<1>1. Jump \in Nat
  BY WaitlistAssumption
<1>2. /\ seen.position \in Int /\ seen.referrals \in Int
      /\ row.position \in Int /\ row.by \in Addresses \cup {NoCode}
  BY DEF Signup
<1>3. /\ Moved(seen).position = (IF seen.position - Jump < 1 THEN 1 ELSE seen.position - Jump)
      /\ Moved(seen).referrals = seen.referrals + 1
  BY DEF Moved, Signup
<1>4. /\ Referred(seen, row).by = row.by
      /\ Referred(seen, row).referrals = Moved(seen).referrals
      /\ Referred(seen, row).position =
            IF Moved(seen).position = seen.position THEN row.position
            ELSE Moved(seen).position
  BY DEF Referred, Signup
<1>5. \A n, p \in Int : [row EXCEPT !.referrals = n, !.position = p] \in Signup
  BY DEF Signup
<1>6. Referred(seen, row) \in Signup
  <2> DEFINE n == Moved(seen).referrals
             p == IF Moved(seen).position = seen.position THEN row.position
                  ELSE Moved(seen).position
  <2>1. n \in Int /\ p \in Int
    BY <1>1, <1>2, <1>3
  <2>2. Referred(seen, row) = [row EXCEPT !.referrals = n, !.position = p]
    BY DEF Referred
  <2> HIDE DEF n, p
  <2> QED BY <1>5, <2>1, <2>2
<1> QED BY <1>1, <1>2, <1>3, <1>4, <1>6

\* The new row is the only one more, and it refers to the code of its form.
LEMMA CommitAddsOne ==
    ASSUME WaitlistInv, NEW j \in Joins, CommitJoin(j)
    PROVE  /\ Rows' = Rows \cup {form[j].email}
           /\ Size' = Size + 1
           /\ \A a \in Addresses :
                 Counted(a)' = IF a = form[j].code THEN Counted(a) + 1 ELSE Counted(a)
<1> DEFINE e == form[j].email
<1>1. e \in Addresses /\ e \notin Rows
  BY DEF WaitlistInv, ReadInv, Working, CommitJoin
<1>2. form[j].code \in Addresses \cup {NoCode} /\ place[j] \in Int
  BY DEF WaitlistInv, WaitlistTypeOK
<1>3. NewSignup(j) \in Signup /\ NewSignup(j).by = form[j].code /\ NewSignup(j) # NoSignup
  BY <1>2, WaitlistAssumption DEF NewSignup, Signup
<1>4. \A seen, row \in Signup : Referred(seen, row) \in Signup /\ Referred(seen, row).by = row.by
  BY ReferredFacts
<1>5. \A a \in Rows : list[a] \in Signup
  BY DEF WaitlistInv, WaitlistTypeOK, Rows
<1>6. list'[e] = NewSignup(j)
  BY <1>1 DEF CommitJoin
<1>7. referrer[j] # NoSignup => referrer[j] \in Signup /\ form[j].code \in Rows
  BY DEF WaitlistInv, WaitlistTypeOK, ReadInv, HasReferrer, CommitJoin
<1>8. \A a \in Rows : list'[a] \in Signup /\ list'[a].by = list[a].by
  <2> SUFFICES ASSUME NEW a \in Rows PROVE list'[a] \in Signup /\ list'[a].by = list[a].by
    OBVIOUS
  <2>1. a \in Addresses /\ a # e
    BY <1>1 DEF Rows
  <2>2. CASE referrer[j] # NoSignup /\ a = form[j].code
    BY <2>1, <2>2, <1>4, <1>5, <1>7 DEF CommitJoin
  <2>3. CASE ~(referrer[j] # NoSignup /\ a = form[j].code)
    BY <2>1, <2>3, <1>5 DEF CommitJoin
  <2> QED BY <2>2, <2>3
<1>9. \A a \in Addresses \ (Rows \cup {e}) : list'[a] = NoSignup
  BY <1>7 DEF CommitJoin, Rows
<1>10. NoSignup \notin Signup
  BY WaitlistAssumption DEF Signup
<1>11. Rows' = Rows \cup {e}
  BY <1>1, <1>3, <1>6, <1>8, <1>9, <1>10 DEF Rows
<1>12. Size' = Size + 1
  BY <1>1, <1>11, SizesAreNumbers, FS_AddElement DEF Size
<1>13. ASSUME NEW a \in Addresses
       PROVE  Counted(a)' = IF a = form[j].code THEN Counted(a) + 1 ELSE Counted(a)
  <2>1. ReferredBy(a)' = IF a = form[j].code THEN ReferredBy(a) \cup {e} ELSE ReferredBy(a)
    BY <1>1, <1>3, <1>6, <1>8, <1>11 DEF ReferredBy
  <2>2. e \notin ReferredBy(a)
    BY <1>1 DEF ReferredBy
  <2> QED BY <2>1, <2>2, SizesAreNumbers, FS_AddElement DEF Counted
<1> QED BY <1>11, <1>12, <1>13

\* A request that has read is committed: its place, the referral it writes back and
\* what the others have read stay within the longer list.
LEMMA CommitKeepsInv ==
    ASSUME WaitlistInv, NEW j \in Joins, CommitJoin(j)
    PROVE  WaitlistInv'
<1> DEFINE e == form[j].email
           c == form[j].code
           seen == referrer[j]
<1> USE DEF WaitlistInv
<1>1. /\ Rows' = Rows \cup {e} /\ Size' = Size + 1
      /\ \A a \in Addresses : Counted(a)' = IF a = c THEN Counted(a) + 1 ELSE Counted(a)
  BY CommitAddsOne
<1>2. /\ e \in Addresses /\ e \notin Rows /\ c \in Rows \cup {NoCode}
      /\ place[j] \in 1..Size + 1
  BY DEF ReadInv, Working, CommitJoin
<1>3. Size \in Nat /\ \A a : Counted(a) \in Nat
  BY SizesAreNumbers
<1>4. seen # NoSignup => /\ c \in Rows /\ seen \in Signup
                         /\ seen.position \in 1..Size /\ seen.referrals \in 0..Counted(c)
  BY DEF WaitlistTypeOK, ReadInv, HasReferrer, CommitJoin
<1>5. \A a \in Rows : a \in Addresses /\ a # e /\ list[a] \in Signup
  BY <1>2 DEF WaitlistTypeOK, Rows
<1>6. list'[e] = [position |-> place[j], referrals |-> 0, by |-> c]
  BY <1>2 DEF CommitJoin, NewSignup
<1>7. ASSUME NEW a \in Rows, seen # NoSignup, a = c
      PROVE  /\ list'[a] \in Signup
             /\ list'[a].position \in 1..Size
             /\ list'[a].referrals \in 0..Counted(a) + 1
             /\ seen.position = 1 => list'[a].position = list[a].position
  <2>1. list'[a] = Referred(seen, list[a])
    BY <1>5, <1>7 DEF CommitJoin
  <2>2. Moved(seen).position \in 1..seen.position
        /\ (seen.position = 1 => Moved(seen).position = 1)
    <3>1. seen \in Signup /\ list[a] \in Signup /\ seen.position \in 1..Size
      BY <1>4, <1>5, <1>7
    <3>2. seen.position >= 1
      BY <1>3, <3>1
    <3> HIDE DEF seen
    <3> QED BY <3>1, <3>2, ReferredFacts
  <2>3. list[a].position \in 1..Size
    BY DEF RowInv
  <2>4. /\ Referred(seen, list[a]) \in Signup
        /\ Referred(seen, list[a]).referrals = seen.referrals + 1
        /\ Referred(seen, list[a]).position =
              IF Moved(seen).position = seen.position THEN list[a].position
              ELSE Moved(seen).position
    BY <1>4, <1>5, <1>7, ReferredFacts
  <2> QED BY <1>3, <1>4, <1>7, <2>1, <2>2, <2>3, <2>4
<1>8. ASSUME NEW a \in Rows, ~(seen # NoSignup /\ a = c)
      PROVE  list'[a] = list[a]
  BY <1>5, <1>8 DEF CommitJoin
<1>9. WaitlistTypeOK'
  <2>1. [position |-> place[j], referrals |-> 0, by |-> c] \in Signup
    BY <1>2, <1>3, <1>5 DEF Signup, Rows
  <2>2. \A a \in Addresses \ (Rows \cup {e}) : list'[a] = NoSignup
    BY <1>4 DEF CommitJoin, Rows
  <2>3. \A a \in Addresses : list'[a] \in Signup \cup {NoSignup}
    BY <1>5, <1>6, <1>7, <1>8, <2>1, <2>2
  <2>4. list' \in [Addresses -> Signup \cup {NoSignup}]
    BY <2>3 DEF CommitJoin
  <2> QED BY <2>4 DEF WaitlistTypeOK, CommitJoin, Go
<1>10. \A i \in Joins : step'[i] \in Working => i # j /\ step'[i] = step[i]
  BY DEF CommitJoin, Go, WaitlistTypeOK, Working
<1>11. ReadInv'
  <2> SUFFICES ASSUME NEW i \in Joins
               PROVE  /\ step'[i] \in Working =>
                             form[i].email \in Addresses /\ form[i].code \in Rows' \cup {NoCode}
                      /\ step'[i] \in {"counted", "read"} => place[i] \in 1..Size' + 1
                      /\ HasReferrer(i)' =>
                             /\ form[i].code \in Rows'
                             /\ referrer[i].position \in 1..Size'
                             /\ referrer[i].referrals \in 0..Counted(form[i].code)'
    BY DEF ReadInv, CommitJoin, Counted, ReferredBy
  <2>1. step'[i] \in Working => form[i].email \in Addresses /\ form[i].code \in Rows' \cup {NoCode}
    BY <1>1, <1>10 DEF ReadInv
  <2>2. step'[i] \in {"counted", "read"} => place[i] \in 1..Size' + 1
    BY <1>1, <1>3, <1>10 DEF ReadInv, Working
  <2>3. ASSUME HasReferrer(i)'
        PROVE  /\ form[i].code \in Rows' /\ referrer[i].position \in 1..Size'
               /\ referrer[i].referrals \in 0..Counted(form[i].code)'
    <3>1. HasReferrer(i)
      BY <1>10, <2>3 DEF HasReferrer, CommitJoin, Working
    <3>2. form[i].code \in Rows /\ referrer[i].position \in 1..Size
          /\ referrer[i].referrals \in 0..Counted(form[i].code)
      BY <3>1 DEF ReadInv
    <3>3. form[i].code \in Addresses /\ form' = form
      BY <1>5, <3>2 DEF CommitJoin
    <3>4. Counted(form[i].code)' \in {Counted(form[i].code), Counted(form[i].code) + 1}
      BY <1>1, <3>3
    <3> QED BY <1>1, <1>3, <3>2, <3>4
  <2> QED BY <2>1, <2>2, <2>3
<1>12. RowInv'
  <2> SUFFICES ASSUME NEW a \in Rows'
               PROVE  list'[a].position \in 1..Size' /\ list'[a].referrals \in 0..Counted(a)'
    BY DEF RowInv
  <2>1. CASE a = e
    BY <1>1, <1>2, <1>3, <1>6, <2>1
  <2>2. CASE a \in Rows /\ seen # NoSignup /\ a = c
    BY <1>1, <1>3, <1>5, <1>7, <2>2
  <2>3. CASE a \in Rows /\ ~(seen # NoSignup /\ a = c)
    BY <1>1, <1>3, <1>5, <1>8, <2>3 DEF RowInv
  <2> QED BY <1>1, <2>1, <2>2, <2>3
<1>13. FirstInv'
  <2>1. CASE Rows = {}
    <3>1. Size = 0
      BY <2>1, FS_EmptySet DEF Size
    <3>2. list'[e].position = 1
      BY <1>2, <1>6, <3>1
    <3>3. \A i \in Joins : ~HasReferrer(i)'
      BY <1>10, <2>1 DEF ReadInv, HasReferrer, CommitJoin, Working
    <3> QED BY <1>1, <3>2, <3>3 DEF FirstInv
  <2>2. CASE Rows # {}
    <3>1. PICK a \in Rows :
             /\ list[a].position = 1
             /\ \A i \in Joins : HasReferrer(i) /\ form[i].code = a => referrer[i].position = 1
      BY <2>2 DEF FirstInv
    <3>2. seen # NoSignup /\ a = c => seen.position = 1
      BY <3>1 DEF HasReferrer, CommitJoin
    <3>3. list'[a].position = 1
      BY <1>7, <1>8, <3>1, <3>2
    <3>4. \A i \in Joins : HasReferrer(i)' => HasReferrer(i)
      BY <1>10 DEF HasReferrer, CommitJoin, Working
    <3> QED BY <1>1, <3>1, <3>3, <3>4 DEF FirstInv, CommitJoin
  <2> QED BY <2>1, <2>2
<1> QED BY <1>9, <1>11, <1>12, <1>13

\* Every step keeps the list and what is read of it in order.
LEMMA NextKeepsWaitlistInv == WaitlistInv /\ [WaitlistNext]_waitlistVars => WaitlistInv'
<1> SUFFICES ASSUME WaitlistInv, [WaitlistNext]_waitlistVars PROVE WaitlistInv'
  OBVIOUS
<1>0. Size \in Nat /\ \A a : Counted(a) \in Nat
  BY SizesAreNumbers
<1>1. ASSUME NEW j \in Joins, RefuseDuplicate(j) \/ JoinFails(j) PROVE WaitlistInv'
  <2>1. /\ UNCHANGED <<list, form, place, referrer, Rows, Size>>
        /\ \A a : Counted(a)' = Counted(a)
    BY <1>1 DEF RefuseDuplicate, JoinFails, Rows, Size, Counted, ReferredBy
  <2>2. \A i \in Joins : step'[i] \in Working => step'[i] = step[i]
    BY <1>1 DEF RefuseDuplicate, JoinFails, Go, WaitlistInv, WaitlistTypeOK, Working
  <2>3. WaitlistTypeOK'
    BY <1>1, <2>1 DEF RefuseDuplicate, JoinFails, Go, WaitlistInv, WaitlistTypeOK
  <2> QED BY <2>1, <2>2, <2>3
          DEF WaitlistInv, ReadInv, RowInv, FirstInv, HasReferrer, Working
<1>2. ASSUME NEW j \in Joins, PassDuplicate(j) PROVE WaitlistInv'
  <2>1. PICK f \in Forms : form' = [form EXCEPT ![j] = f]
    BY <1>2 DEF PassDuplicate
  <2>2. /\ UNCHANGED <<list, place, referrer, Rows, Size>>
        /\ \A a : Counted(a)' = Counted(a)
        /\ step' = [step EXCEPT ![j] = "checked"]
    BY <1>2 DEF PassDuplicate, Go, Rows, Size, Counted, ReferredBy
  <2>3. f.email \in Addresses /\ f.code \in Rows \cup {NoCode}
        /\ f \in [email : Addresses \cup {NoSignup}, code : Addresses \cup {NoCode}]
    BY DEF Forms, Rows
  <2>4. WaitlistTypeOK'
    BY <2>1, <2>2, <2>3 DEF WaitlistInv, WaitlistTypeOK, Working
  <2>5. \A i \in Joins \ {j} : step'[i] = step[i] /\ form'[i] = form[i]
    BY <2>1, <2>2 DEF WaitlistInv, WaitlistTypeOK
  <2>6. step'[j] = "checked" /\ form'[j] = f
    BY <2>1, <2>2 DEF WaitlistInv, WaitlistTypeOK
  <2> QED BY <2>2, <2>3, <2>4, <2>5, <2>6
          DEF WaitlistInv, ReadInv, RowInv, FirstInv, HasReferrer, Working
<1>3. ASSUME NEW j \in Joins, CountSignups(j) PROVE WaitlistInv'
  <2>1. /\ UNCHANGED <<list, form, referrer, Rows, Size>>
        /\ \A a : Counted(a)' = Counted(a)
        /\ step' = [step EXCEPT ![j] = "counted"] /\ step[j] = "checked"
        /\ place' = [place EXCEPT ![j] = Size + 1]
    BY <1>3 DEF CountSignups, Go, Rows, Size, Counted, ReferredBy
  <2>2. WaitlistTypeOK'
    BY <1>0, <2>1 DEF WaitlistInv, WaitlistTypeOK, Working
  <2>3. \A i \in Joins \ {j} : step'[i] = step[i] /\ place'[i] = place[i]
    BY <2>1 DEF WaitlistInv, WaitlistTypeOK
  <2>4. step'[j] = "counted" /\ place'[j] = Size + 1
    BY <2>1 DEF WaitlistInv, WaitlistTypeOK
  <2> QED BY <1>0, <2>1, <2>2, <2>3, <2>4
          DEF WaitlistInv, ReadInv, RowInv, FirstInv, HasReferrer, Working
<1>4. ASSUME NEW j \in Joins, ReadReferrer(j) PROVE WaitlistInv'
  <2> DEFINE c == form[j].code
  <2>1. /\ UNCHANGED <<list, form, place, Rows, Size>>
        /\ \A a : Counted(a)' = Counted(a)
        /\ step' = [step EXCEPT ![j] = "read"] /\ step[j] = "counted"
        /\ referrer' = [referrer EXCEPT ![j] = IF c = NoCode THEN NoSignup ELSE list[c]]
    BY <1>4 DEF ReadReferrer, Go, Rows, Size, Counted, ReferredBy
  <2>2. c \in Rows \cup {NoCode}
    BY <2>1 DEF WaitlistInv, ReadInv, Working
  <2>3. WaitlistTypeOK'
    BY <2>1, <2>2 DEF WaitlistInv, WaitlistTypeOK, Working, Rows
  <2>4. \A i \in Joins \ {j} : step'[i] = step[i] /\ referrer'[i] = referrer[i]
    BY <2>1 DEF WaitlistInv, WaitlistTypeOK
  <2>5. step'[j] = "read" /\ referrer'[j] = (IF c = NoCode THEN NoSignup ELSE list[c])
    BY <2>1 DEF WaitlistInv, WaitlistTypeOK
  <2>6. HasReferrer(j)' => c \in Rows /\ referrer'[j] = list[c]
    BY <2>2, <2>5 DEF HasReferrer
  <2>7. ReadInv'
    <3> SUFFICES ASSUME NEW i \in Joins
                 PROVE  /\ step'[i] \in Working =>
                              form[i].email \in Addresses /\ form[i].code \in Rows \cup {NoCode}
                        /\ step'[i] \in {"counted", "read"} => place[i] \in 1..Size + 1
                        /\ HasReferrer(i)' =>
                              /\ form[i].code \in Rows
                              /\ referrer'[i].position \in 1..Size
                              /\ referrer'[i].referrals \in 0..Counted(form[i].code)
      BY <2>1 DEF ReadInv
    <3>1. CASE i = j
      BY <2>1, <2>6, <3>1 DEF WaitlistInv, ReadInv, RowInv, Working
    <3>2. CASE i # j
      BY <2>4, <3>2 DEF WaitlistInv, ReadInv, HasReferrer
    <3> QED BY <3>1, <3>2
  <2>8. FirstInv'
    <3> SUFFICES ASSUME Rows # {} PROVE FirstInv'
      BY <2>1 DEF FirstInv
    <3>1. PICK a \in Rows :
             /\ list[a].position = 1
             /\ \A i \in Joins : HasReferrer(i) /\ form[i].code = a => referrer[i].position = 1
      BY DEF WaitlistInv, FirstInv
    <3>2. \A i \in Joins : HasReferrer(i)' /\ form[i].code = a => referrer'[i].position = 1
      BY <2>4, <2>6, <3>1 DEF HasReferrer
    <3> QED BY <2>1, <3>1, <3>2 DEF FirstInv
  <2>9. RowInv'
    BY <2>1 DEF WaitlistInv, RowInv
  <2> QED BY <2>3, <2>7, <2>8, <2>9 DEF WaitlistInv
<1>5. ASSUME NEW j \in Joins, CommitJoin(j) PROVE WaitlistInv'
  BY <1>5, CommitKeepsInv
<1>6. CASE UNCHANGED waitlistVars
  <2>1. /\ UNCHANGED <<list, form, step, place, referrer, Rows, Size>>
        /\ \A a : Counted(a)' = Counted(a)
    BY <1>6 DEF waitlistVars, Rows, Size, Counted, ReferredBy
  <2> QED BY <2>1 DEF WaitlistInv, WaitlistTypeOK, ReadInv, RowInv, FirstInv, HasReferrer
<1> QED BY <1>1, <1>2, <1>3, <1>4, <1>5, <1>6 DEF WaitlistNext

\* The inductive invariant of the waitlist holds in every reachable state.
LEMMA WaitlistInvariant == WaitlistSpec => []WaitlistInv
  BY InitWaitlistInv, NextKeepsWaitlistInv, PTL DEF WaitlistSpec

\* Whatever signups overlap: every place is one of the queue, and somebody is first.
THEOREM AlwaysPlacesInQueue == WaitlistSpec => []PlacesInQueue
<1>1. WaitlistInv => PlacesInQueue
  BY DEF WaitlistInv, RowInv, FirstInv, PlacesInQueue, Size
<1> QED BY <1>1, WaitlistInvariant, PTL

\* Whatever signups overlap or fail: no referral counts without its signup.
THEOREM AlwaysReferralsAreSignups == WaitlistSpec => []ReferralsAreSignups
<1>1. WaitlistInv => ReferralsAreSignups
  BY SizesAreNumbers DEF WaitlistInv, RowInv, ReferralsAreSignups, Counted
<1> QED BY <1>1, WaitlistInvariant, PTL
=============================================================================
