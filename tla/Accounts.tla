------------------------------ MODULE Accounts ------------------------------
(***************************************************************************)
(* User rows and their portfolios: the Clerk webhook (app/api/webhooks.py) *)
(* and the provisioning of unknown users at their first authenticated      *)
(* request (get_current_user in app/dependencies.py).                      *)
(*                                                                         *)
(* Each call is a READ COMMITTED transaction.  INSERT ... ON CONFLICT      *)
(* (clerk_id) DO UPDATE keeps the user row locked up to the commit, so     *)
(* later statements of other calls on the same user wait; the SELECT that  *)
(* comes before it in get_current_user locks nothing.                      *)
(*                                                                         *)
(* Svix delivers each event at least once, in no particular order, and     *)
(* again after an answer that is not a success.                            *)
(***************************************************************************)
EXTENDS Integers, FiniteSets

CONSTANTS
    Clerks,       \* Clerk user ids
    Names,        \* addresses and usernames that more than one user may claim
    NoUser,       \* no row in users
    Handlers,     \* requests and deliveries, each handled by one endpoint call
    NoHandler,    \* the holder of a free row lock
    Calls,        \* what may arrive: requests and deliveries of events
    Founders,     \* users that may create a tournament
    Competitors,  \* users that a completed tournament may rank
    Grant         \* opening balance

NoPortfolio == -1

CallKinds == {"request", "created", "updated", "deleted"}

\* The placeholders <clerk_id>@clerk.local and <clerk_id> are nobody else's and not listed.
AllCalls == [kind : CallKinds, clerk : Clerks, names : SUBSET Names]

ASSUME CallsAssumption == Calls \subseteq AllCalls
ASSUME GrantAssumption == Grant \in Nat
ASSUME ValuesAssumption ==
    /\ \A s \in SUBSET Names : s # NoUser
    /\ NoHandler \notin Handlers

VARIABLES
    names,       \* users.email and users.username, NoUser where there is no row
    points,      \* portfolios.available_points, NoPortfolio where there is no row
    referenced,  \* a tournament or a frozen snapshot refers to the user
    job,         \* the call a handler serves
    pc,          \* where it stands
    lock         \* the transaction that holds the user row

vars == <<names, points, referenced, job, pc, lock>>

Clerk(h) == job[h].clerk

Open == {"missing", "upserted", "absent", "present"}
Answered == {"done", "failed"}

Init ==
    /\ names = [c \in Clerks |-> NoUser]
    /\ points = [c \in Clerks |-> NoPortfolio]
    /\ referenced = [c \in Clerks |-> FALSE]
    /\ job \in [Handlers -> Calls]
    /\ pc = [h \in Handlers |-> "arrived"]
    /\ lock = [c \in Clerks |-> NoHandler]

----------------------------------------------------------------------------
(* The environment *)

\* A trade of the user spends points.
Spend(c) ==
    /\ points[c] > 0
    /\ points' = [points EXCEPT ![c] = @ - 1]
    /\ UNCHANGED <<names, referenced, job, pc, lock>>

\* A row that refers to the user without a cascade is inserted; its foreign key is checked
\* on the user row.
Refer(c) ==
    /\ names[c] # NoUser
    /\ ~referenced[c] /\ lock[c] = NoHandler
    /\ referenced' = [referenced EXCEPT ![c] = TRUE]
    /\ UNCHANGED <<names, points, job, pc, lock>>

\* The user creates a tournament.
FoundTournament(c) == c \in Founders /\ Refer(c)

\* A tournament ends, and the frozen leaderboard has the user.
RankMember(c) == c \in Competitors /\ Refer(c)

----------------------------------------------------------------------------
(* The upsert both paths share *)

\* get_current_user: SELECT the user; a row that exists is served as it is.
Lookup(h) ==
    /\ pc[h] = "arrived" /\ job[h].kind = "request"
    /\ pc' = [pc EXCEPT ![h] = IF names[Clerk(h)] # NoUser THEN "done" ELSE "missing"]
    /\ UNCHANGED <<names, points, referenced, job, lock>>

WantsUpsert(h) ==
    \/ pc[h] = "missing"
    \/ pc[h] = "arrived" /\ job[h].kind \in {"created", "updated"}

\* Mutant of RowFree: an upsert that does not hold the row it conflicts with.
RowShared(h) == TRUE

\* Neither the row nor a unique index entry it needs is held by another call.
RowFree(h) ==
    /\ lock[Clerk(h)] = NoHandler
    /\ \A g \in Handlers \ {h} :
          pc[g] \in Open \ {"missing"} => job[g].names \cap job[h].names = {}

\* Mutant of NameTaken: the user's own row counts as a conflict.
NameTakenByAnyone(h) ==
    \E c \in Clerks : names[c] # NoUser /\ names[c] \cap job[h].names # {}

\* ON CONFLICT names clerk_id only: another user's address or username is an error.
NameTaken(h) ==
    \E c \in Clerks \ {Clerk(h)} :
        names[c] # NoUser /\ names[c] \cap job[h].names # {}

Upsert(h) ==
    /\ WantsUpsert(h) /\ RowFree(h) /\ ~NameTaken(h)
    /\ lock' = [lock EXCEPT ![Clerk(h)] = h]
    /\ pc' = [pc EXCEPT ![h] = "upserted"]
    /\ UNCHANGED <<names, points, referenced, job>>

EndWith(h, outcome) ==
    /\ pc' = [pc EXCEPT ![h] = outcome]
    /\ lock' = [c \in Clerks |-> IF lock[c] = h THEN NoHandler ELSE lock[c]]
    /\ UNCHANGED job

UpsertFails(h) ==
    /\ WantsUpsert(h) /\ RowFree(h) /\ NameTaken(h)
    /\ EndWith(h, "failed")
    /\ UNCHANGED <<names, points, referenced>>

WriteUser(h) == names' = [names EXCEPT ![Clerk(h)] = job[h].names]

----------------------------------------------------------------------------
(* get_current_user, first request of an unknown user *)

\* Mutant of Granted: the portfolio is left to the webhook.
GrantedLater(c) == points

\* Mutant of Granted: ON CONFLICT DO UPDATE for the portfolio as well.
GrantedAnew(c) == [points EXCEPT ![c] = Grant]

\* INSERT ... ON CONFLICT (user_id) DO NOTHING.
Granted(c) == [points EXCEPT ![c] = IF @ = NoPortfolio THEN Grant ELSE @]

Provision(h) ==
    /\ pc[h] = "upserted" /\ job[h].kind = "request"
    /\ WriteUser(h)
    /\ points' = Granted(Clerk(h))
    /\ EndWith(h, "done")
    /\ UNCHANGED referenced

----------------------------------------------------------------------------
(* The webhook *)

\* user.created: SELECT the portfolio of the user just written.
SelectPortfolio(h) ==
    /\ pc[h] = "upserted" /\ job[h].kind = "created"
    /\ pc' = [pc EXCEPT ![h] =
                 IF points[Clerk(h)] = NoPortfolio THEN "absent" ELSE "present"]
    /\ UNCHANGED <<names, points, referenced, job, lock>>

\* An absent portfolio is added; uq_portfolios_user_id admits only the first.
CommitCreated(h) ==
    /\ \/ pc[h] = "present" /\ UNCHANGED points
       \/ /\ pc[h] = "absent" /\ points[Clerk(h)] = NoPortfolio
          /\ points' = [points EXCEPT ![Clerk(h)] = Grant]
    /\ WriteUser(h)
    /\ EndWith(h, "done")
    /\ UNCHANGED referenced

\* user.updated: the row is written, or created, without a portfolio.
CommitUpdated(h) ==
    /\ pc[h] = "upserted" /\ job[h].kind = "updated"
    /\ WriteUser(h)
    /\ EndWith(h, "done")
    /\ UNCHANGED <<points, referenced>>

\* user.deleted: DELETE waits for the row and cascades to the portfolio.
DeleteAccount(h) ==
    /\ pc[h] = "arrived" /\ job[h].kind = "deleted"
    /\ lock[Clerk(h)] = NoHandler
    /\ ~referenced[Clerk(h)]
    /\ names' = [names EXCEPT ![Clerk(h)] = NoUser]
    /\ points' = [points EXCEPT ![Clerk(h)] = NoPortfolio]
    /\ EndWith(h, "done")
    /\ UNCHANGED referenced

\* tournaments.created_by and tournament_snapshots.user_id do not cascade.
DeleteRefused(h) ==
    /\ pc[h] = "arrived" /\ job[h].kind = "deleted"
    /\ lock[Clerk(h)] = NoHandler
    /\ referenced[Clerk(h)]
    /\ EndWith(h, "failed")
    /\ UNCHANGED <<names, points, referenced>>

----------------------------------------------------------------------------
(* Failures *)

\* The connection is lost before the commit.
Abort(h) ==
    /\ pc[h] \in Open
    /\ EndWith(h, "failed")
    /\ UNCHANGED <<names, points, referenced>>

\* Svix delivers again an event whose delivery failed, or whose answer it has not got.
Redeliver(h) ==
    /\ pc[h] \in Answered /\ job[h].kind # "request"
    /\ pc' = [pc EXCEPT ![h] = "arrived"]
    /\ UNCHANGED <<names, points, referenced, job, lock>>

HandlerStep(h) ==
    \/ Lookup(h)
    \/ Upsert(h) \/ UpsertFails(h)
    \/ Provision(h)
    \/ SelectPortfolio(h) \/ CommitCreated(h) \/ CommitUpdated(h)
    \/ DeleteAccount(h) \/ DeleteRefused(h)

Next ==
    \/ \E c \in Clerks : Spend(c) \/ FoundTournament(c) \/ RankMember(c)
    \/ \E h \in Handlers : HandlerStep(h) \/ Abort(h) \/ Redeliver(h)

Spec == Init /\ [][Next]_vars

\* A call goes on when it can, a failed delivery is repeated, and a connection is
\* not lost at every attempt.
Fairness ==
    \A h \in Handlers :
        /\ SF_vars(Lookup(h) \/ Upsert(h) \/ DeleteAccount(h))
        /\ SF_vars(SelectPortfolio(h))
        /\ SF_vars(Provision(h) \/ CommitCreated(h) \/ CommitUpdated(h))
        /\ WF_vars(pc[h] = "failed" /\ Redeliver(h))

FairSpec == Spec /\ Fairness

----------------------------------------------------------------------------
(* Properties *)

TypeOK ==
    /\ names \in [Clerks -> {NoUser} \cup SUBSET Names]
    /\ points \in [Clerks -> Nat \cup {NoPortfolio}]
    /\ referenced \in [Clerks -> BOOLEAN]
    /\ job \in [Handlers -> Calls]
    /\ pc \in [Handlers -> {"arrived"} \cup Open \cup Answered]
    /\ lock \in [Clerks -> Handlers \cup {NoHandler}]

\* INV-08: a user row always has its portfolio row; the endpoints behind
\* get_current_user take it for granted.
UserHasPortfolio == \A c \in Clerks : names[c] # NoUser => points[c] # NoPortfolio

\* No user.updated of the user is on its way.
NoUpdate(c) == \A h \in Handlers : job[h].kind = "updated" => Clerk(h) # c

\* INV-08 for the users of whom no user.updated arrives: first requests, creations and
\* deletions, repeated and in any order, leave no user without a portfolio.
PortfolioUnlessUpdated ==
    \A c \in Clerks : NoUpdate(c) /\ names[c] # NoUser => points[c] # NoPortfolio

\* However provisioning, duplicate deliveries and trades interleave, nobody's
\* balance is ever set back to the opening balance.
BalanceNeverReset ==
    [][\A c \in Clerks :
          points[c] # NoPortfolio /\ points'[c] # NoPortfolio
              => points'[c] <= points[c]]_vars

\* The check-then-insert of user.created cannot hit the unique constraint: the
\* upsert before it holds the user row.
PortfolioCheckStaysValid ==
    \A h \in Handlers :
        /\ pc[h] = "absent" => points[Clerk(h)] = NoPortfolio
        /\ pc[h] = "present" => points[Clerk(h)] # NoPortfolio

\* No other user claims the address or the username, and no row outlives a user to be
\* deleted.  The other events fail at every delivery.
Deliverable(h) ==
    /\ job[h].kind # "request"
    /\ job[h].kind = "deleted" => Clerk(h) \notin Founders \cup Competitors
    /\ \A g \in Handlers : job[g].names \cap job[h].names # {} => Clerk(g) = Clerk(h)

\* Every event that can be processed is processed at last, however many deliveries fail.
EventsProcessed ==
    \A h \in Handlers : Deliverable(h) => <>(pc[h] = "done")

----------------------------------------------------------------------------
(* The inductive invariant *)

\* Past its upsert a call holds the row of its user.
LockInv ==
    \A h \in Handlers :
        /\ pc[h] \in Open \ {"missing"} => lock[Clerk(h)] = h
        /\ pc[h] \in {"absent", "present"} => job[h].kind = "created"

\* What every step keeps.
IInv == TypeOK /\ LockInv /\ PortfolioCheckStaysValid
=============================================================================
