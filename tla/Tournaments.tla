---------------------------- MODULE Tournaments ----------------------------
(***************************************************************************)
(* Custom tournaments: the create and join endpoints                       *)
(* (app/api/tournament.py) and the activation and freeze tasks             *)
(* (app/workers/tournaments.py).                                           *)
(*                                                                         *)
(* Endpoints run READ COMMITTED: each statement sees the rows committed    *)
(* when it starts.  The tasks run REPEATABLE READ: every statement sees    *)
(* the snapshot of the first one, and an UPDATE of a row that was changed  *)
(* since, or the insert of a key that exists by then, fails the task.      *)
(*                                                                         *)
(* A user is worth available_points plus the refund of every open position;*)
(* trades, modelled in Trading, are the environment here: a trade moves    *)
(* value between the two parts, and other users' trades reprice positions. *)
(***************************************************************************)
EXTENDS Integers, FiniteSets, Functions

CONSTANTS
    Tours,              \* tournament ids, used and still unused
    Users,
    Portfolios,         \* the users that have a portfolio row
    Founders,           \* creators of the tournaments that exist at the start
    Requests,           \* create and join requests, each made once
    Asks,               \* what a request may ask for
    Tasks,              \* Celery processes that run the beat tasks
    OpenCap,            \* open tournaments one creator may have (10 in the code)
    StartCash,          \* opening balance of a portfolio
    MaxMoves,           \* bound on trades and repricings
    MaxCrashes,         \* bound on lost task runs
    ActivationCommits   \* TRUE: the caller of the activation commits, as freeze does;
                        \* FALSE: the Celery wrapper, which only closes the session

NotMember == -1

Jobs == [kind : {"create", "join"}, user : Users, tour : Tours]

ASSUME AsksAssumption == Asks \subseteq Jobs
ASSUME UsersAssumption == Portfolios \subseteq Users /\ IsFiniteSet(Users)
ASSUME FoundersAssumption ==
    DOMAIN Founders \subseteq Tours /\ \A t \in DOMAIN Founders : Founders[t] \in Users
ASSUME BoundsAssumption ==
    /\ OpenCap \in Nat /\ StartCash \in Nat \ {0}
    /\ MaxMoves \in Nat /\ MaxCrashes \in Nat
ASSUME CommitAssumption == ActivationCommits \in BOOLEAN

VARIABLES
    clock,      \* where now lies between start_time and end_time
    punctual,   \* who was a member when a tournament's time ran out (history)
    status,     \* tournaments.status, "absent" where there is no row
    creator,    \* tournaments.created_by
    starting,   \* tournament_members.starting_value, NotMember without a row
    frozen,     \* tournament_snapshots rows
    cash,       \* portfolios.available_points
    stock,      \* refund value of the open positions
    worths,     \* every total-value vector that was ever committed (history)
    moves, crashes,
    job, pc,    \* what a request asks for and where it stands
    value,      \* the starting value a join has computed so far
    tpc, kind,  \* where a task process stands and which task it runs
    snap,       \* its REPEATABLE READ snapshot
    totals      \* the total values it computed

time     == <<clock, punctual>>
rows     == <<status, creator, starting, frozen>>
economy  == <<cash, stock, worths, moves>>
requests == <<job, pc, value>>
tasks    == <<tpc, kind, snap, totals>>

vars == <<time, rows, economy, requests, tasks, crashes>>

Members(t) == {u \in Users : starting[t][u] # NotMember}

Worth == [u \in Users |-> cash[u] + stock[u]]

NothingRead == [due |-> {}, starting |-> [t \in Tours |-> [u \in Users |-> NotMember]],
                cash |-> [u \in Users |-> 0], stock |-> [u \in Users |-> 0]]

Init ==
    /\ clock = [t \in Tours |-> "before"]
    /\ punctual = [t \in Tours |-> {}]
    /\ status = [t \in Tours |-> IF t \in DOMAIN Founders THEN "pending" ELSE "absent"]
    /\ creator \in {c \in [Tours -> Users] : Restrict(c, DOMAIN Founders) = Founders}
    /\ starting = [t \in Tours |-> [u \in Users |-> NotMember]]
    /\ frozen = {}
    /\ cash = [u \in Users |-> IF u \in Portfolios THEN StartCash ELSE 0]
    /\ stock = [u \in Users |-> 0]
    /\ worths = {Worth}
    /\ moves = 0 /\ crashes = 0
    /\ job \in [Requests -> Asks]
    /\ pc = [r \in Requests |-> "arrived"]
    /\ value = [r \in Requests |-> 0]
    /\ tpc = [w \in Tasks |-> "idle"]
    /\ kind = [w \in Tasks |-> "activate"]
    /\ snap = [w \in Tasks |-> NothingRead]
    /\ totals = [w \in Tasks |-> [u \in Users |-> 0]]

----------------------------------------------------------------------------
(* The environment: time and the global market *)

TimePasses(t) ==
    /\ clock' = [clock EXCEPT ![t] = IF @ = "before" THEN "running" ELSE "over"]
    /\ clock[t] # "over"
    /\ punctual' = [punctual EXCEPT ![t] = IF clock[t] = "running" THEN Members(t) ELSE {}]
    /\ UNCHANGED <<rows, economy, requests, tasks, crashes>>

\* A trade of u: points become shares, or shares points, at the same value.
Trade(u) ==
    /\ moves < MaxMoves /\ u \in Portfolios
    /\ \/ cash[u] > 0
          /\ cash' = [cash EXCEPT ![u] = @ - 1] /\ stock' = [stock EXCEPT ![u] = @ + 1]
       \/ stock[u] > 0
          /\ cash' = [cash EXCEPT ![u] = @ + 1] /\ stock' = [stock EXCEPT ![u] = @ - 1]
    /\ moves' = moves + 1
    /\ worths' = worths \cup {Worth'}
    /\ UNCHANGED <<time, rows, requests, tasks, crashes>>

\* Somebody else's trade changes what the shares of u would bring.
Reprice(u) ==
    /\ moves < MaxMoves
    /\ UNCHANGED cash
    /\ stock[u] > 0
    /\ \E n \in {stock[u] - 1, stock[u] + 1} :
          cash[u] + n > 0 /\ stock' = [stock EXCEPT ![u] = n]
    /\ moves' = moves + 1
    /\ worths' = worths \cup {Worth'}
    /\ UNCHANGED <<time, rows, requests, tasks, crashes>>

----------------------------------------------------------------------------
(* POST /tournaments *)

User(r) == job[r].user
Tour(r) == job[r].tour

Open(u) == {t \in Tours : status[t] \notin {"absent", "completed"} /\ creator[t] = u}

\* T-3: the caller's open tournaments are counted; nothing is locked.
CreateCount(r) ==
    /\ pc[r] = "arrived" /\ job[r].kind = "create"
    /\ pc' = [pc EXCEPT ![r] = IF Cardinality(Open(User(r))) >= OpenCap
                               THEN "refused" ELSE "counted"]
    /\ UNCHANGED <<time, rows, economy, job, value, tasks, crashes>>

CreateInsert(r) ==
    /\ pc[r] = "counted"
    /\ status[Tour(r)] = "absent"
    /\ status' = [status EXCEPT ![Tour(r)] = "pending"]
    /\ creator' = [creator EXCEPT ![Tour(r)] = User(r)]
    /\ pc' = [pc EXCEPT ![r] = "done"]
    /\ UNCHANGED <<time, starting, frozen, economy, job, value, tasks,
                   crashes>>

----------------------------------------------------------------------------
(* POST /tournaments/join/{code} and /tournaments/{id}/join *)

MayJoin(r) ==
    /\ status[Tour(r)] # "absent"
    /\ creator[Tour(r)] # User(r)
    /\ User(r) \notin Members(Tour(r))

\* The tournament row and the membership are read; an active one will be valued.
JoinRead(r) ==
    /\ pc[r] = "arrived" /\ job[r].kind = "join"
    /\ pc' = [pc EXCEPT ![r] =
                 IF ~MayJoin(r) THEN "refused"
                 ELSE IF status[Tour(r)] = "active" THEN "valuing" ELSE "valued"]
    /\ UNCHANGED <<time, rows, economy, job, value, tasks, crashes>>

\* calculate_total_value, first statement: scalar_one() needs a portfolio row.
JoinPoints(r) ==
    /\ pc[r] = "valuing"
    /\ pc' = [pc EXCEPT ![r] = IF User(r) \in Portfolios THEN "pointed" ELSE "failed"]
    /\ value' = [value EXCEPT ![r] = IF User(r) \in Portfolios THEN cash[User(r)] ELSE 0]
    /\ UNCHANGED <<time, rows, economy, job, tasks, crashes>>

\* Second statement, with a read view of its own: the positions and their markets.
JoinPositions(r) ==
    /\ pc[r] = "pointed"
    /\ value' = [value EXCEPT ![r] = @ + stock[User(r)]]
    /\ pc' = [pc EXCEPT ![r] = "valued"]
    /\ UNCHANGED <<time, rows, economy, job, tasks, crashes>>

\* Mutant of Vacant: a table without uq_tournament_members_tour_user.
AlwaysVacant(t, u) == TRUE

\* uq_tournament_members_tour_user lets the row in.
Vacant(t, u) == starting[t][u] = NotMember

JoinInsert(r) ==
    /\ pc[r] = "valued"
    /\ Vacant(Tour(r), User(r))
    /\ starting' = [starting EXCEPT ![Tour(r)][User(r)] = value[r]]
    /\ pc' = [pc EXCEPT ![r] = "done"]
    /\ UNCHANGED <<time, status, creator, frozen, economy, job, value, tasks, crashes>>

\* Another join of the user got in first: the flush raises IntegrityError.
JoinConflicts(r) ==
    /\ pc[r] = "valued"
    /\ ~Vacant(Tour(r), User(r))
    /\ pc' = [pc EXCEPT ![r] = "failed"]
    /\ UNCHANGED <<time, rows, economy, job, value, tasks, crashes>>

----------------------------------------------------------------------------
(* The activation and freeze tasks *)

\* The status a task looks for.
Wanted(k) == IF k = "activate" THEN "pending" ELSE "active"

\* Mutant of DueClock: only a tournament that is still running is activated.
DueWithinWindow(k) == IF k = "activate" THEN {"running"} ELSE {"over"}

\* start_time <= now for the activation, end_time <= now for the freeze.
DueClock(k) == IF k = "activate" THEN {"running", "over"} ELSE {"over"}

\* Mutant of Due: the early return for tournaments nobody joined, before the status.
DueWithMembers(k) ==
    {t \in Tours : status[t] = Wanted(k) /\ clock[t] \in DueClock(k)
                    /\ (k = "freeze" => Members(t) # {})}

Due(k) == {t \in Tours : status[t] = Wanted(k) /\ clock[t] \in DueClock(k)}

\* The first SELECT fixes the snapshot; with nothing due the task returns.
TaskReads(w, k) ==
    /\ tpc[w] = "idle"
    /\ Due(k) # {}
    /\ tpc' = [tpc EXCEPT ![w] = "reading"]
    /\ kind' = [kind EXCEPT ![w] = k]
    /\ snap' = [snap EXCEPT ![w] = [due |-> Due(k), starting |-> starting,
                                    cash |-> cash, stock |-> stock]]
    /\ UNCHANGED <<time, rows, economy, requests, totals, crashes>>

\* Mutant of StockRead: a READ COMMITTED task, whose later SELECTs see later rows.
StockNow(w) == stock

\* What the SELECTs of positions and markets return under REPEATABLE READ.
StockRead(w) == snap[w].stock

\* A member without a portfolio counts as 0.
TaskValues(w) ==
    /\ tpc[w] = "reading"
    /\ totals' = [totals EXCEPT ![w] = [u \in Users |->
           IF u \in Portfolios THEN snap[w].cash[u] + StockRead(w)[u] ELSE 0]]
    /\ tpc' = [tpc EXCEPT ![w] = "valued"]
    /\ UNCHANGED <<time, rows, economy, requests, kind, snap, crashes>>

\* Mutant of Stale: concurrent runs do not conflict.
NeverStale(w) == FALSE

\* A row the task must UPDATE was changed after its snapshot: the flush fails.
Stale(w) == \E t \in snap[w].due : status[t] # Wanted(kind[w])

TaskEnds(w) ==
    /\ tpc' = [tpc EXCEPT ![w] = "idle"]
    /\ snap' = [snap EXCEPT ![w] = NothingRead]
    /\ totals' = [totals EXCEPT ![w] = [u \in Users |-> 0]]
    /\ UNCHANGED <<time, economy, requests, kind>>

\* Mutant of SeenMembers: an inner join with the portfolios.
SeenWithPortfolio(w, t) == {u \in Portfolios : snap[w].starting[t][u] # NotMember}

SeenMembers(w, t) == {u \in Users : snap[w].starting[t][u] # NotMember}

\* activate_pending_tournaments: members without a portfolio keep their placeholder.
Activate(w) ==
    /\ tpc[w] = "valued" /\ kind[w] = "activate" /\ ~Stale(w)
    /\ IF ActivationCommits
       THEN /\ starting' = [t \in Tours |-> [u \in Users |->
                   IF t \in snap[w].due /\ u \in SeenMembers(w, t) \cap Portfolios
                   THEN totals[w][u] ELSE starting[t][u]]]
            /\ status' = [t \in Tours |->
                   IF t \in snap[w].due THEN "active" ELSE status[t]]
       ELSE UNCHANGED <<starting, status>>
    /\ TaskEnds(w)
    /\ UNCHANGED <<creator, frozen, crashes>>

Profit(w, t, u) == totals[w][u] - snap[w].starting[t][u]

\* The rankings by profit, descending; the sort leaves ties in the order read.
Rankings(w, t) ==
    LET M == SeenMembers(w, t)
    IN  {rank \in Bijection(M, 1 .. Cardinality(M)) :
            \A u, v \in M : Profit(w, t, u) > Profit(w, t, v) => rank[u] < rank[v]}

SnapshotRows(w, t, rank) ==
    {[tour |-> t, user |-> u, rank |-> rank[u], total |-> totals[w][u],
      start |-> snap[w].starting[t][u], profit |-> Profit(w, t, u)] :
        u \in SeenMembers(w, t)}

\* freeze_expired_tournaments: the ranked snapshot and the status, committed at once.
Freeze(w) ==
    /\ tpc[w] = "valued" /\ kind[w] = "freeze" /\ ~Stale(w)
    /\ \E rank \in [snap[w].due -> UNION {Rankings(w, t) : t \in snap[w].due}] :
          /\ \A t \in snap[w].due : rank[t] \in Rankings(w, t)
          /\ frozen' = frozen \cup
                 UNION {SnapshotRows(w, t, rank[t]) : t \in snap[w].due}
    /\ status' = [t \in Tours |-> IF t \in snap[w].due THEN "completed" ELSE status[t]]
    /\ TaskEnds(w)
    /\ UNCHANGED <<creator, starting, crashes>>

\* Serialization failure or unique violation: the run is rolled back.
TaskConflicts(w) ==
    /\ tpc[w] = "valued" /\ Stale(w)
    /\ TaskEnds(w)
    /\ UNCHANGED <<rows, crashes>>

\* The worker or its connection is lost; the next beat starts afresh.
TaskCrashes(w) ==
    /\ tpc[w] # "idle"
    /\ crashes < MaxCrashes
    /\ crashes' = crashes + 1
    /\ TaskEnds(w)
    /\ UNCHANGED rows

----------------------------------------------------------------------------
RequestStep(r) ==
    \/ CreateCount(r) \/ CreateInsert(r)
    \/ JoinRead(r) \/ JoinPoints(r) \/ JoinPositions(r)
    \/ JoinInsert(r) \/ JoinConflicts(r)

TaskStep(w) ==
    TaskValues(w) \/ Activate(w) \/ Freeze(w) \/ TaskConflicts(w)

Next ==
    \/ \E t \in Tours : TimePasses(t)
    \/ \E u \in Users : Trade(u) \/ Reprice(u)
    \/ \E r \in Requests : RequestStep(r)
    \/ \E w \in Tasks : TaskReads(w, "activate") \/ TaskReads(w, "freeze")
    \/ \E w \in Tasks : TaskStep(w) \/ TaskCrashes(w)

Spec == Init /\ [][Next]_vars

\* Beat fires both tasks for ever, a run that is alive goes on, and time passes.
Fairness ==
    /\ \A t \in Tours : WF_vars(TimePasses(t))
    /\ \A w \in Tasks, k \in {"activate", "freeze"} : SF_vars(TaskReads(w, k))
    /\ \A w \in Tasks : WF_vars(TaskStep(w))

FairSpec == Spec /\ Fairness

----------------------------------------------------------------------------
(* Properties *)

SnapshotRow == [tour : Tours, user : Users, rank : Nat, total : Nat,
                start : Nat, profit : Int]

TypeOK ==
    /\ clock \in [Tours -> {"before", "running", "over"}]
    /\ punctual \in [Tours -> SUBSET Users]
    /\ status \in [Tours -> {"absent", "pending", "active", "completed"}]
    /\ creator \in [Tours -> Users]
    /\ starting \in [Tours -> [Users -> Nat \cup {NotMember}]]
    /\ frozen \subseteq SnapshotRow
    /\ cash \in [Users -> Nat] /\ stock \in [Users -> Nat]
    /\ worths \subseteq [Users -> Nat]
    /\ moves \in Nat /\ crashes \in Nat
    /\ job \in [Requests -> Jobs]
    /\ pc \in [Requests -> {"arrived", "counted", "valuing", "pointed", "valued",
                           "refused", "failed", "done"}]
    /\ value \in [Requests -> Nat]
    /\ tpc \in [Tasks -> {"idle", "reading", "valued"}]
    /\ kind \in [Tasks -> {"activate", "freeze"}]
    /\ snap \in [Tasks -> [due : SUBSET Tours,
                          starting : [Tours -> [Users -> Nat \cup {NotMember}]],
                          cash : [Users -> Nat], stock : [Users -> Nat]]]
    /\ totals \in [Tasks -> [Users -> Nat]]

\* Once a tournament has begun no step changes the starting value of a member:
\* neither a second join nor a late or repeated activation run moves the line
\* from which profit is counted.
StartIsLocked ==
    [][\A t \in Tours, u \in Users :
          status[t] \in {"active", "completed"} /\ u \in Members(t)
              => starting'[t][u] = starting[t][u]]_vars

\* A completed tournament is final: overlapping or repeated task runs neither
\* reopen it nor add to its board.
FrozenIsFinal ==
    [][\A t \in Tours : status[t] = "completed" =>
          /\ status'[t] = "completed"
          /\ \A row \in frozen' : row.tour = t => row \in frozen]_vars

Board(t) == {row \in frozen : row.tour = t}

\* Activation measures all the members it starts against one instant of the
\* market, however trades interleave with its reads.
ActivatedAtOneInstant ==
    [][\A t \in Tours : status[t] = "pending" /\ status'[t] = "active" =>
          \E worth \in worths : \A u \in Users :
              starting'[t][u] # starting[t][u] => starting'[t][u] = worth[u]]_vars

\* Everybody who was in the tournament when its time ran out has a place; somebody
\* who joins after that has one if the freeze still reads his membership.
EverybodyHasAPlace(t) ==
    status[t] = "completed" => \A u \in punctual[t] : \E row \in Board(t) : row.user = u

BoardIsConsistent(t) ==
    /\ EverybodyHasAPlace(t)
    /\ \E worth \in worths : \A row \in Board(t) : row.total = worth[row.user]
    /\ \A row \in Board(t) :
          /\ row.user \in Members(t) /\ row.start = starting[t][row.user]
          /\ row.profit = row.total - row.start
          /\ row.rank \in 1 .. Cardinality(Board(t))
    /\ \A a, b \in Board(t) : a # b => a.user # b.user /\ a.rank # b.rank
    /\ \A a, b \in Board(t) : a.rank < b.rank => a.profit >= b.profit

\* The board of a completed tournament: each user who was a member when its time ran
\* out has exactly one place, nobody has two, and nobody has one who is not a member
\* with the starting value shown; the places are ranked from 1 by profit, and all the
\* values are those of one instant of the market.
FrozenBoardIsConsistent == \A t \in Tours : BoardIsConsistent(t)

\* A tournament whose start time has come is activated.
TournamentsStart ==
    \A t \in Tours : status[t] = "pending" /\ clock[t] # "before" ~> status[t] = "active"

\* A tournament that is active past its end is frozen.
TournamentsEnd ==
    \A t \in Tours : status[t] = "active" /\ clock[t] = "over" ~> status[t] = "completed"

----------------------------------------------------------------------------
(* The inductive invariant behind the safety properties *)

\* A user without a portfolio is worth nothing, in the tables and in snapshots.
WorthInv ==
    /\ Worth \in worths
    /\ \A u \in Users \ Portfolios : cash[u] = 0 /\ stock[u] = 0

\* A running task computes from one committed state.
SnapInv ==
    \A w \in Tasks :
        /\ tpc[w] = "reading" =>
              /\ [u \in Users |-> snap[w].cash[u] + snap[w].stock[u]] \in worths
              /\ \A u \in Users \ Portfolios :
                    snap[w].cash[u] = 0 /\ snap[w].stock[u] = 0
        /\ tpc[w] = "valued" => totals[w] \in worths
        /\ tpc[w] # "idle" /\ kind[w] = "freeze" =>
              \A t \in snap[w].due :
                  /\ status[t] \in {"active", "completed"} /\ clock[t] = "over"
                  /\ punctual[t] \subseteq SeenMembers(w, t)
                  /\ \A u \in Users :
                        snap[w].starting[t][u] \in {NotMember, starting[t][u]}

\* Only completed tournaments have a board, and only those whose time is over complete.
NoEarlyBoard ==
    /\ \A row \in frozen : status[row.tour] = "completed"
    /\ \A t \in Tours : status[t] = "completed" => clock[t] = "over"

\* Who is counted as punctual is still a member.
PunctualStay == \A t \in Tours : punctual[t] \subseteq Members(t)

IInv ==
    /\ TypeOK
    /\ WorthInv /\ SnapInv /\ NoEarlyBoard /\ PunctualStay
    /\ FrozenBoardIsConsistent
=============================================================================
