------------------------------- MODULE Requests -------------------------------
(***************************************************************************)
(* The HTTP API at work: requests served at the same time, each in a       *)
(* transaction of its own at READ COMMITTED.  WithdrawalService::create    *)
(* (idempotent insert, facts, policy, reservation), approve and cancel,    *)
(* the paginated list of withdrawals, and the deposit address requests of  *)
(* Addresses, over the withdrawals table and the ledger.                   *)
(*                                                                         *)
(* Withdrawals pick up where this module ends: here the pipeline does not  *)
(* run, and an accepted withdrawal is one that holds a reservation.        *)
(***************************************************************************)
EXTENDS Addresses, Risk

CONSTANTS
    Requested,   \* bodies of POST /v1/withdrawals
    Chain,
    HotWallet,
    PageLimits,  \* the limits a client may ask for
    MaxPage,     \* http.max_page_size
    MaxRows,     \* bound on the rows of the withdrawals table
    MaxRequests, \* bound on the POST requests served
    OpeningLedger,
    NoBody

ASSUME RequestsAssumption ==
    /\ \A body \in Requested : body.user \in Users /\ body.amount \in Nat \ {0}
    /\ MaxAmount \in Nat /\ MaxRows \in Nat /\ MaxRequests \in Nat
    /\ MaxPage \in Nat \ {0} /\ PageLimits \subseteq Nat
    /\ \A key \in Keys(OpeningLedger) :
         key[1] \in {"deposit_credit", "deposit_reversal", "custody_funding"}

VARIABLES
    rows,      \* the withdrawals table, in created_at order
    ledger,    \* the ledger tables
    outbox,    \* withdrawals whose requested event is enqueued
    session,   \* the create request each session serves
    answered,  \* <<body, withdrawal>> pairs answered with 201 or 200
    walk,      \* a client paging through all withdrawals
    served     \* POST requests received so far

tables == <<rows, ledger, outbox>>
vars == <<tables, session, answered, walk, served, poolVars>>

Ids == 1 .. MaxRows
Idle == [pc |-> "idle", row |-> 0, available |-> 0, total |-> 0, count |-> 0,
         foreign |-> FALSE]
NoWalk == [before |-> -1, owed |-> {}]

\* The history of a row: the withdrawals its velocity check counted.
Absent == [body |-> NoBody, status |-> "absent", recent |-> FALSE,
           counted |-> {}]

Init ==
    /\ rows = [id \in Ids |-> Absent]
    /\ ledger = OpeningLedger
    /\ outbox = {}
    /\ session = [s \in Sessions |-> Idle]
    /\ answered = {}
    /\ walk = NoWalk
    /\ served = 0
    /\ PoolInit

InTransaction(s, pc) == session[s].pc = pc

\* A session with nothing to do takes the next request.
Receive(s) ==
    /\ InTransaction(s, "idle") /\ Claiming(s, "idle")
    /\ served < MaxRequests
    /\ served' = served + 1

EndRequest(s) == session' = [session EXCEPT ![s] = Idle]
BodyOf(s) == rows[session[s].row].body

\* The rows of open transactions are their own only.
Uncommitted == {session[s].row : s \in Sessions}
Present == {id \in Ids : rows[id].status # "absent"}
Committed == Present \ Uncommitted

-------------------------------------------------------------------------------
(* WithdrawalService::create.                                               *)

SameKey(body) ==
    {id \in Present : /\ rows[id].body.user = body.user
                      /\ rows[id].body.key = body.key}

\* Mutant: a replay is answered by its key alone.
AnyFingerprint(id, body) == TRUE

\* request_fingerprint covers the user, the amount and the destination.
SameFingerprint(id, body) == rows[id].body = body

NextId == Max({0} \cup Present) + 1

\* create_withdrawal.  INSERT ... ON CONFLICT DO NOTHING waits for an open
\* transaction that inserted the key.  A committed row answers the request:
\* a replay if the body is the same, a conflict otherwise.
CreateReplay(s, body) ==
    /\ Receive(s)
    /\ \E id \in SameKey(body) \cap Committed :
         answered' = IF SameFingerprint(id, body)
                     THEN answered \cup {<<body, id>>} ELSE answered
    /\ UNCHANGED <<tables, session, walk, poolVars>>

CreateInsert(s, body) ==
    /\ Receive(s)
    /\ SameKey(body) = {}
    /\ NextId \in Ids
    /\ rows' = [rows EXCEPT ![NextId] =
                  [body |-> body, status |-> "requested", recent |-> TRUE,
                   counted |-> {}]]
    /\ session' = [session EXCEPT ![s] = [Idle EXCEPT
                     !.pc = "balance", !.row = NextId]]
    /\ UNCHANGED <<ledger, outbox, answered, walk, poolVars>>

\* An error, the request timeout or a crash before the commit: nothing stays.
Rollback(s) ==
    /\ rows' = [rows EXCEPT ![session[s].row] = Absent]
    /\ EndRequest(s)
    /\ UNCHANGED <<ledger, outbox, answered, walk, served, poolVars>>

Abandon(s) == ~InTransaction(s, "idle") /\ Rollback(s)

\* user_balance, unlocked
ReadBalance(s) ==
    /\ InTransaction(s, "balance")
    /\ session' = [session EXCEPT
                     ![s].pc = "velocity",
                     ![s].available = ledger.balance[Available(BodyOf(s).user)]]
    /\ UNCHANGED <<tables, answered, walk, served, poolVars>>

\* Mutant: only what was accepted counts, so not the request's own row.
RecentAccepted(user) ==
    {id \in Present : /\ rows[id].body.user = user
                      /\ rows[id].recent
                      /\ rows[id].status \in {"validated", "approved"}}

\* sum_recent_withdrawals: not failed or cancelled, of the last 24 hours
RecentWithdrawals(user) ==
    {id \in Present : /\ rows[id].body.user = user
                      /\ rows[id].recent
                      /\ rows[id].status \notin {"failed", "cancelled"}}

AmountsOf(ids) == MapThenSumSet(LAMBDA id : rows[id].body.amount, ids)

\* What the query sees: its own row, which is then taken off, and committed
\* ones.  A sum beyond the largest Amount does not decode and is an error.
Counted(s) ==
    RecentWithdrawals(BodyOf(s).user) \cap (Committed \cup {session[s].row})

ReadVelocity(s) ==
    LET own == session[s].row
    IN  /\ InTransaction(s, "velocity")
        /\ IF AmountsOf(Counted(s)) > MaxAmount
           THEN Rollback(s)
           ELSE /\ session' = [session EXCEPT
                     ![s].pc = "owner",
                     ![s].total = AmountsOf(Counted(s)) - rows[own].body.amount,
                     ![s].count = Cardinality(Counted(s)) - 1]
                /\ rows' = [rows EXCEPT ![own].counted = Counted(s) \ {own}]
                /\ UNCHANGED <<ledger, outbox, answered, walk, served, poolVars>>

\* owner_of_address
ReadOwner(s) ==
    /\ InTransaction(s, "owner")
    /\ session' = [session EXCEPT
                     ![s].pc = "decide",
                     ![s].foreign = OwnerOf(BodyOf(s).destination)
                                      \ {BodyOf(s).user} # {}]
    /\ UNCHANGED <<tables, answered, walk, served, poolVars>>

RiskInput(s) ==
    [chain |-> Chain, asset_symbol |-> Asset, amount |-> BodyOf(s).amount,
     destination |-> BodyOf(s).destination, hot_wallet |-> {HotWallet},
     available_balance |-> session[s].available,
     daily_total |-> session[s].total, daily_count |-> session[s].count,
     is_foreign_deposit_address |-> session[s].foreign,
     withdrawals_enabled_for_asset |-> TRUE]

\* No window counts the row any more: its age and what it counted are dropped.
Closed(row, status) ==
    [body |-> row.body, status |-> status, recent |-> FALSE, counted |-> {}]

\* The denial is recorded and committed; the answer is an error.
CreateDenied(s) ==
    /\ InTransaction(s, "decide")
    /\ Evaluate(RiskInput(s)).verdict = "deny"
    /\ rows' = [rows EXCEPT ![session[s].row] = Closed(@, "failed")]
    /\ EndRequest(s)
    /\ UNCHANGED <<ledger, outbox, answered, walk, served, poolVars>>

Reservation(s) ==
    ReserveWithdrawal(ledger, session[s].row, BodyOf(s).user, BodyOf(s).amount)

\* The reservation, the status, the event and the commit.  An answer that gets
\* lost afterwards is one the client did not look at: no guard reads answered.
CreateReserved(s) ==
    LET id == session[s].row
        verdict == Evaluate(RiskInput(s)).verdict
    IN  /\ InTransaction(s, "decide")
        /\ verdict # "deny"
        /\ Commits(Reservation(s))
        /\ ledger' = Reservation(s)
        /\ rows' = [rows EXCEPT ![id].status =
                      IF verdict = "manual_approval"
                      THEN "validated" ELSE "approved"]
        /\ outbox' = outbox \cup {id}
        /\ answered' = answered \cup {<<BodyOf(s), id>>}
        /\ EndRequest(s)
        /\ UNCHANGED <<walk, served, poolVars>>

\* The ledger's CHECK refuses what the balance read before no longer covers.
CreateRefused(s) ==
    /\ InTransaction(s, "decide")
    /\ Evaluate(RiskInput(s)).verdict # "deny"
    /\ ~Commits(Reservation(s))
    /\ Rollback(s)

CreateStep(s) ==
    \/ \E body \in Requested : CreateReplay(s, body) \/ CreateInsert(s, body)
    \/ ReadBalance(s) \/ ReadVelocity(s) \/ ReadOwner(s)
    \/ CreateDenied(s) \/ CreateReserved(s) \/ CreateRefused(s)
    \/ Abandon(s)

-------------------------------------------------------------------------------
(* approve, cancel, the passing of a day, and the list of withdrawals.      *)

Approve(id) ==
    /\ id \in Committed
    /\ rows[id].status = "validated"
    /\ rows' = [rows EXCEPT ![id].status = "approved"]
    /\ UNCHANGED <<ledger, outbox, session, answered, walk, served, poolVars>>

\* Mutant: the reservation stays.
NothingReleased(id) == ledger

Released(id) ==
    ReleaseReservation(ledger, id, rows[id].body.user, rows[id].body.amount)

Cancel(id) ==
    /\ id \in Committed
    /\ rows[id].status \in {"validated", "approved"}
    /\ ledger' = Released(id)
    /\ rows' = [rows EXCEPT ![id] = Closed(@, "cancelled")]
    /\ UNCHANGED <<outbox, session, answered, walk, served, poolVars>>

\* 24 hours after it was created a withdrawal leaves the window.
DayPasses(id) ==
    /\ id \in Committed
    /\ rows[id].recent
    /\ \A older \in Committed : older < id => ~rows[older].recent
    /\ rows' = [rows EXCEPT ![id] = Closed(@, @.status)]
    /\ UNCHANGED <<ledger, outbox, session, answered, walk, served, poolVars>>

\* AppState::page_size
PageSize(requested) == Max({1, Min({requested, MaxPage})})

\* list_withdrawals without filters, newest first; an id stands for the pair
\* (created_at, id)
Listed(before) == {id \in Committed : id < before}

Newest(ids, n) ==
    {id \in ids : Cardinality({other \in ids : other > id}) < n}

\* Mutant: the cursor names the row fetched to see whether there are more.
CursorAtProbe(ids, n) == Min(Newest(ids, n + 1))

\* next_cursor is the last row shown
NextCursor(ids, n) == Min(Newest(ids, n))

StartWalk ==
    /\ walk = NoWalk
    /\ walk' = [before |-> MaxRows + 1, owed |-> Listed(MaxRows + 1)]
    /\ UNCHANGED <<tables, session, answered, served, poolVars>>

\* One page.  A page that shows all there is has no cursor: before is 0.
ListWithdrawals(requested) ==
    LET ids == Listed(walk.before)
        n == PageSize(requested)
    IN  /\ walk.before > 0
        /\ walk' = [owed |-> walk.owed \ Newest(ids, n),
                    before |-> IF Cardinality(ids) > n
                               THEN NextCursor(ids, n) ELSE 0]
        /\ UNCHANGED <<tables, session, answered, served, poolVars>>

EndWalk ==
    /\ walk.before = 0
    /\ walk' = NoWalk
    /\ UNCHANGED <<tables, session, answered, served, poolVars>>

-------------------------------------------------------------------------------
AddressStep ==
    /\ \/ /\ AddPoolAddress \/ \E s \in Sessions : ClaimStep(s)
          /\ UNCHANGED served
       \/ \E s \in Sessions, user \in Users : Receive(s) /\ FindAddress(s, user)
    /\ UNCHANGED <<tables, session, answered, walk>>

Next ==
    \/ \E s \in Sessions : CreateStep(s)
    \/ \E id \in Ids : Approve(id) \/ Cancel(id) \/ DayPasses(id)
    \/ StartWalk \/ EndWalk
    \/ \E requested \in PageLimits : ListWithdrawals(requested)
    \/ AddressStep

Spec == Init /\ [][Next]_vars

-------------------------------------------------------------------------------
(* Properties.                                                              *)

\* Type invariant of the tables and of what the sessions have read.
TypeOK ==
    /\ PoolTypeOK
    /\ \A id \in Present :
         /\ rows[id].body \in Requested
         /\ rows[id].status \in {"requested", "validated", "approved",
                                 "failed", "cancelled"}
         /\ rows[id].counted \subseteq Ids
    /\ ledger.balance \in [Accounts -> Int]
    /\ \A s \in Sessions :
         /\ session[s].total \in 0 .. MaxAmount
         /\ session[s].count \in Nat
    /\ walk.owed \subseteq Ids

\* Retrying is safe: all answers to a key speak of one withdrawal, which is
\* committed with the body that was sent, however the requests overlapped or
\* which of them were rolled back (api.md, "Idempotency contract").
AnswersAgree ==
    /\ \A a \in answered : a[2] \in Committed /\ rows[a[2]].body = a[1]
    /\ \A id1, id2 \in Present :
         /\ rows[id1].body.user = rows[id2].body.user
         /\ rows[id1].body.key = rows[id2].body.key
         => id1 = id2

Accepted(id) ==
    id \in Committed /\ rows[id].status \in {"validated", "approved", "cancelled"}

\* The half of the next property that is about events and postings.
OnlyAcceptedPost ==
    \A id \in Ids :
        /\ id \in outbox <=> Accepted(id)
        /\ <<"withdrawal_reserve", id>> \in Keys(ledger) <=> Accepted(id)

\* "A failure at any point leaves no reservation and no event" (service.rs):
\* what is reserved for a user is the sum of their open withdrawals, and only
\* a withdrawal that was accepted has an event or a posting.
ReservedIsAccepted ==
    /\ \A u \in Users :
         ledger.balance[Reserved(u)] =
           AmountsOf({id \in Committed :
                        /\ rows[id].body.user = u
                        /\ rows[id].status \in {"validated", "approved"}})
    /\ OnlyAcceptedPost

Live(u) == RecentWithdrawals(u) \cap Committed

\* Two withdrawals whose velocity checks did not see each other.
Overlapped(id1, id2) ==
    id1 \notin rows[id2].counted /\ id2 \notin rows[id1].counted

\* A user passes a daily cap only with requests that overlapped: the window is
\* summed without a lock, and requests one after the other never do.
CapsHoldWithoutOverlap ==
    \A u \in Users :
        (\A id1, id2 \in Live(u) : id1 # id2 => ~Overlapped(id1, id2))
        => /\ \A cap \in Limit(Policy.max_per_user_per_day,
                               [chain |-> Chain, asset_symbol |-> Asset]) :
                AmountsOf(Live(u)) <= cap
           /\ \A cap \in Policy.max_withdrawals_per_user_per_day :
                Cardinality(Live(u)) <= cap

\* A client that follows the cursors to the end was shown every withdrawal
\* that was there when it began, whatever was created, cancelled or approved
\* between its pages (routes.rs, list_withdrawals).
WalkIsComplete == walk.before = 0 => walk.owed = {}
===============================================================================
