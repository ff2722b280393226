------------------------------- MODULE Ledger -------------------------------
(***************************************************************************)
(* The general ledger: monthly periods, fiscal years, manual and document  *)
(* journals, contra journals, opening balances and the year-end close      *)
(* (server/src/services/accounting.service.ts and                          *)
(* accountingClosing.service.ts over models/accounting.repo.ts).           *)
(*                                                                         *)
(* Every posting is a READ COMMITTED transaction of two steps: it takes    *)
(* its locks and makes its checks, then inserts and commits.  Between the  *)
(* two, other transactions commit.  What keeps them apart is only what     *)
(* PostgreSQL locks: rows read FOR UPDATE, advisory locks, the unique key  *)
(* of a period, and the FOR KEY SHARE lock that an insert takes on the     *)
(* fiscal year its foreign key names, which FOR UPDATE excludes.           *)
(*                                                                         *)
(* A journal is balanced and its accounts are valid, or postJournal        *)
(* throws; what is left of its lines is their net effect on income and     *)
(* expense (pnl), which is what the close is about.                        *)
(***************************************************************************)
EXTENDS Integers, FiniteSetsExt, Functions

CONSTANTS
    Months,       \* calendar months, numbered in order
    Years, YearOf,
    EndedYears,   \* years whose end date has passed
    Branches,
    Amounts,      \* net income or expense a posted journal may carry
    Journals,     \* journal ids
    Workers,      \* requests handled at the same time
    NoJournal

VARIABLES
    isClosed,  \* fiscal_years.is_closed
    period,    \* gl_periods.status ("NONE": no row)
    gl,        \* gl_journals with the pnl of their lines (NoJournal: no row)
    tx,        \* transactions between their checks and their commit
    byCaller   \* history: journals whose source and original the caller chose

vars == <<isClosed, period, gl, tx, byCaller>>

Sources == {"MANUAL", "DOCUMENT", "MANUAL_REVERSAL",
            "OPENING_BALANCE", "YEAR_END_CLOSE"}

Journal == [source : Sources, month : Months, branch : Branches, pnl : Int,
            reversalOf : Journals \cup {NoJournal}]

MonthsOf(y) == {m \in Months : YearOf[m] = y}
StartMonth(y) == CHOOSE m \in MonthsOf(y) : \A n \in MonthsOf(y) : m <= n
EndMonth(y) == CHOOSE m \in MonthsOf(y) : \A n \in MonthsOf(y) : n <= m

ASSUME CalendarAssumption ==
    /\ Months \subseteq Nat
    /\ YearOf \in [Months -> Years]
    /\ \A y \in Years : /\ \E m \in MonthsOf(y) : \A n \in MonthsOf(y) : m <= n
                        /\ \E m \in MonthsOf(y) : \A n \in MonthsOf(y) : n <= m
    /\ \A m, n, k \in Months :
          m <= k /\ k <= n /\ YearOf[m] = YearOf[n] => YearOf[k] = YearOf[m]
    /\ EndedYears \subseteq Years

ASSUME LedgerConstants ==
    /\ Amounts \subseteq Int
    /\ IsFiniteSet(Journals)
    /\ NoJournal \notin Journals
    /\ NoJournal \notin Journal
    /\ Branches # {}

Idle == [kind |-> "idle"]

(* What a transaction knows between its checks and its commit. *)
Pending ==
    {Idle}
    \cup [kind : {"journal"}, route : {"post", "reverse", "opening"},
          entry : Journal, creates : BOOLEAN]
    \cup [kind : {"close"}, year : Years, residue : [Branches -> Int], creates : BOOLEAN]

TypeOK ==
    /\ isClosed \in [Years -> BOOLEAN]
    /\ period \in [Months -> {"NONE", "OPEN", "CLOSED"}]
    /\ gl \in [Journals -> Journal \cup {NoJournal}]
    /\ tx \in [Workers -> Pending]
    /\ byCaller \subseteq Journals

Init ==
    /\ isClosed = [y \in Years |-> FALSE]
    /\ period = [m \in Months |-> "NONE"]
    /\ gl = [j \in Journals |-> NoJournal]
    /\ tx = [w \in Workers |-> Idle]
    /\ byCaller = {}

Posted == {j \in Journals : gl[j] # NoJournal}

-----------------------------------------------------------------------------
(* Locks held by transactions in progress. *)

(* The advisory lock and the fiscal_years row lock of a close. *)
FISCAL_YEAR_CLOSE_LOCK(y) ==
    \E w \in Workers : tx[w].kind = "close" /\ tx[w].year = y

\* Mutant: the close reads the year without FOR UPDATE.
YearNotLocked(y) == TRUE

(* FOR KEY SHARE on the year a new row refers to waits for the close. *)
MayReferToYear(y) == ~FISCAL_YEAR_CLOSE_LOCK(y)

\* The month whose period row a transaction in progress has inserted.
CreatedMonth(w) ==
    IF tx[w].kind = "close" THEN EndMonth(tx[w].year) ELSE tx[w].entry.month

Creating(m) ==
    \E w \in Workers : tx[w] # Idle /\ tx[w].creates /\ CreatedMonth(w) = m

\* Mutant: the original is read without FOR UPDATE.
JournalNotLocked(j) == FALSE

JOURNAL_LOCK_BY_ID(j) ==
    \E w \in Workers : /\ tx[w].kind = "journal" /\ tx[w].route = "reverse"
                       /\ tx[w].entry.reversalOf = j

\* Mutant: no advisory lock around the check for an earlier posting.
OpeningNotLocked(b) == FALSE

OPENING_BALANCE_LOCK(b) ==
    \E w \in Workers : /\ tx[w].kind = "journal" /\ tx[w].route = "opening"
                       /\ tx[w].entry.branch = b

-----------------------------------------------------------------------------
(* Periods and years. *)

(* The period of month m is open, or it has no row and this transaction    *)
(* inserts one: nobody else has an uncommitted row for the key, and the    *)
(* year it refers to is not being closed.                                  *)
ensureOpenPeriod(m, creates) ==
    \/ period[m] = "OPEN" /\ ~creates
    \/ /\ period[m] = "NONE" /\ creates
       /\ ~Creating(m)
       /\ MayReferToYear(YearOf[m])

createPeriod(m) ==
    /\ period[m] = "NONE"
    /\ ~Creating(m)
    /\ MayReferToYear(YearOf[m])
    /\ period' = [period EXCEPT ![m] = "OPEN"]
    /\ UNCHANGED <<isClosed, gl, tx, byCaller>>

\* Mutant: a status the table's CHECK constraint does not list.
SetPeriodLocked(m, st) ==
    /\ period[m] \notin {"NONE", st}
    /\ period' = [period EXCEPT ![m] = "LOCKED"]
    /\ UNCHANGED <<isClosed, gl, tx, byCaller>>

setPeriodStatus(m, st) ==
    /\ period[m] \notin {"NONE", st}
    /\ period' = [period EXCEPT ![m] = st]
    /\ UNCHANGED <<isClosed, gl, tx, byCaller>>

(* FY_REOPEN_SQL waits for a close in progress; closing journals stay. *)
post_reopen(y) ==
    /\ isClosed[y]
    /\ ~FISCAL_YEAR_CLOSE_LOCK(y)
    /\ isClosed' = [isClosed EXCEPT ![y] = FALSE]
    /\ UNCHANGED <<period, gl, tx, byCaller>>

-----------------------------------------------------------------------------
(* Journals: the checks of each transaction, then its commit. *)

Entry(src, m, b, a, j) ==
    [source |-> src, month |-> m, branch |-> b, pnl |-> a, reversalOf |-> j]

StartEntry(w, r, e) ==
    \E c \in BOOLEAN :
        /\ tx[w] = Idle
        /\ ensureOpenPeriod(e.month, c)
        /\ tx' = [tx EXCEPT ![w] = [kind |-> "journal", route |-> r, entry |-> e,
                                    creates |-> c]]
        /\ UNCHANGED <<isClosed, period, gl, byCaller>>

(* postJournal for a document or for post_journal, which passes the whole  *)
(* body on: a voucher may name any source, and any journal as the one it   *)
(* reverses.  is_closed of the year is not read.                           *)
postJournal(w, src, m, b, a, j) == StartEntry(w, "post", Entry(src, m, b, a, j))

JOURNAL_REVERSAL_EXISTS(j) == \E k \in Posted : gl[k].reversalOf = j

(* Only a manual voucher that is not itself a contra, and only once. *)
reverseJournal(w, j, m) ==
    /\ j \in Posted
    /\ ~JOURNAL_LOCK_BY_ID(j)
    /\ gl[j].source = "MANUAL" /\ gl[j].reversalOf = NoJournal
    /\ ~JOURNAL_REVERSAL_EXISTS(j)
    /\ StartEntry(w, "reverse", Entry("MANUAL_REVERSAL", m, gl[j].branch, -gl[j].pnl, j))

OPENING_BALANCE_EXISTS(b) ==
    \E j \in Posted : gl[j].source = "OPENING_BALANCE" /\ gl[j].branch = b

(* The first open period of an open year, or else the first month of the   *)
(* first open year.                                                        *)
OpeningMonths ==
    LET open == {m \in Months : period[m] = "OPEN" /\ ~isClosed[YearOf[m]]}
        starts == {StartMonth(y) : y \in {z \in Years : ~isClosed[z]}}
    IN  IF open # {} THEN {Min(open)}
        ELSE IF starts # {} THEN {Min(starts)} ELSE {}

postOpeningBalances(w, b, a) ==
    /\ ~OPENING_BALANCE_LOCK(b)
    /\ ~OPENING_BALANCE_EXISTS(b)
    /\ \E m \in OpeningMonths :
          StartEntry(w, "opening", Entry("OPENING_BALANCE", m, b, a, NoJournal))

(* JOURNAL_INSERT_SQL and COMMIT.  The foreign keys to the year and to the *)
(* reversed journal wait for whoever has them FOR UPDATE; the unique index *)
(* refuses a second opening journal of the branch.                         *)
CommitJournal(w, j) ==
    /\ tx[w].kind = "journal"
    /\ MayReferToYear(YearOf[tx[w].entry.month])
    /\ tx[w].route = "post" => ~JOURNAL_LOCK_BY_ID(tx[w].entry.reversalOf)
    /\ tx[w].entry.source = "OPENING_BALANCE" => ~OPENING_BALANCE_EXISTS(tx[w].entry.branch)
    /\ j \notin Posted
    /\ gl' = [gl EXCEPT ![j] = tx[w].entry]
    /\ byCaller' = IF tx[w].route = "post" THEN byCaller \cup {j} ELSE byCaller
    /\ period' = IF tx[w].creates THEN [period EXCEPT ![tx[w].entry.month] = "OPEN"]
                                  ELSE period
    /\ tx' = [tx EXCEPT ![w] = Idle]
    /\ UNCHANGED isClosed

-----------------------------------------------------------------------------
(* Closing a fiscal year. *)

(* FISCAL_YEAR_PNL_BALANCE_ROWS_SQL: what income and expense accounts      *)
(* carry through the end of year y, earlier years included.                *)
Residue(y, b) ==
    SumFunctionOnSet([j \in Posted |-> gl[j].pnl],
        {j \in Posted : gl[j].branch = b /\ gl[j].month <= EndMonth(y)})

\* Mutant: only the is_closed flag stands against a second close.
NoEarlierClose(y) == FALSE

YEAR_END_CLOSE_EXISTS(y) ==
    \E j \in Posted : gl[j].source = "YEAR_END_CLOSE" /\ YearOf[gl[j].month] = y

(* The locks (no other close of the year, nobody with an uncommitted row   *)
(* that refers to it), the checks and the balances.  The closing journals  *)
(* need the period of the last month; without a residue there are none.    *)
closeFiscalYear(w, y) ==
    /\ tx[w] = Idle
    /\ ~FISCAL_YEAR_CLOSE_LOCK(y)
    /\ \A m \in MonthsOf(y) : ~Creating(m)
    /\ ~isClosed[y]
    /\ ~YEAR_END_CLOSE_EXISTS(y)
    /\ \E c \in BOOLEAN :
          /\ IF \E b \in Branches : Residue(y, b) # 0
             THEN ensureOpenPeriod(EndMonth(y), c)
             ELSE c = FALSE
          /\ tx' = [tx EXCEPT ![w] = [kind |-> "close", year |-> y, creates |-> c,
                                      residue |-> [b \in Branches |-> Residue(y, b)]]]
    /\ UNCHANGED <<isClosed, period, gl, byCaller>>

(* Journal ids are fresh and distinct (crypto.randomUUID). *)
FreshIds(Bs) ==
    {f \in [Bs -> Journals \ Posted] : \A a, b \in Bs : f[a] = f[b] => a = b}

(* One journal per branch that carries a residue, then FY_CLOSE_SQL, which *)
(* refuses a year that has not ended.                                      *)
CommitClose(w) ==
    LET y == tx[w].year
        Bs == {b \in Branches : tx[w].residue[b] # 0}
        closing(b) == Entry("YEAR_END_CLOSE", EndMonth(y), b, -tx[w].residue[b], NoJournal)
    IN  /\ tx[w].kind = "close"
        /\ y \in EndedYears
        /\ \E id \in FreshIds(Bs) :
              gl' = [j \in Journals |-> IF \E b \in Bs : id[b] = j
                                        THEN closing(CHOOSE b \in Bs : id[b] = j)
                                        ELSE gl[j]]
        /\ isClosed' = [isClosed EXCEPT ![y] = TRUE]
        /\ period' = IF tx[w].creates THEN [period EXCEPT ![EndMonth(y)] = "OPEN"] ELSE period
        /\ tx' = [tx EXCEPT ![w] = Idle]
        /\ UNCHANGED byCaller

(* A later statement throws, or the connection is lost: ROLLBACK. *)
Rollback(w) ==
    /\ tx[w] # Idle
    /\ tx' = [tx EXCEPT ![w] = Idle]
    /\ UNCHANGED <<isClosed, period, gl, byCaller>>

Next ==
    \/ \E m \in Months : createPeriod(m)
    \/ \E m \in Months, st \in {"OPEN", "CLOSED"} : setPeriodStatus(m, st)
    \/ \E y \in Years : post_reopen(y)
    \/ \E w \in Workers, src \in Sources, m \in Months, b \in Branches, a \in Amounts,
          j \in Posted \cup {NoJournal} : postJournal(w, src, m, b, a, j)
    \/ \E w \in Workers, j \in Journals, m \in Months : reverseJournal(w, j, m)
    \/ \E w \in Workers, b \in Branches, a \in Amounts : postOpeningBalances(w, b, a)
    \/ \E w \in Workers, j \in Journals : CommitJournal(w, j)
    \/ \E w \in Workers, y \in Years : closeFiscalYear(w, y)
    \/ \E w \in Workers : CommitClose(w)
    \/ \E w \in Workers : Rollback(w)

Spec == Init /\ [][Next]_vars

-----------------------------------------------------------------------------
(* Properties. *)

(* reverseJournal gives a voucher at most one contra, however many         *)
(* requests reverse it at once ("a double-click cannot post two contras"), *)
(* and none where there is one already, be it one that a caller's body     *)
(* declared: what the check saw holds until the insert.  Only a declared   *)
(* one may come after another.                                             *)
ReversedAtMostOnce ==
    /\ \A j, k \in Posted \ byCaller :
          j # k /\ gl[j].reversalOf # NoJournal => gl[j].reversalOf # gl[k].reversalOf
    /\ \A w \in Workers : tx[w].kind = "journal" /\ tx[w].route = "reverse" =>
          ~JOURNAL_REVERSAL_EXISTS(tx[w].entry.reversalOf)

(* A branch has one opening-balance journal, and the unique index has to   *)
(* refuse postOpeningBalances only where a caller's own voucher declared   *)
(* itself one: among opening requests the advisory lock and the check are  *)
(* enough.                                                                 *)
OneOpeningPerBranch ==
    /\ \A j, k \in Posted :
          /\ gl[j].source = "OPENING_BALANCE" /\ gl[k].source = "OPENING_BALANCE"
          /\ gl[j].branch = gl[k].branch
          => j = k
    /\ \A w \in Workers : tx[w].kind = "journal" /\ tx[w].route = "opening" =>
          \A j \in Posted \ byCaller :
              gl[j].source = "OPENING_BALANCE" => gl[j].branch # tx[w].entry.branch

(* "The close can never double-post": closeFiscalYear writes one closing   *)
(* journal per year and branch, whatever is reopened, posted and closed    *)
(* again in between, and none for a year that has one, be it one that a    *)
(* caller's body declared.                                                 *)
ClosedOncePerYear ==
    /\ \A j, k \in Posted \ byCaller :
          /\ gl[j].source = "YEAR_END_CLOSE" /\ gl[k].source = "YEAR_END_CLOSE"
          /\ YearOf[gl[j].month] = YearOf[gl[k].month]
          /\ gl[j].branch = gl[k].branch
          => j = k
    /\ \A w \in Workers : tx[w].kind = "close" => ~YEAR_END_CLOSE_EXISTS(tx[w].year)

(* No month of another year comes before the end of this one.              *)
FirstYear(y) == \A m \in Months : m <= EndMonth(y) => YearOf[m] = y

(* When a close commits, no branch is left with income or expense through  *)
(* the end of the year: nothing slips in between reading the balances and  *)
(* setting is_closed ("current earnings return to zero").  The close sums  *)
(* the earlier years too but locks only its own, so this is said of a year *)
(* that has none before it.                                                *)
CloseLeavesNoResidue ==
    [][\A y \in Years : FirstYear(y) /\ ~isClosed[y] /\ isClosed'[y] =>
          \A b \in Branches : Residue(y, b)' = 0]_vars

=============================================================================
