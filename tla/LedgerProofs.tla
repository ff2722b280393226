---------------------------- MODULE LedgerProofs ----------------------------
(***************************************************************************)
(* Proofs about Ledger: the locks a posting holds between its checks and   *)
(* its commit keep the checks true, for every number of concurrent         *)
(* requests, journals, branches and fiscal years.  So no contra, opening   *)
(* or closing journal is doubled, and a close leaves no income or expense. *)
(***************************************************************************)
EXTENDS Ledger, Sums, WellFoundedInduction, TLAPS

-----------------------------------------------------------------------------
(* The inductive invariant. *)

(* The tables are functions, and a reversal or an opening is what its      *)
(* route makes it; nothing is said about what else rows contain, so the    *)
(* argument does not depend on how balances are summed.                    *)
Shape ==
    /\ gl = [j \in Journals |-> gl[j]]
    /\ tx = [w \in Workers |-> tx[w]]
    /\ \A w \in Workers : tx[w].kind = "journal" =>
          \/ tx[w].route = "post"
          \/ /\ tx[w].route = "reverse"
             /\ tx[w].entry.source = "MANUAL_REVERSAL"
             /\ tx[w].entry.reversalOf # NoJournal
          \/ /\ tx[w].route = "opening"
             /\ tx[w].entry.source = "OPENING_BALANCE"
             /\ tx[w].entry.reversalOf = NoJournal

IsReversal(w) == tx[w].kind = "journal" /\ tx[w].route = "reverse"

(* A reversal in progress is alone on its original, which has no contra. *)
ReversalLockHeld ==
    \A w \in Workers : IsReversal(w) =>
        /\ \A k \in Posted : gl[k].reversalOf # tx[w].entry.reversalOf
        /\ \A v \in Workers : v # w /\ IsReversal(v) =>
              tx[v].entry.reversalOf # tx[w].entry.reversalOf

IsOpening(w) == tx[w].kind = "journal" /\ tx[w].route = "opening"

(* An opening in progress is alone on its branch, which has none yet but   *)
(* what a caller declared to be one.                                       *)
OpeningLockHeld ==
    \A w \in Workers : IsOpening(w) =>
        /\ \A k \in Posted \ byCaller :
              gl[k].source = "OPENING_BALANCE" => gl[k].branch # tx[w].entry.branch
        /\ \A v \in Workers : v # w /\ IsOpening(v) =>
              tx[v].entry.branch # tx[w].entry.branch

(* A close in progress is alone on its year, which has no closing journal. *)
CloseLockHeld ==
    \A w \in Workers : tx[w].kind = "close" =>
        /\ tx[w].year \in Years
        /\ ~YEAR_END_CLOSE_EXISTS(tx[w].year)
        /\ \A v \in Workers : v # w /\ tx[v].kind = "close" => tx[v].year # tx[w].year

ReversalInv == Shape /\ ReversalLockHeld /\ ReversedAtMostOnce
OpeningInv  == Shape /\ OpeningLockHeld /\ OneOpeningPerBranch
CloseInv    == Shape /\ CloseLockHeld /\ ClosedOncePerYear

-----------------------------------------------------------------------------
(* What the steps do to the tables. *)

(* The last month of a year belongs to the year. *)
LEMMA EndMonthInYear ==
    ASSUME NEW y \in Years
    PROVE  EndMonth(y) \in Months /\ YearOf[EndMonth(y)] = y
  BY CalendarAssumption DEF EndMonth, MonthsOf

(* A step starts a transaction, ends one without a trace, commits one, or  *)
(* leaves journals and transactions alone.                                 *)
Starts(w, t) ==
    /\ tx[w] = Idle
    /\ tx' = [tx EXCEPT ![w] = t]
    /\ gl' = gl /\ byCaller' = byCaller

StartsJournal(w, r, e) == \E c \in BOOLEAN :
    Starts(w, [kind |-> "journal", route |-> r, entry |-> e, creates |-> c])

LEMMA StartEntryStarts ==
    ASSUME NEW w \in Workers, NEW r, NEW e, StartEntry(w, r, e)
    PROVE  StartsJournal(w, r, e)
  BY DEF StartEntry, StartsJournal, Starts

(* The journals of a close: fresh rows, one per branch, for its year. *)
ClosingRows(y) ==
    /\ \A j \in Posted : gl'[j] = gl[j]
    /\ \A j \in Journals \ Posted : gl'[j] # NoJournal =>
          /\ gl'[j].source = "YEAR_END_CLOSE"
          /\ gl'[j].month = EndMonth(y)
          /\ gl'[j].reversalOf = NoJournal
    /\ \A j, k \in Journals \ Posted :
          gl'[j] # NoJournal /\ gl'[k] # NoJournal /\ gl'[j].branch = gl'[k].branch => j = k

LEMMA CommitCloseRows ==
    ASSUME Shape, NEW w \in Workers, CommitClose(w)
    PROVE  /\ gl' = [j \in Journals |-> gl'[j]]
           /\ ClosingRows(tx[w].year)
  <1> DEFINE y == tx[w].year
             Bs == {b \in Branches : tx[w].residue[b] # 0}
             closing(b) == Entry("YEAR_END_CLOSE", EndMonth(y), b, -tx[w].residue[b], NoJournal)
  <1>1. PICK id \in FreshIds(Bs) :
            gl' = [j \in Journals |-> IF \E b \in Bs : id[b] = j
                                      THEN closing(CHOOSE b \in Bs : id[b] = j)
                                      ELSE gl[j]]
    BY DEF CommitClose
  <1>2. /\ \A b \in Bs : id[b] \in Journals \ Posted
        /\ \A a, b \in Bs : id[a] = id[b] => a = b
    BY DEF FreshIds
  <1> DEFINE of(j) == CHOOSE b \in Bs : id[b] = j
  <1>3. \A j \in Journals : (\E b \in Bs : id[b] = j) => of(j) \in Bs /\ id[of(j)] = j
    OBVIOUS
  <1>4. \A j \in Journals : /\ (\E b \in Bs : id[b] = j) => gl'[j] = closing(of(j))
                            /\ ~(\E b \in Bs : id[b] = j) => gl'[j] = gl[j]
    BY <1>1
  <1>5. \A j \in Journals \ Posted : gl[j] = NoJournal
    BY DEF Posted
  <1>6. \A b : /\ closing(b).source = "YEAR_END_CLOSE" /\ closing(b).month = EndMonth(y)
               /\ closing(b).reversalOf = NoJournal /\ closing(b).branch = b
    BY DEF Entry
  <1> HIDE DEF of, closing, Bs, y
  <1>7. \A j \in Posted : gl'[j] = gl[j]
    BY <1>2, <1>4 DEF Posted
  <1>8. \A j \in Journals \ Posted : gl'[j] # NoJournal =>
            gl'[j] = closing(of(j)) /\ of(j) \in Bs /\ id[of(j)] = j
    BY <1>3, <1>4, <1>5
  <1>9. \A j, k \in Journals \ Posted :
            gl'[j] # NoJournal /\ gl'[k] # NoJournal /\ gl'[j].branch = gl'[k].branch => j = k
    BY <1>6, <1>8
  <1> QED BY <1>1, <1>6, <1>7, <1>8, <1>9 DEF ClosingRows, y

-----------------------------------------------------------------------------
(* One step of Ledger, as the three arguments below need it. *)

Commits(w, j) ==
    /\ tx[w].kind = "journal"
    /\ j \notin Posted
    /\ ~FISCAL_YEAR_CLOSE_LOCK(YearOf[tx[w].entry.month])
    /\ tx[w].route = "post" => ~JOURNAL_LOCK_BY_ID(tx[w].entry.reversalOf)
    /\ tx[w].entry.source = "OPENING_BALANCE" => ~OPENING_BALANCE_EXISTS(tx[w].entry.branch)
    /\ gl' = [gl EXCEPT ![j] = tx[w].entry]
    /\ tx' = [tx EXCEPT ![w] = Idle]
    /\ byCaller' = IF tx[w].route = "post" THEN byCaller \cup {j} ELSE byCaller

Ends(w) == tx' = [tx EXCEPT ![w] = Idle]

StepKinds ==
    \/ UNCHANGED <<gl, tx, byCaller>>
    \/ \E w \in Workers, src \in Sources, m \in Months, b \in Branches, a \in Amounts,
          j \in Posted \cup {NoJournal} : StartsJournal(w, "post", Entry(src, m, b, a, j))
    \/ \E w \in Workers, j \in Posted, m \in Months :
          /\ ~JOURNAL_LOCK_BY_ID(j) /\ ~JOURNAL_REVERSAL_EXISTS(j)
          /\ StartsJournal(w, "reverse",
                           Entry("MANUAL_REVERSAL", m, gl[j].branch, -gl[j].pnl, j))
    \/ \E w \in Workers, b \in Branches, a \in Amounts, m \in OpeningMonths :
          /\ ~OPENING_BALANCE_LOCK(b) /\ ~OPENING_BALANCE_EXISTS(b)
          /\ StartsJournal(w, "opening", Entry("OPENING_BALANCE", m, b, a, NoJournal))
    \/ \E w \in Workers, j \in Journals : Commits(w, j)
    \/ \E w \in Workers, y \in Years, c \in BOOLEAN :
          /\ ~FISCAL_YEAR_CLOSE_LOCK(y) /\ ~YEAR_END_CLOSE_EXISTS(y)
          /\ Starts(w, [kind |-> "close", year |-> y, creates |-> c,
                        residue |-> [b \in Branches |-> Residue(y, b)]])
    \/ \E w \in Workers : /\ tx[w].kind = "close" /\ ClosingRows(tx[w].year)
                          /\ gl' = [j \in Journals |-> gl'[j]] /\ Ends(w)
                          /\ byCaller' = byCaller
    \/ \E w \in Workers : gl' = gl /\ Ends(w) /\ byCaller' = byCaller

(* Every step of the specification is one of these. *)
LEMMA StepIsOneOf ==
    ASSUME Shape, [Next]_vars
    PROVE  StepKinds
  <1>1. CASE UNCHANGED vars
    BY <1>1 DEF StepKinds, vars
  <1>2. ASSUME NEW m \in Months, createPeriod(m) \/ \E st \in {"OPEN", "CLOSED"} : setPeriodStatus(m, st)
        PROVE  StepKinds
    BY <1>2 DEF StepKinds, createPeriod, setPeriodStatus
  <1>3. ASSUME NEW y \in Years, post_reopen(y)
        PROVE  StepKinds
    BY <1>3 DEF StepKinds, post_reopen
  <1>4. ASSUME NEW w \in Workers, NEW src \in Sources, NEW m \in Months, NEW b \in Branches,
               NEW a \in Amounts, NEW j \in Posted \cup {NoJournal},
               postJournal(w, src, m, b, a, j)
        PROVE  StepKinds
    BY <1>4, StartEntryStarts DEF StepKinds, postJournal
  <1>5. ASSUME NEW w \in Workers, NEW j \in Journals, NEW m \in Months, reverseJournal(w, j, m)
        PROVE  StepKinds
    BY <1>5, StartEntryStarts DEF StepKinds, reverseJournal
  <1>6. ASSUME NEW w \in Workers, NEW b \in Branches, NEW a \in Amounts, postOpeningBalances(w, b, a)
        PROVE  StepKinds
    BY <1>6, StartEntryStarts DEF StepKinds, postOpeningBalances
  <1>7. ASSUME NEW w \in Workers, NEW j \in Journals, CommitJournal(w, j)
        PROVE  StepKinds
    BY <1>7 DEF StepKinds, CommitJournal, Commits, MayReferToYear
  <1>8. ASSUME NEW w \in Workers, NEW y \in Years, closeFiscalYear(w, y)
        PROVE  StepKinds
    <2>1. PICK c \in BOOLEAN :
              tx' = [tx EXCEPT ![w] = [kind |-> "close", year |-> y, creates |-> c,
                                       residue |-> [b \in Branches |-> Residue(y, b)]]]
      BY <1>8 DEF closeFiscalYear
    <2> QED BY <1>8, <2>1 DEF StepKinds, closeFiscalYear, Starts
  <1>9. ASSUME NEW w \in Workers, CommitClose(w)
        PROVE  StepKinds
    <2>1. tx[w].kind = "close" /\ Ends(w) /\ byCaller' = byCaller
      BY <1>9 DEF CommitClose, Ends
    <2> QED BY <1>9, <2>1, CommitCloseRows DEF StepKinds
  <1>10. ASSUME NEW w \in Workers, Rollback(w)
         PROVE  StepKinds
    BY <1>10 DEF StepKinds, Rollback, Ends
  <1> QED BY <1>1, <1>2, <1>3, <1>4, <1>5, <1>6, <1>7, <1>8, <1>9, <1>10 DEF Next

(* The tables stay functions, and the routes what they are. *)
LEMMA ShapeKept ==
    ASSUME Shape, StepKinds
    PROVE  Shape'
  <1> DEFINE Routed(t) == t.kind = "journal" =>
                 \/ t.route = "post"
                 \/ /\ t.route = "reverse" /\ t.entry.source = "MANUAL_REVERSAL"
                    /\ t.entry.reversalOf # NoJournal
                 \/ /\ t.route = "opening" /\ t.entry.source = "OPENING_BALANCE"
                    /\ t.entry.reversalOf = NoJournal
  <1>1. \A w \in Workers : Routed(tx[w])
    BY DEF Shape
  <1>2. Routed(Idle)
    BY DEF Idle
  <1>3. ASSUME NEW w \in Workers, NEW t, Routed(t), tx' = [tx EXCEPT ![w] = t]
        PROVE  /\ tx' = [v \in Workers |-> tx'[v]]
               /\ \A v \in Workers : Routed(tx'[v])
    <2>1. tx' = [v \in Workers |-> IF v = w THEN t ELSE tx[v]]
      BY <1>3 DEF Shape
    <2> HIDE DEF Routed
    <2> QED BY <1>1, <1>3, <2>1
  <1>4. ASSUME NEW w \in Workers, NEW r, NEW e, StartsJournal(w, r, e),
               \/ r = "post"
               \/ r = "reverse" /\ e.source = "MANUAL_REVERSAL" /\ e.reversalOf # NoJournal
               \/ r = "opening" /\ e.source = "OPENING_BALANCE" /\ e.reversalOf = NoJournal
        PROVE  Shape'
    <2>1. PICK c \in BOOLEAN :
              Starts(w, [kind |-> "journal", route |-> r, entry |-> e, creates |-> c])
      BY <1>4 DEF StartsJournal
    <2>2. Routed([kind |-> "journal", route |-> r, entry |-> e, creates |-> c])
      BY <1>4
    <2> HIDE DEF Routed
    <2>3. /\ tx' = [v \in Workers |-> tx'[v]] /\ gl' = gl
          /\ \A v \in Workers : Routed(tx'[v])
      BY <1>3, <2>1, <2>2 DEF Starts
    <2> QED BY <2>3 DEF Shape, Routed
  <1>5. ASSUME NEW w \in Workers, NEW y, NEW c,
               Starts(w, [kind |-> "close", year |-> y, creates |-> c,
                          residue |-> [b \in Branches |-> Residue(y, b)]])
        PROVE  Shape'
    <2> DEFINE t == [kind |-> "close", year |-> y, creates |-> c,
                     residue |-> [b \in Branches |-> Residue(y, b)]]
    <2>1. Routed(t)
      OBVIOUS
    <2> HIDE DEF Routed
    <2>2. /\ tx' = [v \in Workers |-> tx'[v]] /\ gl' = gl
          /\ \A v \in Workers : Routed(tx'[v])
      BY <1>3, <1>5, <2>1 DEF Starts
    <2> QED BY <2>2 DEF Shape, Routed
  <1>6. ASSUME NEW w \in Workers, Ends(w), gl' = [j \in Journals |-> gl'[j]] PROVE Shape'
    <2>1. /\ tx' = [v \in Workers |-> tx'[v]]
          /\ \A v \in Workers : Routed(tx'[v])
      BY <1>2, <1>3, <1>6 DEF Ends
    <2> QED BY <1>6, <2>1 DEF Shape
  <1>7. ASSUME NEW w \in Workers, NEW j \in Journals, Commits(w, j) PROVE Shape'
    <2>1. gl' = [k \in Journals |-> gl'[k]] /\ Ends(w)
      BY <1>7 DEF Commits, Shape, Ends
    <2> QED BY <1>6, <2>1
  <1>8. ASSUME NEW w \in Workers, Ends(w), gl' = gl PROVE Shape'
    <2>1. gl' = [k \in Journals |-> gl'[k]]
      BY <1>8 DEF Shape
    <2> QED BY <1>6, <1>8, <2>1
  <1>9. CASE UNCHANGED <<gl, tx, byCaller>>
    BY <1>9 DEF Shape
  <1>10. \A j \in Posted : j # NoJournal
    BY LedgerConstants DEF Posted
  <1> HIDE DEF Routed
  <1> QED BY <1>4, <1>5, <1>6, <1>7, <1>8, <1>9, <1>10 DEF StepKinds, Entry

(* Starting a transaction changes no journal and no other transaction; its *)
(* new state is the one it was given.                                      *)
LEMMA StartFacts ==
    ASSUME Shape, NEW w \in Workers, NEW x, Starts(w, x)
    PROVE  /\ gl' = gl /\ Posted' = Posted /\ byCaller' = byCaller
           /\ tx'[w] = x /\ \A v \in Workers \ {w} : tx'[v] = tx[v]
  BY DEF Starts, Shape, Posted

(* Ending a transaction leaves it idle and every other one as it was. *)
LEMMA EndFacts ==
    ASSUME Shape, NEW w \in Workers, Ends(w)
    PROVE  tx'[w].kind = "idle" /\ \A v \in Workers \ {w} : tx'[v] = tx[v]
  BY DEF Ends, Shape, Idle

(* A commit adds one journal: the entry its transaction had prepared. *)
LEMMA CommitFacts ==
    ASSUME Shape, NEW w \in Workers, NEW j \in Journals, Commits(w, j)
    PROVE  /\ Ends(w)
           /\ gl'[j] = tx[w].entry
           /\ \A k \in Journals \ {j} : gl'[k] = gl[k]
           /\ Posted' \subseteq Posted \cup {j} /\ j \notin Posted
           /\ Posted \subseteq Journals
           /\ byCaller \subseteq byCaller'
           /\ tx[w].route = "post" => j \in byCaller'
           /\ tx[w].route # "post" => byCaller' = byCaller
  BY DEF Commits, Ends, Shape, Posted

-----------------------------------------------------------------------------
(* A voucher is reversed once. *)

(* Whatever requests reverse a manual voucher at the same time, they give  *)
(* it at most one contra, and none where a caller's body has declared one: *)
(* the FOR UPDATE of reverseJournal on the original is held from the check *)
(* for an earlier contra to the commit, and the foreign key of a declared  *)
(* contra waits for it.                                                    *)
THEOREM OneContraPerVoucher == Spec => []ReversedAtMostOnce
  <1>1. Init => ReversalInv
    BY DEF Init, ReversalInv, Shape, ReversalLockHeld, IsReversal, ReversedAtMostOnce, Posted, Idle
  <1>2. ReversalInv /\ [Next]_vars => ReversalInv'
    <2> SUFFICES ASSUME ReversalInv, [Next]_vars
                 PROVE  ReversalInv'
      OBVIOUS
    <2> DEFINE Single == \A j, k \in Posted \ byCaller :
                   j # k /\ gl[j].reversalOf # NoJournal => gl[j].reversalOf # gl[k].reversalOf
    <2>0. Shape /\ ReversalLockHeld /\ Single
      BY DEF ReversalInv, ReversedAtMostOnce
    <2>1. StepKinds /\ Shape'
      BY <2>0, StepIsOneOf, ShapeKept
    <2>c. ASSUME Single', ReversalLockHeld' PROVE ReversalInv'
      BY <2>1, <2>c DEF ReversalInv, ReversedAtMostOnce, ReversalLockHeld, IsReversal,
                        JOURNAL_REVERSAL_EXISTS
    <2>2. CASE UNCHANGED <<gl, tx, byCaller>>
      BY <2>c, <2>0, <2>2 DEF ReversalLockHeld, IsReversal, Posted
    <2>3. ASSUME NEW w \in Workers, NEW x, Starts(w, x),
                 x.kind = "journal" /\ x.route = "reverse" =>
                    /\ ~JOURNAL_LOCK_BY_ID(x.entry.reversalOf)
                    /\ ~JOURNAL_REVERSAL_EXISTS(x.entry.reversalOf)
          PROVE  ReversalInv'
      <3>1. /\ gl' = gl /\ Posted' = Posted /\ byCaller' = byCaller
            /\ tx'[w] = x /\ \A v \in Workers \ {w} : tx'[v] = tx[v]
        BY <2>0, <2>3, StartFacts
      <3>2. Single'
        BY <2>0, <3>1
      <3>3. ReversalLockHeld'
        BY <2>0, <2>3, <3>1
           DEF ReversalLockHeld, IsReversal, JOURNAL_LOCK_BY_ID, JOURNAL_REVERSAL_EXISTS
      <3> QED BY <2>c, <3>2, <3>3
    <2>4. ASSUME NEW w \in Workers, NEW j \in Journals, Commits(w, j)
          PROVE  ReversalInv'
      <3>1. /\ tx'[w].kind = "idle" /\ \A v \in Workers \ {w} : tx'[v] = tx[v]
            /\ gl'[j] = tx[w].entry /\ \A k \in Journals \ {j} : gl'[k] = gl[k]
            /\ Posted' \subseteq Posted \cup {j} /\ j \notin Posted /\ Posted \subseteq Journals
            /\ byCaller \subseteq byCaller'
            /\ tx[w].route = "post" => j \in byCaller'
            /\ tx[w].kind = "journal"
            /\ tx[w].route = "post" => ~JOURNAL_LOCK_BY_ID(tx[w].entry.reversalOf)
        BY <2>0, <2>4, CommitFacts, EndFacts DEF Commits
      <3>2. IsReversal(w) => \A k \in Posted : gl[k].reversalOf # tx[w].entry.reversalOf
        BY <2>0 DEF ReversalLockHeld
      <3>3. \/ j \in byCaller' \/ tx[w].entry.reversalOf = NoJournal
            \/ \A k \in Posted : gl[k].reversalOf # tx[w].entry.reversalOf
        BY <2>0, <3>1, <3>2 DEF Shape, IsReversal
      <3>4. Single'
        BY <2>0, <3>1, <3>3
      <3>5. \A v \in Workers \ {w} : IsReversal(v) =>
                tx[w].entry.reversalOf # tx[v].entry.reversalOf
        BY <2>0, <3>1 DEF Shape, ReversalLockHeld, IsReversal, JOURNAL_LOCK_BY_ID
      <3>6. ReversalLockHeld'
        BY <2>0, <3>1, <3>5 DEF ReversalLockHeld, IsReversal
      <3> QED BY <2>c, <3>4, <3>6
    <2>5. ASSUME NEW w \in Workers, ClosingRows(tx[w].year), Ends(w), byCaller' = byCaller
          PROVE  ReversalInv'
      <3>1. tx'[w].kind = "idle" /\ \A v \in Workers \ {w} : tx'[v] = tx[v]
        BY <2>0, <2>5, EndFacts
      <3>2. \A k \in Posted' : \/ k \in Posted /\ gl'[k] = gl[k]
                               \/ gl'[k].reversalOf = NoJournal
        BY <2>5 DEF ClosingRows, Posted
      <3>3. Single'
        BY <2>0, <2>5, <3>2
      <3>4. \A v \in Workers : IsReversal(v) => tx[v].entry.reversalOf # NoJournal
        BY <2>0 DEF Shape, IsReversal
      <3>5. ReversalLockHeld'
        BY <2>0, <3>1, <3>2, <3>4 DEF ReversalLockHeld, IsReversal
      <3> QED BY <2>c, <3>3, <3>5
    <2>6. ASSUME NEW w \in Workers, gl' = gl, Ends(w), byCaller' = byCaller
          PROVE  ReversalInv'
      <3>1. tx'[w].kind = "idle" /\ \A v \in Workers \ {w} : tx'[v] = tx[v]
        BY <2>0, <2>6, EndFacts
      <3> QED BY <2>c, <2>0, <2>6, <3>1 DEF ReversalLockHeld, IsReversal, Posted
    <2>7. ASSUME NEW w \in Workers, NEW r, NEW e, StartsJournal(w, r, e),
                 r = "reverse" => /\ ~JOURNAL_LOCK_BY_ID(e.reversalOf)
                                  /\ ~JOURNAL_REVERSAL_EXISTS(e.reversalOf)
          PROVE  ReversalInv'
      BY <2>3, <2>7 DEF StartsJournal
    <2> HIDE DEF Single
    <2> QED
      BY <2>1, <2>2, <2>3, <2>4, <2>5, <2>6, <2>7 DEF StepKinds, Entry
  <1>3. ReversalInv => ReversedAtMostOnce
    BY DEF ReversalInv
  <1> QED BY <1>1, <1>2, <1>3, PTL DEF Spec

-----------------------------------------------------------------------------
(* A branch opens once. *)

(* However many requests post opening balances, a branch ends up with one. *)
(* The unique index sees to it; postOpeningBalances, whose advisory lock   *)
(* is held from the check to the commit, meets it only over a voucher that *)
(* a caller declared to be an opening.                                     *)
THEOREM OneOpening == Spec => []OneOpeningPerBranch
  <1>1. Init => OpeningInv
    BY DEF Init, OpeningInv, Shape, OpeningLockHeld, IsOpening, OneOpeningPerBranch, Posted, Idle
  <1>2. OpeningInv /\ [Next]_vars => OpeningInv'
    <2> SUFFICES ASSUME OpeningInv, [Next]_vars
                 PROVE  OpeningInv'
      OBVIOUS
    <2> DEFINE Single == \A j, k \in Posted :
                   /\ gl[j].source = "OPENING_BALANCE" /\ gl[k].source = "OPENING_BALANCE"
                   /\ gl[j].branch = gl[k].branch
                   => j = k
    <2>0. Shape /\ OpeningLockHeld /\ Single
      BY DEF OpeningInv, OneOpeningPerBranch
    <2>1. StepKinds /\ Shape'
      BY <2>0, StepIsOneOf, ShapeKept
    <2>c. ASSUME Single', OpeningLockHeld' PROVE OpeningInv'
      BY <2>1, <2>c DEF OpeningInv, OneOpeningPerBranch, OpeningLockHeld, IsOpening
    <2>2. CASE UNCHANGED <<gl, tx, byCaller>>
      BY <2>c, <2>0, <2>2 DEF OpeningLockHeld, IsOpening, Posted
    <2>3. ASSUME NEW w \in Workers, NEW x, Starts(w, x),
                 x.kind = "journal" /\ x.route = "opening" =>
                    /\ ~OPENING_BALANCE_LOCK(x.entry.branch)
                    /\ ~OPENING_BALANCE_EXISTS(x.entry.branch)
          PROVE  OpeningInv'
      <3>1. /\ gl' = gl /\ Posted' = Posted /\ byCaller' = byCaller
            /\ tx'[w] = x /\ \A v \in Workers \ {w} : tx'[v] = tx[v]
        BY <2>0, <2>3, StartFacts
      <3>2. Single'
        BY <2>0, <3>1
      <3>3. OpeningLockHeld'
        BY <2>0, <2>3, <3>1
           DEF OpeningLockHeld, IsOpening, OPENING_BALANCE_LOCK, OPENING_BALANCE_EXISTS
      <3> QED BY <2>c, <3>2, <3>3
    <2>4. ASSUME NEW w \in Workers, NEW j \in Journals, Commits(w, j)
          PROVE  OpeningInv'
      <3>1. /\ tx'[w].kind = "idle" /\ \A v \in Workers \ {w} : tx'[v] = tx[v]
            /\ gl'[j] = tx[w].entry /\ \A k \in Journals \ {j} : gl'[k] = gl[k]
            /\ Posted' \subseteq Posted \cup {j} /\ j \notin Posted /\ Posted \subseteq Journals
            /\ byCaller \subseteq byCaller'
            /\ tx[w].route = "post" => j \in byCaller'
            /\ tx[w].kind = "journal"
        BY <2>0, <2>4, CommitFacts, EndFacts DEF Commits
      <3>2. tx[w].entry.source = "OPENING_BALANCE" =>
                \A k \in Posted : ~(gl[k].source = "OPENING_BALANCE"
                                    /\ gl[k].branch = tx[w].entry.branch)
        BY <2>4 DEF Commits, OPENING_BALANCE_EXISTS
      <3>3. Single'
        BY <2>0, <3>1, <3>2
      <3>4. \A v \in Workers \ {w} : IsOpening(v) =>
                \/ j \in byCaller'
                \/ tx[w].entry.source = "OPENING_BALANCE" =>
                      tx[w].entry.branch # tx[v].entry.branch
        BY <2>0, <3>1 DEF Shape, OpeningLockHeld, IsOpening
      <3>5. OpeningLockHeld'
        BY <2>0, <3>1, <3>4 DEF OpeningLockHeld, IsOpening
      <3> QED BY <2>c, <3>3, <3>5
    <2>5. ASSUME NEW w \in Workers, ClosingRows(tx[w].year), Ends(w), byCaller' = byCaller
          PROVE  OpeningInv'
      <3>1. tx'[w].kind = "idle" /\ \A v \in Workers \ {w} : tx'[v] = tx[v]
        BY <2>0, <2>5, EndFacts
      <3>2. \A k \in Posted' : \/ k \in Posted /\ gl'[k] = gl[k]
                               \/ gl'[k].source = "YEAR_END_CLOSE"
        BY <2>5 DEF ClosingRows, Posted
      <3>3. Single'
        BY <2>0, <3>2
      <3>4. OpeningLockHeld'
        BY <2>0, <2>5, <3>1, <3>2 DEF OpeningLockHeld, IsOpening
      <3> QED BY <2>c, <3>3, <3>4
    <2>6. ASSUME NEW w \in Workers, gl' = gl, Ends(w), byCaller' = byCaller
          PROVE  OpeningInv'
      <3>1. tx'[w].kind = "idle" /\ \A v \in Workers \ {w} : tx'[v] = tx[v]
        BY <2>0, <2>6, EndFacts
      <3> QED BY <2>c, <2>0, <2>6, <3>1 DEF OpeningLockHeld, IsOpening, Posted
    <2>7. ASSUME NEW w \in Workers, NEW r, NEW e, StartsJournal(w, r, e),
                 r = "opening" => /\ ~OPENING_BALANCE_LOCK(e.branch)
                                  /\ ~OPENING_BALANCE_EXISTS(e.branch)
          PROVE  OpeningInv'
      BY <2>3, <2>7 DEF StartsJournal
    <2> HIDE DEF Single
    <2> QED
      BY <2>1, <2>2, <2>3, <2>4, <2>5, <2>6, <2>7 DEF StepKinds, Entry
  <1>3. OpeningInv => OneOpeningPerBranch
    BY DEF OpeningInv
  <1> QED BY <1>1, <1>2, <1>3, PTL DEF Spec

-----------------------------------------------------------------------------
(* A year closes once. *)

(* The locks of a close in progress hold what it has checked.              *)
LEMMA CloseLocks == Spec => []CloseInv
  <1>1. Init => CloseInv
    BY DEF Init, CloseInv, Shape, CloseLockHeld, ClosedOncePerYear, Posted, Idle
  <1>2. CloseInv /\ [Next]_vars => CloseInv'
    <2> SUFFICES ASSUME CloseInv, [Next]_vars
                 PROVE  CloseInv'
      OBVIOUS
    <2> DEFINE Single == \A j, k \in Posted \ byCaller :
                   /\ gl[j].source = "YEAR_END_CLOSE" /\ gl[k].source = "YEAR_END_CLOSE"
                   /\ YearOf[gl[j].month] = YearOf[gl[k].month]
                   /\ gl[j].branch = gl[k].branch
                   => j = k
    <2>0. Shape /\ CloseLockHeld /\ Single
      BY DEF CloseInv, ClosedOncePerYear
    <2>1. StepKinds /\ Shape'
      BY <2>0, StepIsOneOf, ShapeKept
    <2>c. ASSUME Single', CloseLockHeld' PROVE CloseInv'
      BY <2>1, <2>c DEF CloseInv, ClosedOncePerYear, CloseLockHeld
    <2>2. CASE UNCHANGED <<gl, tx, byCaller>>
      BY <2>c, <2>0, <2>2 DEF CloseLockHeld, YEAR_END_CLOSE_EXISTS, Posted
    <2>3. ASSUME NEW w \in Workers, NEW x, Starts(w, x),
                 x.kind = "close" => /\ x.year \in Years
                                     /\ ~FISCAL_YEAR_CLOSE_LOCK(x.year)
                                     /\ ~YEAR_END_CLOSE_EXISTS(x.year)
          PROVE  CloseInv'
      <3>1. /\ gl' = gl /\ Posted' = Posted /\ byCaller' = byCaller
            /\ tx'[w] = x /\ \A v \in Workers \ {w} : tx'[v] = tx[v]
        BY <2>0, <2>3, StartFacts
      <3>2. Single'
        BY <2>0, <3>1
      <3>3. CloseLockHeld'
        BY <2>0, <2>3, <3>1
           DEF CloseLockHeld, FISCAL_YEAR_CLOSE_LOCK, YEAR_END_CLOSE_EXISTS
      <3> QED BY <2>c, <3>2, <3>3
    <2>4. ASSUME NEW w \in Workers, NEW j \in Journals, Commits(w, j)
          PROVE  CloseInv'
      <3>1. /\ tx'[w].kind = "idle" /\ \A v \in Workers \ {w} : tx'[v] = tx[v]
            /\ gl'[j] = tx[w].entry /\ \A k \in Journals \ {j} : gl'[k] = gl[k]
            /\ Posted' \subseteq Posted \cup {j} /\ j \notin Posted /\ Posted \subseteq Journals
            /\ byCaller \subseteq byCaller'
            /\ tx[w].route = "post" => j \in byCaller'
            /\ tx[w].kind = "journal"
            /\ ~FISCAL_YEAR_CLOSE_LOCK(YearOf[tx[w].entry.month])
        BY <2>0, <2>4, CommitFacts, EndFacts DEF Commits
      <3>2. j \in byCaller' \/ gl'[j].source # "YEAR_END_CLOSE"
        BY <2>0, <3>1 DEF Shape
      <3>3. Single'
        BY <2>0, <3>1, <3>2
      <3>4. \A v \in Workers : tx[v].kind = "close" => YearOf[gl'[j].month] # tx[v].year
        BY <3>1 DEF FISCAL_YEAR_CLOSE_LOCK
      <3>5. CloseLockHeld'
        BY <2>0, <3>1, <3>4 DEF CloseLockHeld, YEAR_END_CLOSE_EXISTS
      <3> QED BY <2>c, <3>3, <3>5
    <2>5. ASSUME NEW w \in Workers, tx[w].kind = "close", ClosingRows(tx[w].year), Ends(w),
                 byCaller' = byCaller
          PROVE  CloseInv'
      <3> DEFINE y == tx[w].year
      <3>1. tx'[w].kind = "idle" /\ \A v \in Workers \ {w} : tx'[v] = tx[v]
        BY <2>0, <2>5, EndFacts
      <3>2. y \in Years /\ YearOf[EndMonth(y)] = y /\ ~YEAR_END_CLOSE_EXISTS(y)
            /\ \A v \in Workers \ {w} : tx[v].kind = "close" => tx[v].year # y
        BY <2>0, <2>5, EndMonthInYear DEF CloseLockHeld
      <3> HIDE DEF y
      <3>3. /\ \A k \in Posted' :
                  \/ k \in Posted /\ gl'[k] = gl[k]
                  \/ k \in Journals \ Posted /\ YearOf[gl'[k].month] = y
            /\ \A j, k \in Posted' \ Posted : gl'[j].branch = gl'[k].branch => j = k
        BY <2>5, <3>2 DEF ClosingRows, Posted, y
      <3>4. \A k \in Posted : ~(gl[k].source = "YEAR_END_CLOSE" /\ YearOf[gl[k].month] = y)
        BY <3>2 DEF YEAR_END_CLOSE_EXISTS
      <3>5. Single'
        BY <2>0, <2>5, <3>3, <3>4
      <3>6. CloseLockHeld'
        BY <2>0, <3>1, <3>2, <3>3 DEF CloseLockHeld, YEAR_END_CLOSE_EXISTS
      <3> QED BY <2>c, <3>5, <3>6
    <2>6. ASSUME NEW w \in Workers, gl' = gl, Ends(w), byCaller' = byCaller
          PROVE  CloseInv'
      <3>1. tx'[w].kind = "idle" /\ \A v \in Workers \ {w} : tx'[v] = tx[v]
        BY <2>0, <2>6, EndFacts
      <3> QED BY <2>c, <2>0, <2>6, <3>1 DEF CloseLockHeld, YEAR_END_CLOSE_EXISTS, Posted
    <2>7. ASSUME NEW w \in Workers, NEW r, NEW e, StartsJournal(w, r, e)
          PROVE  CloseInv'
      BY <2>3, <2>7 DEF StartsJournal
    <2> HIDE DEF Single
    <2> QED
      BY <2>1, <2>2, <2>3, <2>4, <2>5, <2>6, <2>7 DEF StepKinds
  <1> QED BY <1>1, <1>2, PTL DEF Spec

(* closeFiscalYear never gives a branch two closing journals of a year,    *)
(* however often the year is reopened and closed and whatever runs beside  *)
(* the close, and none to a year that has one, declared by a caller or     *)
(* not: its locks and its check for a YEAR_END_CLOSE journal.              *)
THEOREM OneCloseEntry == Spec => []ClosedOncePerYear
  <1>1. CloseInv => ClosedOncePerYear
    BY DEF CloseInv
  <1> QED BY <1>1, CloseLocks, PTL

-----------------------------------------------------------------------------
(* Types. *)

(* The first of a set of months is one of them. *)
LEMMA FirstMonth ==
    ASSUME NEW S, S \subseteq Months, S # {}
    PROVE  Min(S) \in S
  <1>1. S \subseteq Nat
    BY CalendarAssumption
  <1>2. PICK x \in S : \A y \in S : ~(<<y, x>> \in OpToRel(<, Nat))
    BY <1>1, NatLessThanWellFounded, WFMin
  <1>3. \A y \in S : ~(y < x)
    BY <1>1, <1>2 DEF OpToRel
  <1>4. \A y \in S : x <= y
    BY <1>1, <1>3
  <1> QED BY <1>4 DEF Min

(* Opening balances are posted in a month of the calendar. *)
LEMMA OpeningInMonths == OpeningMonths \subseteq Months
  <1> DEFINE open == {m \in Months : period[m] = "OPEN" /\ ~isClosed[YearOf[m]]}
             starts == {StartMonth(y) : y \in {z \in Years : ~isClosed[z]}}
  <1>1. \A y \in Years : StartMonth(y) \in Months
    BY CalendarAssumption DEF StartMonth, MonthsOf
  <1>2. open \subseteq Months /\ starts \subseteq Months
    BY <1>1
  <1>3. OpeningMonths = IF open # {} THEN {Min(open)} ELSE IF starts # {} THEN {Min(starts)} ELSE {}
    BY DEF OpeningMonths
  <1> HIDE DEF open, starts
  <1> QED BY <1>2, <1>3, FirstMonth

(* The journals a close sums, and their sum. *)
Summed(y, b) == {j \in Posted : gl[j].branch = b /\ gl[j].month <= EndMonth(y)}

LEMMA ResidueTyped ==
    ASSUME TypeOK, NEW y, NEW b
    PROVE  /\ IsFiniteSet(Summed(y, b))
           /\ \A j \in Posted : gl[j].pnl \in Int
           /\ Residue(y, b) \in Int
  <1> DEFINE f == [j \in Posted |-> gl[j].pnl]
  <1>1. Summed(y, b) \subseteq Posted /\ Posted \subseteq Journals
    BY DEF Summed, Posted
  <1>2. IsFiniteSet(Summed(y, b))
    BY <1>1, LedgerConstants, FS_Subset
  <1>3. \A j \in Posted : gl[j].pnl \in Int
    BY DEF TypeOK, Posted, Journal
  <1>4. \A j \in Summed(y, b) : f[j] \in Int
    BY <1>1, <1>3
  <1>5. Residue(y, b) = SumFunctionOnSet(f, Summed(y, b))
    BY DEF Residue, Summed
  <1> HIDE DEF f
  <1>6. SumFunctionOnSet(f, Summed(y, b)) \in Int
    BY <1>2, <1>4, SumType
  <1> QED BY <1>2, <1>3, <1>5, <1>6

(* A transaction in progress has the fields of its kind. *)
LEMMA PendingFields ==
    ASSUME NEW t \in Pending
    PROVE  /\ t.kind = "journal" => /\ t.entry \in Journal /\ t.creates \in BOOLEAN
                                    /\ t.route \in {"post", "reverse", "opening"}
           /\ t.kind = "close" => /\ t.year \in Years /\ t.residue \in [Branches -> Int]
                                  /\ t.creates \in BOOLEAN
           /\ t = Idle \/ t.kind \in {"journal", "close"}
           /\ Idle.kind = "idle"
  BY DEF Pending, Idle

(* A journal started in a month of the calendar is well typed. *)
LEMMA StartTyped ==
    ASSUME TypeOK, NEW w \in Workers, NEW r \in {"post", "reverse", "opening"},
           NEW src \in Sources, NEW m \in Months,
           NEW b \in Branches, NEW a \in Int, NEW j \in Journals \cup {NoJournal},
           StartEntry(w, r, Entry(src, m, b, a, j))
    PROVE  TypeOK'
  <1>1. Entry(src, m, b, a, j) \in Journal
    BY DEF Entry, Journal
  <1>2. \A c \in BOOLEAN :
            [kind |-> "journal", route |-> r, entry |-> Entry(src, m, b, a, j),
             creates |-> c] \in Pending
    BY <1>1 DEF Pending
  <1> QED BY <1>2 DEF StartEntry, TypeOK

(* Every row and every transaction in progress stays well typed, whatever  *)
(* runs at once; in particular the balances a close has read are numbers.  *)
THEOREM TypeCorrect == Spec => []TypeOK
  <1>1. Init => TypeOK
    BY DEF Init, TypeOK, Pending
  <1>2. TypeOK /\ [Next]_vars => TypeOK'
    <2> SUFFICES ASSUME TypeOK, [Next]_vars PROVE TypeOK'
      OBVIOUS
    <2>0. \A w \in Workers : Idle \in Pending /\ [tx EXCEPT ![w] = Idle] \in [Workers -> Pending]
      BY DEF TypeOK, Pending
    <2>1. ASSUME NEW m \in Months, createPeriod(m) PROVE TypeOK'
      BY <2>1 DEF createPeriod, TypeOK
    <2>2. ASSUME NEW m \in Months, NEW st \in {"OPEN", "CLOSED"}, setPeriodStatus(m, st)
          PROVE  TypeOK'
      BY <2>2 DEF setPeriodStatus, TypeOK
    <2>3. ASSUME NEW y \in Years, post_reopen(y) PROVE TypeOK'
      BY <2>3 DEF post_reopen, TypeOK
    <2>4. ASSUME NEW w \in Workers, NEW src \in Sources, NEW m \in Months,
                 NEW b \in Branches, NEW a \in Amounts, NEW j \in Posted \cup {NoJournal},
                 postJournal(w, src, m, b, a, j)
          PROVE  TypeOK'
      <3>1. j \in Journals \cup {NoJournal} /\ a \in Int
        BY LedgerConstants DEF Posted
      <3> QED BY <2>4, <3>1, StartTyped DEF postJournal
    <2>5. ASSUME NEW w \in Workers, NEW j \in Journals, NEW m \in Months, reverseJournal(w, j, m)
          PROVE  TypeOK'
      <3>1. gl[j] \in Journal
        BY <2>5 DEF reverseJournal, Posted, TypeOK
      <3>2. gl[j].branch \in Branches /\ -gl[j].pnl \in Int
        BY <3>1 DEF Journal
      <3> QED BY <2>5, <3>2, StartTyped DEF reverseJournal, Sources
    <2>6. ASSUME NEW w \in Workers, NEW b \in Branches, NEW a \in Amounts,
                 postOpeningBalances(w, b, a)
          PROVE  TypeOK'
      BY <2>6, StartTyped, OpeningInMonths, LedgerConstants DEF postOpeningBalances, Sources
    <2>7. ASSUME NEW w \in Workers, NEW j \in Journals, CommitJournal(w, j) PROVE TypeOK'
      <3>1. tx[w].entry \in Journal
        BY <2>7, PendingFields DEF CommitJournal, TypeOK
      <3>2. tx[w].entry.month \in Months
        BY <3>1 DEF Journal
      <3> QED BY <2>0, <2>7, <3>1, <3>2 DEF CommitJournal, TypeOK
    <2>8. ASSUME NEW w \in Workers, NEW y \in Years, closeFiscalYear(w, y) PROVE TypeOK'
      <3>1. [b \in Branches |-> Residue(y, b)] \in [Branches -> Int]
        BY ResidueTyped
      <3>2. PICK c \in BOOLEAN :
                tx' = [tx EXCEPT ![w] = [kind |-> "close", year |-> y, creates |-> c,
                                         residue |-> [b \in Branches |-> Residue(y, b)]]]
        BY <2>8 DEF closeFiscalYear
      <3> DEFINE r == [b \in Branches |-> Residue(y, b)]
      <3> HIDE DEF r
      <3>3. [kind |-> "close", year |-> y, creates |-> c, residue |-> r] \in Pending
        BY <3>1 DEF Pending, r
      <3> QED BY <2>8, <3>2, <3>3 DEF closeFiscalYear, TypeOK, r
    <2>9. ASSUME NEW w \in Workers, CommitClose(w) PROVE TypeOK'
      <3> DEFINE y == tx[w].year
                 Bs == {b \in Branches : tx[w].residue[b] # 0}
                 closing(b) == Entry("YEAR_END_CLOSE", EndMonth(y), b, -tx[w].residue[b], NoJournal)
      <3>1. y \in Years /\ tx[w].residue \in [Branches -> Int] /\ EndMonth(y) \in Months
        BY <2>9, PendingFields, EndMonthInYear DEF CommitClose, TypeOK
      <3>2. \A b \in Bs : closing(b) \in Journal
        BY <3>1 DEF Entry, Journal, Sources
      <3>3. \E id \in FreshIds(Bs) :
                gl' = [j \in Journals |-> IF \E b \in Bs : id[b] = j
                                          THEN closing(CHOOSE b \in Bs : id[b] = j)
                                          ELSE gl[j]]
        BY <2>9 DEF CommitClose
      <3> HIDE DEF Bs, closing, y
      <3>4. gl' \in [Journals -> Journal \cup {NoJournal}]
        BY <3>2, <3>3 DEF TypeOK
      <3>5. isClosed' \in [Years -> BOOLEAN] /\ period' \in [Months -> {"NONE", "OPEN", "CLOSED"}]
        BY <2>9, <3>1 DEF CommitClose, TypeOK, y
      <3> QED BY <2>0, <2>9, <3>4, <3>5 DEF CommitClose, TypeOK
    <2>10. ASSUME NEW w \in Workers, Rollback(w) PROVE TypeOK'
      BY <2>0, <2>10 DEF Rollback, TypeOK
    <2>11. CASE UNCHANGED vars
      BY <2>11 DEF vars, TypeOK
    <2> QED BY <2>1, <2>2, <2>3, <2>4, <2>5, <2>6, <2>7, <2>8, <2>9, <2>10, <2>11 DEF Next
  <1> QED BY <1>1, <1>2, PTL DEF Spec

-----------------------------------------------------------------------------
(* A close leaves nothing behind. *)

(* What a close in progress has read is still what the journals add up to. *)
ReadStands ==
    \A w \in Workers, y \in Years, b \in Branches :
        tx[w].kind = "close" /\ tx[w].year = y /\ FirstYear(y) => tx[w].residue[b] = Residue(y, b)

(* Journals that a close does not sum do not change what it sums. *)
LEMMA ResidueKept ==
    ASSUME TypeOK, TypeOK', NEW y, NEW b, Summed(y, b)' = Summed(y, b),
           \A j \in Posted : j \in Posted' /\ gl'[j] = gl[j]
    PROVE  Residue(y, b)' = Residue(y, b)
  <1> DEFINE f == [j \in Posted |-> gl[j].pnl]
             S == Summed(y, b)
  <1>1. IsFiniteSet(S)
    BY ResidueTyped
  <1>2. \A j \in S : f'[j] = f[j]
    BY DEF Summed
  <1>3. Residue(y, b) = SumFunctionOnSet(f, S) /\ Residue(y, b)' = SumFunctionOnSet(f', S')
    BY DEF Residue, Summed
  <1>4. S' = S
    OBVIOUS
  <1> HIDE DEF f, S
  <1>5. SumFunctionOnSet(f', S) = SumFunctionOnSet(f, S)
    BY <1>1, <1>2, SumSame
  <1> QED BY <1>3, <1>4, <1>5

(* One more journal adds its income or expense. *)
LEMMA ResidueGrows ==
    ASSUME TypeOK, TypeOK', NEW y, NEW b, NEW i \in Posted', i \notin Posted,
           Summed(y, b)' = Summed(y, b) \cup {i},
           \A j \in Posted : j \in Posted' /\ gl'[j] = gl[j]
    PROVE  Residue(y, b)' = Residue(y, b) + gl'[i].pnl
  <1> DEFINE f == [j \in Posted |-> gl[j].pnl]
             S == Summed(y, b)
  <1>1. IsFiniteSet(S) /\ i \notin S /\ (\A j \in S : f[j] \in Int)
    BY ResidueTyped DEF Summed
  <1>2. (\A j \in S : f'[j] = f[j]) /\ f'[i] = gl'[i].pnl
    BY DEF Summed
  <1>3. gl'[i].pnl \in Int
    BY DEF TypeOK, Posted, Journal
  <1>4. Residue(y, b) = SumFunctionOnSet(f, S) /\ Residue(y, b)' = SumFunctionOnSet(f', S')
    BY DEF Residue, Summed
  <1>5. S' = S \cup {i}
    OBVIOUS
  <1> HIDE DEF f, S
  <1>6. SumFunctionOnSet(f', S) = SumFunctionOnSet(f, S)
    BY <1>1, <1>2, SumSame
  <1>7. SumFunctionOnSet(f', S \cup {i}) = SumFunctionOnSet(f', S) + f'[i]
    BY <1>1, <1>2, <1>3, SumAdd
  <1> QED BY <1>2, <1>4, <1>5, <1>6, <1>7

(* The journals of a close: each goes to a branch that carried a residue,  *)
(* and takes it away.                                                      *)
LEMMA ClosingIds ==
    ASSUME TypeOK, NEW w \in Workers, CommitClose(w), NEW y, tx[w].year = y
    PROVE  \E id :
              /\ \A j \in Posted : j \in Posted' /\ gl'[j] = gl[j]
              /\ \A c \in Branches : tx[w].residue[c] # 0 =>
                    /\ id[c] \in Posted' /\ id[c] \notin Posted
                    /\ gl'[id[c]].branch = c
                    /\ gl'[id[c]].month = EndMonth(y)
                    /\ gl'[id[c]].pnl = -tx[w].residue[c]
              /\ \A j \in Posted' : j \in Posted \/
                    /\ gl'[j].month = EndMonth(y)
                    /\ \E c \in Branches : /\ tx[w].residue[c] # 0 /\ id[c] = j
                                           /\ gl'[j].branch = c
  <1> DEFINE Bs == {c \in Branches : tx[w].residue[c] # 0}
             closing(c) == Entry("YEAR_END_CLOSE", EndMonth(y), c, -tx[w].residue[c], NoJournal)
  <1>1. PICK id \in FreshIds(Bs) :
            gl' = [j \in Journals |-> IF \E c \in Bs : id[c] = j
                                      THEN closing(CHOOSE c \in Bs : id[c] = j)
                                      ELSE gl[j]]
    BY DEF CommitClose
  <1>2. /\ \A c \in Bs : id[c] \in Journals \ Posted
        /\ \A c, d \in Bs : id[c] = id[d] => c = d
    BY DEF FreshIds
  <1>3. tx[w].residue \in [Branches -> Int] /\ y \in Years /\ EndMonth(y) \in Months
    BY PendingFields, EndMonthInYear DEF CommitClose, TypeOK
  <1>4. \A c \in Bs : /\ closing(c) \in Journal
                      /\ closing(c).branch = c
                      /\ closing(c).month = EndMonth(y)
                      /\ closing(c).pnl = -tx[w].residue[c]
    BY <1>3 DEF Entry, Journal, Sources
  <1>5. \A c \in Bs : closing(c) # NoJournal
    BY <1>4, LedgerConstants
  <1>6. \A c : c \in Bs <=> c \in Branches /\ tx[w].residue[c] # 0
    OBVIOUS
  <1> HIDE DEF Bs, closing
  <1>7. \A c \in Bs : gl'[id[c]] = closing(c)
    <2> SUFFICES ASSUME NEW c \in Bs PROVE gl'[id[c]] = closing(c)
      OBVIOUS
    <2>1. (CHOOSE d \in Bs : id[d] = id[c]) = c
      BY <1>2
    <2> QED BY <1>1, <1>2, <2>1
  <1>8. \A j \in Journals : ~(\E c \in Bs : id[c] = j) => gl'[j] = gl[j]
    BY <1>1
  <1>9. \A j : j \in Posted <=> j \in Journals /\ gl[j] # NoJournal
    BY DEF Posted
  <1>10. \A j : j \in Posted' <=> j \in Journals /\ gl'[j] # NoJournal
    BY DEF Posted
  <1>11. \A j \in Posted : j \in Posted' /\ gl'[j] = gl[j]
    BY <1>2, <1>8, <1>9, <1>10
  <1>12. \A c \in Bs : id[c] \in Posted' /\ id[c] \notin Posted /\ gl'[id[c]] = closing(c)
    BY <1>2, <1>5, <1>7, <1>10
  <1>13. \A j \in Posted' : j \in Posted \/ \E c \in Bs : id[c] = j
    BY <1>8, <1>9, <1>10
  <1> QED BY <1>4, <1>6, <1>11, <1>12, <1>13

(* They take every branch's balance to zero. *)
LEMMA ClosingClears ==
    ASSUME TypeOK, TypeOK', ReadStands, NEW w \in Workers, CommitClose(w),
           NEW y \in Years, tx[w].year = y, FirstYear(y), NEW b \in Branches
    PROVE  Residue(y, b)' = 0
  <1>1. PICK id :
              /\ \A j \in Posted : j \in Posted' /\ gl'[j] = gl[j]
              /\ \A c \in Branches : tx[w].residue[c] # 0 =>
                    /\ id[c] \in Posted' /\ id[c] \notin Posted
                    /\ gl'[id[c]].branch = c
                    /\ gl'[id[c]].month = EndMonth(y)
                    /\ gl'[id[c]].pnl = -tx[w].residue[c]
              /\ \A j \in Posted' : j \in Posted \/
                    /\ gl'[j].month = EndMonth(y)
                    /\ \E c \in Branches : /\ tx[w].residue[c] # 0 /\ id[c] = j
                                           /\ gl'[j].branch = c
    BY ClosingIds
  <1>2. tx[w].residue[b] = Residue(y, b) /\ Residue(y, b) \in Int
    BY ResidueTyped DEF ReadStands, CommitClose
  <1>3. EndMonth(y) <= EndMonth(y)
    <2>1. EndMonth(y) \in Nat
      BY EndMonthInYear, CalendarAssumption
    <2> QED BY <2>1
  <1>4. \A j : j \in Summed(y, b) <=> j \in Posted /\ gl[j].branch = b /\ gl[j].month <= EndMonth(y)
    BY DEF Summed
  <1>5. \A j : j \in Summed(y, b)' <=>
                  j \in Posted' /\ gl'[j].branch = b /\ gl'[j].month <= EndMonth(y)
    BY DEF Summed
  <1>6. CASE tx[w].residue[b] = 0
    <2>1. \A j : j \in Summed(y, b)' <=> j \in Summed(y, b)
      BY <1>1, <1>4, <1>5, <1>6
    <2>2. Summed(y, b)' = Summed(y, b)
      BY <2>1
    <2>3. \A j \in Posted : j \in Posted' /\ gl'[j] = gl[j]
      BY <1>1
    <2>4. Residue(y, b)' = Residue(y, b)
      BY <2>2, <2>3, ResidueKept
    <2> QED BY <1>2, <1>6, <2>4
  <1>7. CASE tx[w].residue[b] # 0
    <2> DEFINE i == id[b]
    <2>1. /\ i \in Posted' /\ i \notin Posted
          /\ gl'[i].branch = b /\ gl'[i].month = EndMonth(y) /\ gl'[i].pnl = -Residue(y, b)
      BY <1>1, <1>2, <1>7
    <2> HIDE DEF i
    <2>2. \A j : j \in Summed(y, b)' <=> j \in Summed(y, b) \/ j = i
      BY <1>1, <1>3, <1>4, <1>5, <2>1 DEF i
    <2>3. Summed(y, b)' = Summed(y, b) \cup {i}
      BY <2>2
    <2>4. Residue(y, b)' = Residue(y, b) + gl'[i].pnl
      BY <1>1, <2>1, <2>3, ResidueGrows
    <2> QED BY <1>2, <2>1, <2>4
  <1> QED BY <1>6, <1>7

(* In a first year, the other years come after its end. *)
LEMMA LaterYears ==
    ASSUME NEW y \in Years, FirstYear(y), NEW m \in Months, YearOf[m] # y
    PROVE  ~(m <= EndMonth(y))
  BY DEF FirstYear

(* Rows of another year do not change what a close has read. *)
LEMMA OtherYearsKeep ==
    ASSUME TypeOK, TypeOK', NEW y \in Years, FirstYear(y), NEW b,
           \A j \in Posted : j \in Posted' /\ gl'[j] = gl[j],
           \A j \in Posted' : j \in Posted \/ YearOf[gl'[j].month] # y
    PROVE  Residue(y, b)' = Residue(y, b)
  <1>1. \A j \in Posted' : gl'[j].month \in Months
    BY DEF TypeOK, Posted, Journal
  <1>2. \A j \in Posted' : j \in Posted \/ ~(gl'[j].month <= EndMonth(y))
    BY <1>1, LaterYears
  <1>3. \A j : j \in Summed(y, b) <=> j \in Posted /\ gl[j].branch = b /\ gl[j].month <= EndMonth(y)
    BY DEF Summed
  <1>4. \A j : j \in Summed(y, b)' <=>
                  j \in Posted' /\ gl'[j].branch = b /\ gl'[j].month <= EndMonth(y)
    BY DEF Summed
  <1>5. \A j : j \in Summed(y, b)' <=> j \in Summed(y, b)
    BY <1>2, <1>3, <1>4
  <1>6. Summed(y, b)' = Summed(y, b)
    BY <1>5
  <1> QED BY <1>6, ResidueKept

(* A step leaves a close in progress, and what it has read, alone. *)
Undisturbed(w) ==
    tx'[w].kind = "close" =>
        /\ tx'[w] = tx[w]
        /\ \A j \in Posted : j \in Posted' /\ gl'[j] = gl[j]
        /\ \A j \in Posted' : j \in Posted \/ YearOf[gl'[j].month] # tx[w].year

LEMMA UndisturbedStands ==
    ASSUME TypeOK, TypeOK', ReadStands, NEW w \in Workers, Undisturbed(w),
           NEW y \in Years, NEW b \in Branches,
           tx'[w].kind = "close", tx'[w].year = y, FirstYear(y)
    PROVE  tx'[w].residue[b] = Residue(y, b)'
  <1>1. tx'[w] = tx[w] /\ tx[w].residue[b] = Residue(y, b)
    BY DEF Undisturbed, ReadStands
  <1>2. Residue(y, b)' = Residue(y, b)
    BY <1>1, OtherYearsKeep DEF Undisturbed
  <1> QED BY <1>1, <1>2

(* A step that posts no journal and starts no close disturbs none. *)
LEMMA QuietUndisturbed ==
    ASSUME TypeOK, gl' = gl, NEW w \in Workers, tx'[w].kind = "close" => tx'[w] = tx[w]
    PROVE  Undisturbed(w)
  BY DEF Undisturbed, Posted

(* What a close has read stands until it commits: another journal of the   *)
(* year waits for the row lock, and other years come later.                *)
LEMMA ReadKept ==
    ASSUME TypeOK, TypeOK', CloseInv, ReadStands, [Next]_vars
    PROVE  ReadStands'
  <1> SUFFICES ASSUME NEW w \in Workers, NEW y \in Years, NEW b \in Branches,
                      tx'[w].kind = "close", tx'[w].year = y, FirstYear(y)
               PROVE  tx'[w].residue[b] = Residue(y, b)'
    BY DEF ReadStands, FirstYear
  <1> SUFFICES Undisturbed(w) \/ tx'[w].residue[b] = Residue(y, b)'
    BY UndisturbedStands
  <1> DEFINE Goal == Undisturbed(w) \/ tx'[w].residue[b] = Residue(y, b)'
  <1> HIDE DEF Goal
  <1>0. \A t : \A v \in Workers : tx' = [tx EXCEPT ![v] = t] =>
            tx'[v] = t /\ \A u \in Workers \ {v} : tx'[u] = tx[u]
    BY DEF TypeOK
  <1>1. ASSUME gl' = gl, tx' = tx PROVE Goal
    BY <1>1, QuietUndisturbed DEF Goal
  <1>2. ASSUME NEW v \in Workers, NEW t, t.kind # "close", gl' = gl, tx' = [tx EXCEPT ![v] = t]
        PROVE  Goal
    <2>1. tx'[w] = tx[w]
      BY <1>0, <1>2
    <2> QED BY <1>2, <2>1, QuietUndisturbed DEF Goal
  <1>3. ASSUME NEW v \in Workers, NEW r, NEW e, StartEntry(v, r, e) PROVE Goal
    <2>1. PICK c \in BOOLEAN :
              tx' = [tx EXCEPT ![v] = [kind |-> "journal", route |-> r, entry |-> e,
                                       creates |-> c]]
      BY <1>3 DEF StartEntry
    <2>2. gl' = gl
      BY <1>3 DEF StartEntry
    <2> DEFINE t == [kind |-> "journal", route |-> r, entry |-> e, creates |-> c]
    <2>3. t.kind # "close" /\ tx' = [tx EXCEPT ![v] = t]
      BY <2>1
    <2> HIDE DEF t
    <2> QED BY <1>2, <2>2, <2>3
  <1>4. ASSUME NEW v \in Workers, NEW j \in Journals, CommitJournal(v, j) PROVE Goal
    <2>1. /\ gl' = [gl EXCEPT ![j] = tx[v].entry] /\ j \notin Posted
          /\ tx' = [tx EXCEPT ![v] = Idle] /\ Idle.kind = "idle"
          /\ ~FISCAL_YEAR_CLOSE_LOCK(YearOf[tx[v].entry.month])
      BY <1>4 DEF CommitJournal, MayReferToYear, Idle
    <2>2. v # w /\ tx'[w] = tx[w]
      BY <1>0, <2>1
    <2>3. YearOf[tx[v].entry.month] # tx[w].year
      BY <2>1, <2>2 DEF FISCAL_YEAR_CLOSE_LOCK
    <2>4. \A k \in Journals : gl'[k] = IF k = j THEN tx[v].entry ELSE gl[k]
      BY <2>1 DEF TypeOK
    <2>5. /\ \A k \in Posted : k \in Posted' /\ gl'[k] = gl[k]
          /\ \A k \in Posted' : k \in Posted \/ gl'[k] = tx[v].entry
      BY <2>1, <2>4 DEF Posted
    <2> QED BY <2>2, <2>3, <2>5 DEF Undisturbed, Goal
  <1>5. ASSUME NEW v \in Workers, NEW z \in Years, closeFiscalYear(v, z) PROVE Goal
    <2>1. PICK c \in BOOLEAN :
              tx' = [tx EXCEPT ![v] = [kind |-> "close", year |-> z, creates |-> c,
                                       residue |-> [d \in Branches |-> Residue(z, d)]]]
      BY <1>5 DEF closeFiscalYear
    <2>2. gl' = gl
      BY <1>5 DEF closeFiscalYear
    <2>3. CASE v # w
      <3>1. tx'[w] = tx[w]
        BY <1>0, <2>1, <2>3
      <3> QED BY <2>2, <3>1, QuietUndisturbed DEF Goal
    <2>4. CASE v = w
      <3>1. tx'[w] = [kind |-> "close", year |-> z, creates |-> c,
                      residue |-> [d \in Branches |-> Residue(z, d)]]
        BY <1>0, <2>1, <2>4
      <3>2. z = y /\ tx'[w].residue[b] = Residue(z, b)
        BY <3>1
      <3>3. Residue(y, b)' = Residue(y, b)
        BY <2>2 DEF Residue, Posted
      <3> QED BY <3>2, <3>3 DEF Goal
    <2> QED BY <2>3, <2>4
  <1>6. ASSUME NEW v \in Workers, CommitClose(v) PROVE Goal
    <2>1. tx' = [tx EXCEPT ![v] = Idle] /\ Idle.kind = "idle" /\ tx[v].kind = "close"
      BY <1>6 DEF CommitClose, Idle
    <2>2. v # w /\ tx'[w] = tx[w]
      BY <1>0, <2>1
    <2>3. tx[v].year \in Years /\ tx[v].year # tx[w].year
      BY <2>1, <2>2 DEF CloseInv, CloseLockHeld
    <2>4. YearOf[EndMonth(tx[v].year)] = tx[v].year
      BY <2>3, EndMonthInYear
    <2>5. /\ \A k \in Posted : k \in Posted' /\ gl'[k] = gl[k]
          /\ \A k \in Posted' : k \in Posted \/ gl'[k].month = EndMonth(tx[v].year)
      BY <1>6, ClosingIds
    <2> QED BY <2>2, <2>3, <2>4, <2>5 DEF Undisturbed, Goal
  <1>7. ASSUME NEW v \in Workers, Rollback(v) PROVE Goal
    BY <1>2, <1>7 DEF Rollback, Idle
  <1>8. ASSUME NEW m \in Months, createPeriod(m) PROVE Goal
    BY <1>1, <1>8 DEF createPeriod
  <1>9. ASSUME NEW m \in Months, NEW st \in {"OPEN", "CLOSED"}, setPeriodStatus(m, st) PROVE Goal
    BY <1>1, <1>9 DEF setPeriodStatus
  <1>10. ASSUME NEW z \in Years, post_reopen(z) PROVE Goal
    BY <1>1, <1>10 DEF post_reopen
  <1>11. ASSUME UNCHANGED vars PROVE Goal
    <2>1. gl' = gl /\ tx' = tx
      BY <1>11 DEF vars
    <2> QED BY <1>1, <2>1
  <1>12. ASSUME NEW v \in Workers, NEW src, NEW m, NEW d, NEW a, NEW j,
                postJournal(v, src, m, d, a, j)
         PROVE  Goal
    BY <1>3, <1>12 DEF postJournal
  <1>13. ASSUME NEW v \in Workers, NEW j, NEW m, reverseJournal(v, j, m) PROVE Goal
    BY <1>3, <1>13 DEF reverseJournal
  <1>14. ASSUME NEW v \in Workers, NEW d, NEW a, postOpeningBalances(v, d, a) PROVE Goal
    BY <1>3, <1>14 DEF postOpeningBalances
  <1>15. Goal
    BY <1>4, <1>5, <1>6, <1>7, <1>8, <1>9, <1>10, <1>11, <1>12, <1>13, <1>14 DEF Next
  <1> QED BY <1>15 DEF Goal

(* Only the commit of its close closes a year. *)
LEMMA ClosedByCommit ==
    ASSUME TypeOK, [Next]_vars, NEW y \in Years, ~isClosed[y], isClosed'[y]
    PROVE  \E w \in Workers : CommitClose(w) /\ tx[w].year = y
  <1> DEFINE Goal == \E w \in Workers : CommitClose(w) /\ tx[w].year = y
  <1>1. isClosed' # isClosed
    OBVIOUS
  <1>2. ASSUME NEW w \in Workers, CommitClose(w) PROVE Goal
    <2>1. isClosed' = [isClosed EXCEPT ![tx[w].year] = TRUE]
      BY <1>2 DEF CommitClose
    <2>2. tx[w].year = y
      BY <2>1 DEF TypeOK
    <2> QED BY <1>2, <2>2
  <1>3. ASSUME NEW z \in Years, post_reopen(z) PROVE Goal
    <2>1. isClosed' = [isClosed EXCEPT ![z] = FALSE]
      BY <1>3 DEF post_reopen
    <2> QED BY <2>1 DEF TypeOK
  <1> HIDE DEF Goal
  <1>4. ASSUME NEW w \in Workers, NEW r, NEW e, StartEntry(w, r, e) PROVE Goal
    BY <1>1, <1>4 DEF StartEntry
  <1>5. ASSUME NEW w, NEW src, NEW m, NEW d, NEW a, NEW j, w \in Workers,
               postJournal(w, src, m, d, a, j) \/ reverseJournal(w, d, m) \/ postOpeningBalances(w, d, a)
        PROVE  Goal
    BY <1>4, <1>5 DEF postJournal, reverseJournal, postOpeningBalances
  <1>6. ASSUME NEW w, NEW j, NEW z, CommitJournal(w, j) \/ closeFiscalYear(w, z) \/ Rollback(w)
        PROVE  Goal
    BY <1>1, <1>6 DEF CommitJournal, closeFiscalYear, Rollback
  <1>7. ASSUME NEW m, NEW st, createPeriod(m) \/ setPeriodStatus(m, st) PROVE Goal
    BY <1>1, <1>7 DEF createPeriod, setPeriodStatus
  <1>8. CASE UNCHANGED vars
    BY <1>1, <1>8 DEF vars
  <1>9. Goal
    BY <1>2, <1>3, <1>5, <1>6, <1>7, <1>8 DEF Next
  <1> QED BY <1>9 DEF Goal

(* When the close of a first year commits, no branch is left with income   *)
(* or expense through its end: closeFiscalYear holds the year's row from   *)
(* reading the balances to setting is_closed, and whatever would post into *)
(* the year waits for that row.                                            *)
THEOREM CloseIsExact == Spec => CloseLeavesNoResidue
  <1> DEFINE Exact == \A y \in Years : FirstYear(y) /\ ~isClosed[y] /\ isClosed'[y] =>
                          \A b \in Branches : Residue(y, b)' = 0
  <1>1. Init => ReadStands
    BY DEF Init, ReadStands, Idle
  <1>2. TypeOK /\ TypeOK' /\ CloseInv /\ ReadStands /\ [Next]_vars => ReadStands'
    BY ReadKept
  <1>3. TypeOK /\ TypeOK' /\ ReadStands /\ [Next]_vars => [Exact]_vars
    <2> SUFFICES ASSUME TypeOK, TypeOK', ReadStands, [Next]_vars,
                        NEW y \in Years, FirstYear(y), ~isClosed[y], isClosed'[y],
                        NEW b \in Branches
                 PROVE  Residue(y, b)' = 0
      OBVIOUS
    <2>1. PICK w \in Workers : CommitClose(w) /\ tx[w].year = y
      BY ClosedByCommit
    <2> QED BY <2>1, ClosingClears
  <1>4. Spec => [][Exact]_vars
    BY <1>1, <1>2, <1>3, TypeCorrect, CloseLocks, PTL DEF Spec
  <1> QED BY <1>4 DEF CloseLeavesNoResidue

=============================================================================
