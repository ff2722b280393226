----------------------------- MODULE SyncProofs -----------------------------
(***************************************************************************)
(* Proofs about Sync, for any set of tabs, slices and writers and any      *)
(* bounds: the types, that the stream limiter leaks no slot, and that a    *)
(* mirror or a screen is outdated only while somebody owes it a refresh.   *)
(* That the debt is paid in the end is liveness, and stays with TLC.       *)
(***************************************************************************)
EXTENDS Sync, FiniteSetTheorems, TLAPS

(* The server's state and the tabs', typed apart. *)
ServerTyped ==
    /\ db \in Rows /\ mirror \in Rows
    /\ job \in [Writers -> Jobs]
    /\ chain \in Seq(Writers) /\ unread \subseteq Slices /\ skipped \subseteq Slices
    /\ version \in Nat /\ hits \in Nat /\ dead \in Nat

ScreenTyped ==
    /\ seen \in [Tabs -> Nat]
    /\ burst \in [Tabs -> SUBSET (Slices \cup {Unknown, Other})]
    /\ slice \in [Tabs -> [Slices -> SliceRequests]]
    /\ full \in [Tabs -> FullRequests]
    /\ painted \in [Tabs -> Rows] /\ view \in [Tabs -> Rows]
    /\ notice \in [Tabs -> SUBSET (Slices \cup {Blocked})]

StreamTyped ==
    /\ conn \in [Tabs -> BOOLEAN]
    /\ stream \in [Tabs -> Seq(Messages)]
    /\ gap \in [Tabs -> SUBSET Slices] /\ late \in [Tabs -> SUBSET Slices]

SpentTyped == spent \in [writes : 0 .. MaxWrites, upsets : 0 .. MaxUpsets]

LEMMA TypeParts == TypeOK <=> ServerTyped /\ ScreenTyped /\ StreamTyped /\ SpentTyped
  BY DEF TypeOK, ServerTyped, ScreenTyped, StreamTyped, SpentTyped

(* Refreshes are queued for requests that wait for theirs, once each.      *)
ChainWaits ==
    /\ \A i \in 1 .. Len(chain) : job[chain[i]].at = "refreshing"
    /\ \A i, j \in 1 .. Len(chain) : chain[i] = chain[j] => i = j

(* A closed stream holds no message, and an event's domain is its slice,   *)
(* another one or unknown.                                                 *)
StreamsClean ==
    \A c \in Tabs :
        /\ ~conn[c] => stream[c] = <<>>
        /\ \A i \in 1 .. Len(stream[c]) :
              stream[c][i].type = "CHANGE" =>
                  stream[c][i].domain \in {Unknown, Other, stream[c][i].slice}

(* Nobody has seen more than was committed, or a later version.            *)
NobodyAhead ==
    \A c \in Tabs, s \in Slices :
        /\ view[c][s] <= db[s] /\ painted[c][s] <= version
        /\ slice[c][s].at = "answered" =>
              slice[c][s].rows <= db[s] /\ slice[c][s].version <= version
        /\ full[c].at = "answered" =>
              full[c].rows[s] <= db[s] /\ full[c].version <= version

(* An answer the gate would drop, because a full payload with a newer      *)
(* version came or is about to come in between, has nothing to add.        *)
GateDropsOld ==
    \A c \in Tabs, s \in Slices : slice[c][s].at = "answered" =>
        /\ slice[c][s].version < painted[c][s] => slice[c][s].rows <= view[c][s]
        /\ full[c].at = "answered" /\ slice[c][s].version < full[c].version =>
              slice[c][s].rows <= full[c].rows[s]

-----------------------------------------------------------------------------
(* Steps by what they leave alone. *)
TabAlone(c) ==
    \/ handleSyncEvent(c) \/ flush(c) \/ ServeFull(c) \/ ReceiveFull(c)
    \/ \E s \in Slices : ServeSlice(c, s) \/ ReceiveSlice(c, s) \/ SliceFails(c, s)
    \/ PollVersion(c) \/ ManualRefresh(c) \/ RetryFailed(c) \/ FullFails(c)

ServerAlone ==
    \/ \E w \in Writers : Rollback(w)
    \/ \E s \in Slices : LoadTable(s)
    \/ \E S \in SUBSET Slices : LoadFails(S)
    \/ Respond \/ NoticeClosed \/ AgeOut

LEMMA EveryStep ==
    ASSUME [Next]_vars
    PROVE  \/ UNCHANGED vars
           \/ ServerAlone
           \/ \E w \in Writers, s \in Slices : AnnounceInTx(w, s)
           \/ \E w \in Writers : CommitInTx(w) \/ Announce(w) \/ ErrorAfterCommit(w)
           \/ \E w \in Writers, s \in Slices : Commit(w, s)
           \/ Restart
           \/ \E c \in Tabs :
                 TabAlone(c) \/ LoseConnection(c) \/ connect(c) \/ SwitchBranch(c)
  BY DEF Next, ServerStep, TabStep, ServerAlone, TabAlone

LEMMA AloneSteps ==
    /\ ServerAlone => UNCHANGED tab
    /\ \A c \in Tabs : TabAlone(c) => UNCHANGED <<db, job, server>> /\ UNCHANGED conn
  <1>1. ServerAlone => UNCHANGED tab
    BY Zenon
    DEF ServerAlone, Rollback, LoadTable, LoadFails, Respond, NoticeClosed, AgeOut
  <1>2. ASSUME NEW c \in Tabs, TabAlone(c)
        PROVE  UNCHANGED <<db, job, server>> /\ UNCHANGED conn
    BY <1>2, Zenon
    DEF TabAlone, handleSyncEvent, flush, ServeFull, ReceiveFull, ServeSlice, ReceiveSlice,
        SliceFails, PollVersion, ManualRefresh, RetryFailed, FullFails
  <1> QED BY <1>1, <1>2

LEMMA JobFields ==
    ASSUME job \in [Writers -> Jobs], NEW w \in Writers
    PROVE  /\ job[w].at \in {"idle", "announced", "committed", "refreshing"}
           /\ job[w].at # "idle" =>
                 job[w] \in [at : {"announced", "committed", "refreshing"}, slice : Slices]
  BY DEF Jobs, Resting

LEMMA JobSet ==
    /\ Resting \in Jobs /\ Resting.at = "idle"
    /\ \A s \in Slices : \A a \in {"announced", "committed", "refreshing"} :
          [at |-> a, slice |-> s] \in Jobs
  BY DEF Jobs, Resting

(* Whoever is told nothing of some rows: the histories stay sets of slices. *)
LEMMA UntoldTyped ==
    ASSUME late \in [Tabs -> SUBSET Slices], NEW s \in Slices, NEW n
    PROVE  Untold(s, n) \in [Tabs -> SUBSET Slices]
  BY DEF Untold

(* An error after a commit: one table may count one more write.            *)
ErrorDoes(w, s, n) ==
    /\ s = job[w].slice /\ (n = db[s] \/ n = db[s] + 1)
    /\ db' = [db EXCEPT ![s] = n]
    /\ skipped' = IF mirror[s] = n THEN skipped ELSE skipped \cup {s}
    /\ late' = Untold(s, n)
    /\ job' = [job EXCEPT ![w] = Resting] /\ job[w].at # "refreshing"
    /\ UNCHANGED <<mirror, chain, unread, version, hits, dead, conn, stream, seen,
                   burst, slice, full, painted, view, notice, gap, spent>>

LEMMA ErrorStep ==
    ASSUME job \in [Writers -> Jobs], db \in Rows, NEW w \in Writers, ErrorAfterCommit(w)
    PROVE  \E s \in Slices, n \in Nat : ErrorDoes(w, s, n)
  <1>1. job[w].slice \in Slices /\ job[w].at # "refreshing"
    BY JobFields DEF ErrorAfterCommit
  <1>2. db[job[w].slice] \in Nat
    BY <1>1 DEF Rows
  <1> DEFINE s == job[w].slice
             n == IF job[w].at = "announced" THEN db[s] + 1 ELSE db[s]
  <1>3. /\ db' = [db EXCEPT ![s] = n]
        /\ skipped' = IF mirror[s] = n THEN skipped ELSE skipped \cup {s}
        /\ late' = Untold(s, n)
        /\ job' = [job EXCEPT ![w] = Resting]
        /\ UNCHANGED <<mirror, chain, unread, version, hits, dead, conn, stream, seen,
                       burst, slice, full, painted, view, notice, gap, spent>>
    BY DEF ErrorAfterCommit
  <1>4. s \in Slices /\ n \in Nat /\ (n = db[s] \/ n = db[s] + 1)
    BY <1>1, <1>2
  <1>5. ErrorDoes(w, s, n)
    BY <1>1, <1>3, <1>4 DEF ErrorDoes
  <1> HIDE DEF n
  <1> QED BY <1>4, <1>5

LEMMA RequestFields ==
    ASSUME ScreenTyped, NEW c \in Tabs
    PROVE  /\ \A s \in Slices : slice[c][s].at = "answered" =>
                 slice[c][s].rows \in Nat /\ slice[c][s].version \in Nat
           /\ full[c].at = "answered" => full[c].rows \in Rows /\ full[c].version \in Nat
  <1>1. ASSUME NEW s \in Slices, slice[c][s].at = "answered"
        PROVE  slice[c][s].rows \in Nat /\ slice[c][s].version \in Nat
    <2>1. slice[c][s] \in SliceRequests
      BY DEF ScreenTyped
    <2> QED BY <1>1, <2>1 DEF SliceRequests, NoRequest
  <1>2. ASSUME full[c].at = "answered"
        PROVE  full[c].rows \in Rows /\ full[c].version \in Nat
    <2>1. full[c] \in FullRequests
      BY DEF ScreenTyped
    <2> QED BY <1>2, <2>1 DEF FullRequests, NoRequest
  <1> QED BY <1>1, <1>2

(* Boots follow one another and the events of a boot come after it.        *)
LEMMA Versions ==
    ASSUME version \in Nat
    PROVE  /\ Era \in Nat \ {0}
           /\ EventVersion \in Nat
           /\ (version \div Era + 1) * Era \in Nat
           /\ version < (version \div Era + 1) * Era
  <1>1. Era \in Nat \ {0}
    BY SyncAssumption DEF Era
  <1>2. ASSUME NEW a \in Nat, NEW b \in Nat PROVE a * b \in Nat
    OBVIOUS
  <1>3. ASSUME NEW a \in Nat, NEW b \in Nat \ {0} PROVE a < (a \div b + 1) * b
    OBVIOUS
  <1>4. ASSUME NEW a \in Nat, NEW b \in Nat \ {0} PROVE a \div b \in Nat
    OBVIOUS
  <1>5. version \div Era \in Nat /\ version \div Era + 1 \in Nat
    BY <1>1, <1>4
  <1>6. (version \div Era) * Era \in Nat /\ (version \div Era + 1) * Era \in Nat
    BY <1>1, <1>2, <1>5
  <1>7. EventVersion \in Nat
    BY <1>1, <1>6 DEF EventVersion
  <1> QED BY <1>1, <1>3, <1>6, <1>7

-----------------------------------------------------------------------------
(* Types, part by part. *)

LEMMA ServerSteps ==
    ASSUME ServerTyped, [Next]_vars
    PROVE  ServerTyped'
  <1> DEFINE Queue == chain \in Seq(Writers) /\ unread \subseteq Slices
  <1>0. /\ db \in Rows /\ mirror \in Rows /\ job \in [Writers -> Jobs]
        /\ chain \in Seq(Writers) /\ unread \subseteq Slices /\ skipped \subseteq Slices
        /\ version \in Nat /\ hits \in Nat /\ dead \in Nat
    BY DEF ServerTyped
  <1>1. ASSUME NEW s \in Slices, db' = [db EXCEPT ![s] = @ + 1] PROVE db' \in Rows
    BY <1>0, <1>1 DEF Rows
  <1>2. ASSUME NEW w \in Writers, refreshOperationalCache(w) PROVE Queue'
    BY <1>0, <1>2 DEF refreshOperationalCache
  <1>3. ASSUME NEW w \in Writers, job[w].at # "idle",
               job' = [job EXCEPT ![w].at = "refreshing"]
        PROVE  job' \in [Writers -> Jobs] /\ job[w].slice \in Slices
    <2>1. job[w] \in [at : {"announced", "committed", "refreshing"}, slice : Slices]
      BY <1>0, <1>3, JobFields
    <2>2. [job[w] EXCEPT !.at = "refreshing"] \in Jobs
      BY <2>1 DEF Jobs
    <2> QED BY <1>0, <1>3, <2>1, <2>2
  <1>4. ASSUME NEW w \in Writers, NEW v \in Jobs, job' = [job EXCEPT ![w] = v]
        PROVE  job' \in [Writers -> Jobs]
    BY <1>0, <1>4
  <1>5. ASSUME NEW w \in Writers, NEW s \in Slices, AnnounceInTx(w, s) PROVE ServerTyped'
    BY <1>0, <1>4, <1>5, JobSet DEF AnnounceInTx, server, ServerTyped
  <1>6. ASSUME NEW w \in Writers, CommitInTx(w) PROVE ServerTyped'
    <2>1. job' \in [Writers -> Jobs] /\ job[w].slice \in Slices
      BY <1>3, <1>6 DEF CommitInTx
    <2>2. db' \in Rows
      BY <1>1, <1>6, <2>1 DEF CommitInTx
    <2>3. Queue'
      BY <1>2, <1>6 DEF CommitInTx
    <2> QED BY <1>0, <1>6, <2>1, <2>2, <2>3 DEF CommitInTx, ServerTyped
  <1>7. ASSUME NEW w \in Writers, Announce(w) PROVE ServerTyped'
    <2>1. job' \in [Writers -> Jobs]
      BY <1>3, <1>7 DEF Announce
    <2>2. Queue'
      BY <1>2, <1>7 DEF Announce
    <2>3. version' \in Nat
      BY <1>0, <1>7 DEF Announce
    <2> QED BY <1>0, <1>7, <2>1, <2>2, <2>3 DEF Announce, ServerTyped
  <1>8. ASSUME NEW w \in Writers, NEW s \in Slices, Commit(w, s) PROVE ServerTyped'
    <2>1. db' \in Rows
      BY <1>1, <1>8 DEF Commit
    <2> QED BY <1>0, <1>4, <1>8, <2>1, JobSet DEF Commit, server, ServerTyped
  <1>e. ASSUME NEW w \in Writers, ErrorAfterCommit(w) PROVE ServerTyped'
    <2>p. PICK s \in Slices, n \in Nat : ErrorDoes(w, s, n)
      BY <1>0, <1>e, ErrorStep
    <2>1. /\ db' = [db EXCEPT ![s] = n]
          /\ skipped' = IF mirror[s] = n THEN skipped ELSE skipped \cup {s}
          /\ job' = [job EXCEPT ![w] = Resting]
          /\ UNCHANGED <<mirror, chain, unread, version, hits, dead>>
      BY <2>p DEF ErrorDoes
    <2>2. db' \in Rows /\ skipped' \subseteq Slices
      BY <1>0, <2>1 DEF Rows
    <2> QED BY <1>0, <1>4, <2>1, <2>2, JobSet DEF ServerTyped
  <1>9. ASSUME NEW w \in Writers, Rollback(w) PROVE ServerTyped'
    BY <1>0, <1>4, <1>9, JobSet DEF Rollback, server, ServerTyped
  <1>10. ASSUME NEW s \in Slices, LoadTable(s) PROVE ServerTyped'
    BY <1>0, <1>10 DEF LoadTable, Rows, ServerTyped
  <1>11. ASSUME NEW S \in SUBSET Slices, LoadFails(S) PROVE ServerTyped'
    BY <1>0, <1>11 DEF LoadFails, ServerTyped
  <1>12. CASE Respond
    <2>1. Head(chain) \in Writers /\ Tail(chain) \in Seq(Writers)
      BY <1>0, <1>12 DEF Respond
    <2>2. job' \in [Writers -> Jobs]
      BY <1>4, <1>12, <2>1, JobSet DEF Respond
    <2> QED BY <1>0, <1>12, <2>1, <2>2 DEF Respond, ServerTyped
  <1>13. CASE NoticeClosed \/ AgeOut
    BY <1>0, <1>13 DEF NoticeClosed, AgeOut, StreamClosed, revoke, ServerTyped
  <1>14. ASSUME NEW c \in Tabs, LoseConnection(c) \/ connect(c) \/ SwitchBranch(c)
         PROVE  ServerTyped'
    BY <1>0, <1>14 DEF LoseConnection, connect, SwitchBranch, ServerTyped
  <1>15. CASE Restart
    BY <1>0, <1>15, JobSet, Versions DEF Restart, ServerTyped
  <1>16. ASSUME UNCHANGED <<db, job, server>> PROVE ServerTyped'
    BY <1>0, <1>16 DEF server, ServerTyped
  <1>17. ASSUME NEW c \in Tabs, TabAlone(c) PROVE ServerTyped'
    BY <1>16, <1>17, AloneSteps
  <1>18. CASE ServerAlone
    BY <1>9, <1>10, <1>11, <1>12, <1>13, <1>18 DEF ServerAlone
  <1> QED BY <1>5, <1>6, <1>7, <1>8, <1>e, <1>14, <1>15, <1>16, <1>17, <1>18, EveryStep DEF vars

(* Events are messages, and what a stream still holds are slices.          *)
LEMMA EventTyped ==
    ASSUME version \in Nat, NEW w \in Writers, NEW s \in Slices
    PROVE  [type |-> "CHANGE", slice |-> s, domain |-> resolveDomain(w, s),
            version |-> EventVersion] \in Messages
  BY Versions DEF resolveDomain, Messages

LEMMA MessageFields ==
    ASSUME NEW m \in Messages
    PROVE  /\ m.version \in Nat /\ m.type \in {"CONNECTED", "CHANGE"}
           /\ m.type = "CHANGE" => m.slice \in Slices /\ m.domain \in Slices \cup {Unknown, Other}
  BY DEF Messages

LEMMA UndeliveredTyped ==
    ASSUME StreamTyped, NEW c \in Tabs
    PROVE  Undelivered(c) \subseteq Slices
  <1>1. stream[c] \in Seq(Messages)
    BY DEF StreamTyped
  <1>2. ASSUME NEW i \in DOMAIN stream[c] PROVE stream[c][i] \in Messages
    BY <1>1, <1>2
  <1> QED BY <1>2, MessageFields DEF Undelivered

LEMMA BroadcastTyped ==
    ASSUME StreamTyped, version \in Nat, NEW w \in Writers, NEW s \in Slices,
           broadcastChange(w, s)
    PROVE  stream' \in [Tabs -> Seq(Messages)] /\ gap' \in [Tabs -> SUBSET Slices]
  <1>1. ASSUME NEW q \in Seq(Messages), NEW m \in Messages PROVE Append(q, m) \in Seq(Messages)
    OBVIOUS
  <1>2. stream' \in [Tabs -> Seq(Messages)]
    BY <1>1, EventTyped, Zenon DEF StreamTyped, broadcastChange
  <1>3. gap' \in [Tabs -> SUBSET Slices]
    BY DEF StreamTyped, broadcastChange
  <1> QED BY <1>2, <1>3

(* Beginning a request. *)
LEMMA StartsTyped ==
    ASSUME ScreenTyped, StreamTyped, NEW c \in Tabs
    PROVE  /\ StartFull(c) => /\ full' \in [Tabs -> FullRequests]
                              /\ gap' \in [Tabs -> SUBSET Slices]
                              /\ late' \in [Tabs -> SUBSET Slices]
           /\ \A S : AskAgain(c, S) \in [Tabs -> [Slices -> SliceRequests]]
           /\ \A S : StartSlices(c, S) => /\ slice' \in [Tabs -> [Slices -> SliceRequests]]
                                          /\ gap' \in [Tabs -> SUBSET Slices]
                                          /\ late' \in [Tabs -> SUBSET Slices]
  <1>1. [at |-> "asked"] \in FullRequests /\ [at |-> "asked"] \in SliceRequests
    BY DEF FullRequests, SliceRequests
  <1>2. \A S : AskAgain(c, S) \in [Tabs -> [Slices -> SliceRequests]]
    BY <1>1 DEF AskAgain, ScreenTyped
  <1>3. StartFull(c) => /\ full' \in [Tabs -> FullRequests]
                        /\ gap' \in [Tabs -> SUBSET Slices]
                        /\ late' \in [Tabs -> SUBSET Slices]
    BY <1>1 DEF StartFull, ScreenTyped, StreamTyped
  <1>4. ASSUME NEW S, StartSlices(c, S)
        PROVE  gap' \in [Tabs -> SUBSET Slices] /\ late' \in [Tabs -> SUBSET Slices]
    BY <1>4 DEF StartSlices, StreamTyped
  <1> QED BY <1>2, <1>3, <1>4 DEF StartSlices

LEMMA TabAloneTyped ==
    ASSUME ServerTyped, ScreenTyped, StreamTyped, NEW c \in Tabs, TabAlone(c)
    PROVE  ScreenTyped' /\ StreamTyped'
  <1>0. /\ seen \in [Tabs -> Nat]
        /\ burst \in [Tabs -> SUBSET (Slices \cup {Unknown, Other})]
        /\ slice \in [Tabs -> [Slices -> SliceRequests]]
        /\ full \in [Tabs -> FullRequests]
        /\ painted \in [Tabs -> Rows] /\ view \in [Tabs -> Rows]
        /\ notice \in [Tabs -> SUBSET (Slices \cup {Blocked})]
        /\ conn \in [Tabs -> BOOLEAN]
        /\ stream \in [Tabs -> Seq(Messages)]
        /\ gap \in [Tabs -> SUBSET Slices] /\ late \in [Tabs -> SUBSET Slices]
        /\ db \in Rows /\ version \in Nat
    BY DEF ScreenTyped, StreamTyped, ServerTyped
  <1>1. CASE handleSyncEvent(c)
    <2> DEFINE m == Head(stream[c])
    <2>1. m \in Messages /\ Tail(stream[c]) \in Seq(Messages)
      BY <1>0, <1>1 DEF handleSyncEvent
    <2>2. stream' \in [Tabs -> Seq(Messages)]
      BY <1>0, <1>1, <2>1 DEF handleSyncEvent
    <2>3. CASE m.type = "CONNECTED" /\ m.version > seen[c]
      <3>1. StartFull(c) /\ seen' \in [Tabs -> Nat] /\ UNCHANGED burst
        BY <1>0, <1>1, <2>1, <2>3, MessageFields DEF handleSyncEvent
      <3> QED BY <1>0, <1>1, <2>2, <3>1, StartsTyped
              DEF handleSyncEvent, ScreenTyped, StreamTyped
    <2>4. CASE m.type = "CONNECTED" /\ ~(m.version > seen[c])
      <3>1. UNCHANGED <<seen, burst, full, gap, late>>
        BY <1>0, <1>1, <2>1, <2>4, MessageFields DEF handleSyncEvent
      <3> QED BY <1>0, <1>1, <2>2, <3>1 DEF handleSyncEvent, ScreenTyped, StreamTyped
    <2>5. CASE m.type = "CHANGE"
      <3>1. /\ seen' = [seen EXCEPT ![c] = m.version]
            /\ burst' = [burst EXCEPT ![c] = @ \cup {m.domain}]
            /\ UNCHANGED <<full, gap, late>>
        BY <1>1, <2>5 DEF handleSyncEvent
      <3>2. seen' \in [Tabs -> Nat] /\ burst' \in [Tabs -> SUBSET (Slices \cup {Unknown, Other})]
        BY <1>0, <2>1, <2>5, <3>1, MessageFields
      <3> QED BY <1>0, <1>1, <2>2, <3>1, <3>2 DEF handleSyncEvent, ScreenTyped, StreamTyped
    <2> QED BY <2>1, <2>3, <2>4, <2>5, MessageFields
  <1>2. CASE flush(c)
    <2>1. burst' \in [Tabs -> SUBSET (Slices \cup {Unknown, Other})]
      BY <1>0, <1>2 DEF flush
    <2>2. /\ slice' \in [Tabs -> [Slices -> SliceRequests]]
          /\ full' \in [Tabs -> FullRequests]
          /\ gap' \in [Tabs -> SUBSET Slices] /\ late' \in [Tabs -> SUBSET Slices]
      BY <1>0, <1>2, StartsTyped DEF flush
    <2> QED BY <1>0, <1>2, <2>1, <2>2 DEF flush, ScreenTyped, StreamTyped
  <1>3. CASE PollVersion(c) \/ ManualRefresh(c)
    <2>1. seen' \in [Tabs -> Nat] /\ StartFull(c)
      BY <1>0, <1>3 DEF PollVersion, ManualRefresh
    <2> QED BY <1>0, <1>3, <2>1, StartsTyped
            DEF PollVersion, ManualRefresh, ScreenTyped, StreamTyped
  <1>4. CASE RetryFailed(c)
    BY <1>0, <1>4, StartsTyped DEF RetryFailed, ScreenTyped, StreamTyped
  <1>5. CASE ServeFull(c)
    <2>1. [at |-> "answered", rows |-> db, version |-> version] \in FullRequests
      BY <1>0 DEF FullRequests
    <2> QED BY <1>0, <1>5, <2>1 DEF ServeFull, ScreenTyped, StreamTyped
  <1>6. ASSUME NEW s \in Slices, ServeSlice(c, s) PROVE ScreenTyped' /\ StreamTyped'
    <2>1. [at |-> "answered", rows |-> db[s], version |-> version] \in SliceRequests
      BY <1>0 DEF SliceRequests, Rows
    <2> QED BY <1>0, <1>6, <2>1 DEF ServeSlice, ScreenTyped, StreamTyped
  <1>7. NoRequest \in SliceRequests /\ NoRequest \in FullRequests
    BY DEF SliceRequests, FullRequests
  <1>8. ASSUME NEW s \in Slices, ReceiveSlice(c, s) PROVE ScreenTyped' /\ StreamTyped'
    <2>1. slice' \in [Tabs -> [Slices -> SliceRequests]]
      BY <1>0, <1>7, <1>8 DEF ReceiveSlice
    <2>2. slice[c][s].rows \in Nat /\ slice[c][s].version \in Nat
      BY <1>8, RequestFields DEF ReceiveSlice
    <2>3. \/ UNCHANGED <<view, notice, seen, late>>
          \/ /\ view' = [view EXCEPT ![c][s] = slice[c][s].rows]
             /\ notice' = [notice EXCEPT ![c] = @ \ {s}]
             /\ seen' = [seen EXCEPT ![c] = slice[c][s].version]
             /\ late' = late \/ late' = [late EXCEPT ![c] = @ \cup {s}]
      BY <1>8, Zenon DEF ReceiveSlice
    <2>4. ASSUME NEW D, NEW f \in [Tabs -> D], NEW v \in D PROVE [f EXCEPT ![c] = v] \in [Tabs -> D]
      OBVIOUS
    <2>5. /\ [view[c] EXCEPT ![s] = slice[c][s].rows] \in Rows
          /\ notice[c] \ {s} \in SUBSET (Slices \cup {Blocked})
          /\ late[c] \cup {s} \in SUBSET Slices
      BY <1>0, <2>2 DEF Rows
    <2>6. /\ view' \in [Tabs -> Rows] /\ seen' \in [Tabs -> Nat]
          /\ notice' \in [Tabs -> SUBSET (Slices \cup {Blocked})]
          /\ late' \in [Tabs -> SUBSET Slices]
      <3>1. [view EXCEPT ![c][s] = slice[c][s].rows] \in [Tabs -> Rows]
        BY <1>0, <2>4, <2>5
      <3>2. [seen EXCEPT ![c] = slice[c][s].version] \in [Tabs -> Nat]
        BY <1>0, <2>2, <2>4
      <3>3. [notice EXCEPT ![c] = @ \ {s}] \in [Tabs -> SUBSET (Slices \cup {Blocked})]
        BY <1>0, <2>4, <2>5
      <3>4. [late EXCEPT ![c] = @ \cup {s}] \in [Tabs -> SUBSET Slices]
        BY <1>0, <2>4, <2>5
      <3>5. CASE UNCHANGED <<view, notice, seen, late>>
        BY <1>0, <3>5
      <3> QED BY <1>0, <2>3, <3>1, <3>2, <3>3, <3>4, <3>5, Zenon
    <2>7. UNCHANGED <<conn, stream, burst, full, painted, gap>>
      BY <1>8, Zenon DEF ReceiveSlice
    <2> QED BY <1>0, <2>1, <2>6, <2>7 DEF ScreenTyped, StreamTyped
  <1>9. CASE ReceiveFull(c)
    <2>1. full[c].rows \in Rows /\ full[c].version \in Nat
      BY <1>9, RequestFields DEF ReceiveFull
    <2>2. full' \in [Tabs -> FullRequests] /\ slice' \in [Tabs -> [Slices -> SliceRequests]]
      BY <1>0, <1>7, <1>9, StartsTyped DEF ReceiveFull, hydrateDeferredSlices
    <2>3. view' \in [Tabs -> Rows] /\ painted' \in [Tabs -> Rows]
      BY <1>0, <1>9, <2>1 DEF ReceiveFull, Rows
    <2>4. /\ seen' \in [Tabs -> Nat]
          /\ notice' \in [Tabs -> SUBSET (Slices \cup {Blocked})]
          /\ late' \in [Tabs -> SUBSET Slices] /\ gap' \in [Tabs -> SUBSET Slices]
      BY <1>0, <1>9, <2>1 DEF ReceiveFull
    <2> QED BY <1>0, <1>9, <2>2, <2>3, <2>4 DEF ReceiveFull, ScreenTyped, StreamTyped
  <1>10. ASSUME NEW s \in Slices, SliceFails(c, s) PROVE ScreenTyped' /\ StreamTyped'
    BY <1>0, <1>7, <1>10 DEF SliceFails, ScreenTyped, StreamTyped
  <1>11. CASE FullFails(c)
    BY <1>0, <1>7, <1>11 DEF FullFails, ScreenTyped, StreamTyped
  <1> QED BY <1>1, <1>2, <1>3, <1>4, <1>5, <1>6, <1>8, <1>9, <1>10, <1>11 DEF TabAlone

(* Mirrors, queue, streams, requests and screens keep their types, and     *)
(* what was spent stays within the bounds.                                 *)
THEOREM TypeCorrect == Spec => []TypeOK
  <1>1. Init => TypeOK
    <2> SUFFICES ASSUME Init PROVE TypeOK
      OBVIOUS
    <2>1. ServerTyped
      <3>1. Cardinality(Tabs) \in Nat
        BY FS_CardinalityType, SyncAssumption
      <3> QED BY <3>1, JobSet DEF Init, ServerTyped, Rows
    <2>2. ScreenTyped
      BY DEF Init, ScreenTyped, Rows, SliceRequests, FullRequests
    <2>3. StreamTyped /\ SpentTyped
      BY SyncAssumption DEF Init, StreamTyped, SpentTyped
    <2> QED BY <2>1, <2>2, <2>3, TypeParts
  <1>2. TypeOK /\ [Next]_vars => TypeOK'
    <2> SUFFICES ASSUME TypeOK, [Next]_vars PROVE TypeOK'
      OBVIOUS
    <2>0. ServerTyped /\ ScreenTyped /\ StreamTyped /\ SpentTyped
      BY TypeParts
    <2>1. ServerTyped'
      BY <2>0, ServerSteps
    <2>2. SpentTyped'
      <3>1. Upset \/ Write => SpentTyped'
        BY <2>0, SyncAssumption DEF Upset, Write, SpentTyped
      <3>2. UNCHANGED spent => SpentTyped'
        BY <2>0 DEF SpentTyped
      <3>3. ServerAlone => Upset \/ Write \/ UNCHANGED spent
        BY Zenon DEF ServerAlone, Rollback, LoadTable, LoadFails, Respond,
                     NoticeClosed, AgeOut
      <3>4. ASSUME NEW c \in Tabs, TabAlone(c) PROVE Upset \/ Write \/ UNCHANGED spent
        BY <3>4, Zenon
        DEF TabAlone, handleSyncEvent, flush, ServeFull, ReceiveFull, ServeSlice,
            ReceiveSlice, SliceFails, PollVersion, ManualRefresh, RetryFailed, FullFails
      <3> QED BY <3>1, <3>2, <3>3, <3>4, EveryStep
              DEF vars, AnnounceInTx, CommitInTx, Announce, Commit, ErrorAfterCommit, Restart,
                  LoseConnection, connect, SwitchBranch
    <2>3. ScreenTyped' /\ StreamTyped'
      <3>1. ASSUME UNCHANGED <<seen, burst, slice, full, painted, view, notice>>
            PROVE  ScreenTyped'
        BY <2>0, <3>1 DEF ScreenTyped
      <3>2. ASSUME UNCHANGED tab PROVE ScreenTyped' /\ StreamTyped'
        BY <2>0, <3>1, <3>2 DEF tab, StreamTyped
      <3>3. ASSUME NEW w \in Writers, NEW s \in Slices, AnnounceInTx(w, s)
            PROVE  ScreenTyped' /\ StreamTyped'
        BY <2>0, <3>1, <3>3, BroadcastTyped DEF AnnounceInTx, StreamTyped, ServerTyped
      <3>4. ASSUME NEW w \in Writers, Announce(w) PROVE ScreenTyped' /\ StreamTyped'
        <4>1. job[w].slice \in Slices
          BY <2>0, <3>4, JobFields DEF Announce, ServerTyped
        <4> QED BY <2>0, <3>1, <3>4, <4>1, BroadcastTyped DEF Announce, StreamTyped, ServerTyped
      <3>5. ASSUME NEW w \in Writers, CommitInTx(w) PROVE ScreenTyped' /\ StreamTyped'
        <4>1. job[w].slice \in Slices
          BY <2>0, <3>5, JobFields DEF CommitInTx, ServerTyped
        <4>2. late' \in [Tabs -> SUBSET Slices]
          BY <2>0, <3>5, <4>1, UntoldTyped DEF CommitInTx, StreamTyped
        <4> QED BY <2>0, <3>1, <3>5, <4>2 DEF CommitInTx, StreamTyped
      <3>c. ASSUME NEW w \in Writers, NEW s \in Slices, Commit(w, s)
            PROVE  ScreenTyped' /\ StreamTyped'
        <4>1. late' \in [Tabs -> SUBSET Slices]
          BY <2>0, <3>c, UntoldTyped DEF Commit, StreamTyped
        <4> QED BY <2>0, <3>1, <3>c, <4>1 DEF Commit, StreamTyped
      <3>e. ASSUME NEW w \in Writers, ErrorAfterCommit(w) PROVE ScreenTyped' /\ StreamTyped'
        <4>p. PICK s \in Slices, n \in Nat : ErrorDoes(w, s, n)
          BY <2>0, <3>e, ErrorStep DEF ServerTyped
        <4>1. /\ late' = Untold(s, n)
              /\ UNCHANGED <<seen, burst, slice, full, painted, view, notice>>
              /\ UNCHANGED <<conn, stream, gap>>
          BY <4>p DEF ErrorDoes
        <4>2. late' \in [Tabs -> SUBSET Slices]
          BY <2>0, <4>1, UntoldTyped DEF StreamTyped
        <4> QED BY <2>0, <3>1, <4>1, <4>2 DEF StreamTyped
      <3>6. CASE Restart
        <4>1. \A w \in Writers : job[w].at = "committed" => job[w].slice \in Slices
          BY <2>0, JobFields DEF ServerTyped
        <4>2. gap' \in [Tabs -> SUBSET Slices]
          BY <2>0, <3>6, <4>1, UndeliveredTyped DEF Restart, StreamTyped
        <4>3. NoRequest \in SliceRequests /\ NoRequest \in FullRequests
          BY DEF SliceRequests, FullRequests
        <4>4. notice' \in [Tabs -> SUBSET (Slices \cup {Blocked})]
          BY <2>0, <3>6 DEF Restart, ScreenTyped
        <4> QED BY <2>0, <3>6, <4>2, <4>3, <4>4 DEF Restart, ScreenTyped, StreamTyped
      <3>7. ASSUME NEW c \in Tabs, LoseConnection(c) PROVE ScreenTyped' /\ StreamTyped'
        <4>1. gap' \in [Tabs -> SUBSET Slices]
          BY <2>0, <3>7, UndeliveredTyped DEF LoseConnection, StreamTyped
        <4> QED BY <2>0, <3>1, <3>7, <4>1 DEF LoseConnection, StreamTyped
      <3>8. ASSUME NEW c \in Tabs, connect(c) PROVE ScreenTyped' /\ StreamTyped'
        <4>1. <<[type |-> "CONNECTED", version |-> version]>> \in Seq(Messages)
          BY <2>0 DEF ServerTyped, Messages
        <4> QED BY <2>0, <3>1, <3>8, <4>1 DEF connect, StreamTyped
      <3>9. ASSUME NEW c \in Tabs, SwitchBranch(c) PROVE ScreenTyped' /\ StreamTyped'
        <4>1. NoRequest \in SliceRequests
          BY DEF SliceRequests
        <4> QED BY <2>0, <3>9, <4>1, StartsTyped DEF SwitchBranch, ScreenTyped, StreamTyped
      <3> QED BY <2>0, <3>2, <3>3, <3>4, <3>5, <3>c, <3>e, <3>6, <3>7, <3>8, <3>9, TabAloneTyped,
                 AloneSteps, EveryStep DEF vars
    <2> QED BY <2>0, <2>1, <2>2, <2>3 DEF TypeOK, ServerTyped, ScreenTyped, StreamTyped, SpentTyped
  <1> QED BY <1>1, <1>2, PTL DEF Spec

-----------------------------------------------------------------------------
(* The limiter counts no stream that is gone: with every hit it holds goes *)
(* a stream that is open or whose end the server has not noticed.          *)
THEOREM SlotsGivenBack == Spec => []NoSlotLeaked
  <1> DEFINE Open == {c \in Tabs : conn[c]}
  <1>1. Init => NoSlotLeaked
    <2> SUFFICES ASSUME Init PROVE NoSlotLeaked
      OBVIOUS
    <2>1. Open = Tabs /\ Cardinality(Tabs) \in Nat
      BY FS_CardinalityType, SyncAssumption DEF Init
    <2>2. hits = Cardinality(Tabs) /\ dead = 0
      BY DEF Init
    <2>3. Cardinality(Open) = Cardinality(Tabs)
      BY <2>1
    <2> HIDE DEF Open
    <2>4. hits <= dead + Cardinality(Open)
      BY <2>1, <2>2, <2>3
    <2> QED BY <2>4 DEF Open, NoSlotLeaked
  <1>2. TypeOK /\ NoSlotLeaked /\ [Next]_vars => NoSlotLeaked'
    <2> SUFFICES ASSUME TypeOK, NoSlotLeaked, [Next]_vars PROVE NoSlotLeaked'
      OBVIOUS
    <2> DEFINE n == Cardinality(Open)
    <2>0. /\ hits \in Nat /\ dead \in Nat /\ conn \in [Tabs -> BOOLEAN]
          /\ IsFiniteSet(Open) /\ n \in Nat /\ hits <= dead + n
      <3>1. IsFiniteSet(Open)
        BY FS_Subset, SyncAssumption
      <3> QED BY <3>1, FS_CardinalityType DEF TypeOK, NoSlotLeaked
    <2>1. ASSUME NEW m \in Nat, Cardinality(Open') = m, hits' <= dead' + m
          PROVE  NoSlotLeaked'
      BY <2>1 DEF NoSlotLeaked
    <2>2. ASSUME UNCHANGED conn, hits' <= dead' + n PROVE NoSlotLeaked'
      <3>1. Open' = Open
        BY <2>2
      <3> HIDE DEF Open
      <3> QED BY <2>0, <2>1, <2>2, <3>1
    <2>3. ASSUME NEW c \in Tabs, conn[c], conn' = [conn EXCEPT ![c] = FALSE]
          PROVE  Cardinality(Open') = n - 1 /\ n - 1 \in Nat
      <3>1. Open' = Open \ {c} /\ c \in Open
        BY <2>0, <2>3
      <3>2. Cardinality(Open \ {c}) = n - 1 /\ IsFiniteSet(Open \ {c})
        BY <2>0, <3>1, FS_RemoveElement
      <3> HIDE DEF Open
      <3> QED BY <2>0, <3>1, <3>2, FS_CardinalityType
    <2>4. ASSUME NEW c \in Tabs, ~conn[c], conn' = [conn EXCEPT ![c] = TRUE]
          PROVE  Cardinality(Open') = n + 1
      <3>1. Open' = Open \cup {c} /\ c \notin Open
        BY <2>0, <2>4
      <3>2. Cardinality(Open \cup {c}) = n + 1
        BY <2>0, <3>1, FS_AddElement
      <3> HIDE DEF Open
      <3> QED BY <3>1, <3>2
    <2> HIDE DEF n
    <2>5. CASE NoticeClosed \/ AgeOut
      <3>1. UNCHANGED conn
        BY <2>5 DEF NoticeClosed, AgeOut, tab
      <3>2. hits' <= dead' + n
        BY <2>0, <2>5 DEF NoticeClosed, AgeOut, StreamClosed, revoke
      <3> QED BY <2>2, <3>1, <3>2
    <2>6. ASSUME UNCHANGED <<hits, dead, conn>> PROVE NoSlotLeaked'
      BY <2>0, <2>2, <2>6
    <2>7. ASSUME NEW c \in Tabs, LoseConnection(c) PROVE NoSlotLeaked'
      <3>1. Cardinality(Open') = n - 1 /\ n - 1 \in Nat
        BY <2>3, <2>7 DEF LoseConnection
      <3>2. hits' <= dead' + (n - 1)
        BY <2>0, <2>7 DEF LoseConnection
      <3> HIDE DEF Open
      <3> QED BY <2>1, <3>1, <3>2
    <2>8. ASSUME NEW c \in Tabs, connect(c) PROVE NoSlotLeaked'
      <3>1. Cardinality(Open') = n + 1
        BY <2>4, <2>8 DEF connect
      <3>2. hits' <= dead' + (n + 1) /\ n + 1 \in Nat
        BY <2>0, <2>8 DEF connect
      <3> HIDE DEF Open
      <3> QED BY <2>1, <3>1, <3>2
    <2>9. ASSUME NEW c \in Tabs, SwitchBranch(c) PROVE NoSlotLeaked'
      <3>1. CASE conn[c]
        <4>1. Cardinality(Open') = n - 1 /\ n - 1 \in Nat
          BY <2>3, <2>9, <3>1 DEF SwitchBranch
        <4>2. hits' <= dead' + (n - 1)
          BY <2>0, <2>9, <3>1 DEF SwitchBranch
        <4> HIDE DEF Open
        <4> QED BY <2>1, <4>1, <4>2
      <3>2. CASE ~conn[c]
        <4>1. conn' = conn
          BY <2>0, <2>9, <3>2 DEF SwitchBranch
        <4> QED BY <2>0, <2>2, <2>9, <3>2, <4>1 DEF SwitchBranch
      <3> QED BY <3>1, <3>2
    <2>10. CASE Restart
      <3>1. Open' = {}
        BY <2>10 DEF Restart
      <3>2. Cardinality(Open') = 0
        BY <3>1, FS_EmptySet
      <3> QED BY <2>1, <2>10, <3>2 DEF Restart
    <2>11. ASSUME NEW w \in Writers,
                  \/ \E s \in Slices : AnnounceInTx(w, s) \/ Commit(w, s)
                  \/ CommitInTx(w) \/ Announce(w) \/ ErrorAfterCommit(w)
           PROVE  UNCHANGED <<hits, dead, conn>>
      BY <2>11 DEF AnnounceInTx, CommitInTx, Announce, Commit, ErrorAfterCommit, server
    <2>12. ASSUME ServerAlone, ~NoticeClosed, ~AgeOut PROVE UNCHANGED <<hits, dead, conn>>
      BY <2>12
      DEF ServerAlone, Rollback, LoadTable, LoadFails, Respond, server, tab
    <2>13. ASSUME NEW c \in Tabs, TabAlone(c) PROVE UNCHANGED <<hits, dead, conn>>
      BY <2>13, AloneSteps DEF server
    <2> QED BY <2>5, <2>6, <2>7, <2>8, <2>9, <2>10, <2>11, <2>12, <2>13, EveryStep
            DEF vars, server, tab
  <1> QED BY <1>1, <1>2, TypeCorrect, PTL DEF Spec

-----------------------------------------------------------------------------
(* The queue of refreshes and the mirrors. *)

LEMMA JobChange ==
    ASSUME job \in [Writers -> Jobs], NEW w \in Writers, NEW x \in Writers
    PROVE  /\ \A v : job' = [job EXCEPT ![w] = v] =>
                  job'[x] = IF x = w THEN v ELSE job[x]
           /\ job' = [job EXCEPT ![w].at = "refreshing"] /\ job[w].at # "idle" =>
                  /\ x # w => job'[x] = job[x]
                  /\ job'[w].at = "refreshing" /\ job'[w].slice = job[w].slice
  BY JobFields

LEMMA ChainKept ==
    ASSUME ServerTyped, ChainWaits, [Next]_vars
    PROVE  ChainWaits'
  <1>0. /\ job \in [Writers -> Jobs] /\ chain \in Seq(Writers)
        /\ \A i \in 1 .. Len(chain) : chain[i] \in Writers
    BY DEF ServerTyped
  <1>1. ASSUME UNCHANGED chain,
               \A x \in Writers : job[x].at = "refreshing" => job'[x] = job[x]
        PROVE  ChainWaits'
    BY <1>0, <1>1 DEF ChainWaits
  <1>2. ASSUME NEW w \in Writers, job[w].at \in {"announced", "committed"},
               job' = [job EXCEPT ![w].at = "refreshing"], refreshOperationalCache(w)
        PROVE  ChainWaits'
    <2>1. chain' = Append(chain, w) /\ Len(chain') = Len(chain) + 1
      BY <1>0, <1>2 DEF refreshOperationalCache
    <2>2. /\ \A i \in 1 .. Len(chain) : chain'[i] = chain[i]
          /\ chain'[Len(chain) + 1] = w
      BY <1>0, <2>1
    <2>3. \A x \in Writers : job[x].at = "refreshing" => x # w /\ job'[x] = job[x]
      BY <1>0, <1>2, JobChange
    <2>4. job'[w].at = "refreshing"
      BY <1>0, <1>2, JobChange
    <2>5. \A i \in 1 .. Len(chain) : chain[i] # w /\ job'[chain[i]].at = "refreshing"
      BY <1>0, <2>3 DEF ChainWaits
    <2>6. \A i \in 1 .. Len(chain') : i \in 1 .. Len(chain) \/ i = Len(chain) + 1
      BY <1>0, <2>1
    <2>7. \A i \in 1 .. Len(chain') : job'[chain'[i]].at = "refreshing"
      BY <2>2, <2>4, <2>5, <2>6
    <2>8. \A i, j \in 1 .. Len(chain') : chain'[i] = chain'[j] => i = j
      BY <2>2, <2>5, <2>6 DEF ChainWaits
    <2> QED BY <2>7, <2>8 DEF ChainWaits
  <1>3. CASE Respond
    <2>1. Head(chain) = chain[1] /\ Len(chain) \in Nat /\ 1 <= Len(chain)
      BY <1>0, <1>3 DEF Respond
    <2>2. /\ Len(chain') = Len(chain) - 1
          /\ \A i \in 1 .. Len(chain') : chain'[i] = chain[i + 1]
      BY <1>0, <1>3 DEF Respond
    <2>3. \A i \in 1 .. Len(chain') : i + 1 \in 1 .. Len(chain) /\ i + 1 # 1
      BY <2>1, <2>2
    <2>4. \A i \in 1 .. Len(chain') : chain[i + 1] # Head(chain)
      BY <2>1, <2>3 DEF ChainWaits
    <2>5. \A x \in Writers : x # Head(chain) => job'[x] = job[x]
      BY <1>0, <1>3 DEF Respond
    <2>6. \A i \in 1 .. Len(chain') : job'[chain'[i]].at = "refreshing"
      BY <1>0, <2>2, <2>3, <2>4, <2>5 DEF ChainWaits
    <2>7. \A i, j \in 1 .. Len(chain') : chain'[i] = chain'[j] => i + 1 = j + 1
      BY <2>2, <2>3 DEF ChainWaits
    <2>8. \A i, j \in 1 .. Len(chain') : i + 1 = j + 1 => i = j
      BY <2>1, <2>2
    <2> QED BY <2>6, <2>7, <2>8 DEF ChainWaits
  <1>4. CASE Restart
    BY <1>4 DEF Restart, ChainWaits
  <1>5. ASSUME NEW w \in Writers, NEW s \in Slices, AnnounceInTx(w, s) \/ Commit(w, s)
        PROVE  ChainWaits'
    BY <1>0, <1>1, <1>5, JobChange DEF AnnounceInTx, Commit, server
  <1>6. ASSUME NEW w \in Writers, Rollback(w) \/ ErrorAfterCommit(w) PROVE ChainWaits'
    BY <1>0, <1>1, <1>6, JobChange DEF Rollback, ErrorAfterCommit, server
  <1>7. ASSUME NEW w \in Writers, CommitInTx(w) \/ Announce(w) PROVE ChainWaits'
    BY <1>2, <1>7 DEF CommitInTx, Announce
  <1>8. ASSUME UNCHANGED <<job, chain>> PROVE ChainWaits'
    BY <1>1, <1>8
  <1>9. CASE ServerAlone
    BY <1>3, <1>6, <1>8, <1>9
    DEF ServerAlone, LoadTable, LoadFails, NoticeClosed, AgeOut
  <1>10. ASSUME NEW c \in Tabs,
                TabAlone(c) \/ LoseConnection(c) \/ connect(c) \/ SwitchBranch(c)
         PROVE  ChainWaits'
    BY <1>8, <1>10, AloneSteps DEF LoseConnection, connect, SwitchBranch, server
  <1> QED BY <1>4, <1>5, <1>6, <1>7, <1>8, <1>9, <1>10, EveryStep DEF vars, server

(* A commit is pending for a slice: committed, its request not yet at the  *)
(* refresh.                                                                *)
Pending(s) == \E w \in Writers : job[w].at = "committed" /\ job[w].slice = s

LEMMA MirrorKept ==
    ASSUME ServerTyped, ChainWaits, MirrorLagsOnlyIfOwed, [Next]_vars
    PROVE  MirrorLagsOnlyIfOwed'
  <1>0. /\ job \in [Writers -> Jobs] /\ chain \in Seq(Writers) /\ db \in Rows
        /\ mirror \in Rows /\ Len(chain) \in Nat /\ unread \subseteq Slices
    BY DEF ServerTyped
  <1> DEFINE Owed(s) == s \in skipped \/ Pending(s) \/ Len(chain) > 1 \/ s \in unread
  <1>1. \A s \in Slices : mirror[s] # db[s] => Owed(s)
    BY DEF MirrorLagsOnlyIfOwed, Pending
  <1> SUFFICES ASSUME NEW s \in Slices, mirror'[s] # db'[s] PROVE Owed(s)'
    BY DEF MirrorLagsOnlyIfOwed, Pending
  <1>2. ASSUME NEW w \in Writers, refreshOperationalCache(w) PROVE Len(chain') > 1 \/ s \in unread'
    <2>1. chain # <<>> => Len(chain) >= 1
      BY <1>0
    <2> QED BY <1>0, <1>2, <2>1 DEF refreshOperationalCache
  <1>3. ASSUME NEW w \in Writers, CommitInTx(w) \/ Announce(w) PROVE Owed(s)'
    BY <1>2, <1>3 DEF CommitInTx, Announce
  <1>4. ASSUME UNCHANGED <<mirror, db, skipped, chain, unread>>, Pending(s) => Pending(s)'
        PROVE  Owed(s)'
    BY <1>1, <1>4
  <1>5. ASSUME NEW w \in Writers, NEW v, job' = [job EXCEPT ![w] = v],
               job[w].at # "committed"
        PROVE  Pending(s) => Pending(s)'
    BY <1>0, <1>5, JobChange DEF Pending
  <1>6. ASSUME NEW w \in Writers, NEW t \in Slices, AnnounceInTx(w, t) PROVE Owed(s)'
    BY <1>4, <1>5, <1>6 DEF AnnounceInTx, server
  <1>7. ASSUME NEW w \in Writers, Rollback(w) PROVE Owed(s)'
    BY <1>4, <1>5, <1>7 DEF Rollback, server
  <1>8. ASSUME NEW w \in Writers, NEW t \in Slices, Commit(w, t) PROVE Owed(s)'
    <2>1. CASE t = s
      <3>1. job'[w].at = "committed" /\ job'[w].slice = s
        BY <1>0, <1>8, <2>1 DEF Commit
      <3> QED BY <3>1 DEF Pending
    <2>2. CASE t # s
      <3>1. db'[s] = db[s] /\ UNCHANGED <<mirror, skipped, chain, unread>>
        BY <1>0, <1>8, <2>2 DEF Commit, Rows, server
      <3>2. Pending(s) => Pending(s)'
        BY <1>5, <1>8 DEF Commit
      <3> QED BY <1>1, <3>1, <3>2
    <2> QED BY <2>1, <2>2
  <1>e. ASSUME NEW w \in Writers, ErrorAfterCommit(w) PROVE Owed(s)'
    <2>p. PICK t \in Slices, n \in Nat : ErrorDoes(w, t, n)
      BY <1>0, <1>e, ErrorStep
    <2>1. /\ t = job[w].slice /\ db' = [db EXCEPT ![t] = n]
          /\ skipped' = IF mirror[t] = n THEN skipped ELSE skipped \cup {t}
          /\ job' = [job EXCEPT ![w] = Resting]
          /\ UNCHANGED <<mirror, chain, unread>>
      BY <2>p DEF ErrorDoes
    <2>2. CASE t = s
      <3>1. db'[s] = n /\ mirror'[s] = mirror[s]
        BY <1>0, <2>1, <2>2 DEF Rows
      <3> QED BY <2>1, <2>2, <3>1
    <2>3. CASE t # s
      <3>1. db'[s] = db[s]
        BY <1>0, <2>1, <2>3 DEF Rows
      <3>2. Pending(s) => Pending(s)'
        BY <1>0, <2>1, <2>3, JobChange DEF Pending
      <3> QED BY <1>1, <2>1, <3>1, <3>2
    <2> QED BY <2>2, <2>3
  <1>9. ASSUME NEW t \in Slices, LoadTable(t) PROVE Owed(s)'
    <2>1. t # s
      BY <1>0, <1>9 DEF LoadTable, Rows
    <2>2. mirror'[s] = mirror[s] /\ (Pending(s) => Pending(s)')
      BY <1>0, <1>9, <2>1 DEF LoadTable, Rows, Pending
    <2> QED BY <1>1, <1>9, <2>1, <2>2 DEF LoadTable
  <1>10. ASSUME NEW S \in SUBSET Slices, LoadFails(S) PROVE Owed(s)'
    <2>1. Pending(s) => Pending(s)'
      BY <1>10 DEF LoadFails, Pending
    <2> QED BY <1>1, <1>10, <2>1 DEF LoadFails
  <1>11. CASE Respond
    <2>1. Head(chain) = chain[1] /\ 1 <= Len(chain) /\ Head(chain) \in Writers
      BY <1>0, <1>11 DEF Respond
    <2>2. job[Head(chain)].at = "refreshing"
      BY <1>0, <2>1 DEF ChainWaits
    <2>3. Pending(s) => Pending(s)'
      BY <1>5, <1>11, <2>1, <2>2 DEF Respond
    <2> QED BY <1>1, <1>11, <2>3 DEF Respond
  <1>12. CASE Restart
    BY <1>12 DEF Restart
  <1>13. ASSUME UNCHANGED <<job, mirror, db, skipped, chain, unread>> PROVE Owed(s)'
    BY <1>4, <1>13 DEF Pending
  <1>14. CASE ServerAlone
    BY <1>7, <1>9, <1>10, <1>11, <1>13, <1>14 DEF ServerAlone, NoticeClosed, AgeOut
  <1>15. ASSUME NEW c \in Tabs,
                TabAlone(c) \/ LoseConnection(c) \/ connect(c) \/ SwitchBranch(c)
         PROVE  Owed(s)'
    BY <1>13, <1>15, AloneSteps DEF LoseConnection, connect, SwitchBranch, server
  <1> HIDE DEF Owed
  <1> QED BY <1>3, <1>6, <1>8, <1>e, <1>12, <1>13, <1>14, <1>15, EveryStep DEF vars, server

(* A mirror that lags behind the database is owed a read: the request that *)
(* changed it is on its way to the refresh, or a refresh that has still to *)
(* read the table is queued or running, or the last read failed, or no     *)
(* read followed a commit that was answered with an error.                 *)
THEOREM MirrorIsOwed == Spec => []MirrorLagsOnlyIfOwed
  <1>1. Init => MirrorLagsOnlyIfOwed /\ ChainWaits
    BY DEF Init, MirrorLagsOnlyIfOwed, ChainWaits
  <1>2. TypeOK /\ MirrorLagsOnlyIfOwed /\ ChainWaits /\ [Next]_vars
            => MirrorLagsOnlyIfOwed' /\ ChainWaits'
    BY TypeParts, ChainKept, MirrorKept
  <1> QED BY <1>1, <1>2, TypeCorrect, PTL DEF Spec

-----------------------------------------------------------------------------
(* Streams. *)

Carries(q, s) ==
    \E i \in DOMAIN q : q[i].type = "CHANGE" /\ q[i].slice = s /\ q[i].domain # Other

LEMMA AppendCarries ==
    ASSUME NEW q \in Seq(Messages), NEW m \in Messages, NEW s
    PROVE  /\ Carries(q, s) => Carries(Append(q, m), s)
           /\ m.type = "CHANGE" /\ m.slice = s /\ m.domain # Other => Carries(Append(q, m), s)
  <1>1. /\ DOMAIN q = 1 .. Len(q) /\ DOMAIN Append(q, m) = 1 .. (Len(q) + 1)
        /\ Len(q) \in Nat
        /\ \A i \in 1 .. Len(q) : Append(q, m)[i] = q[i]
        /\ Append(q, m)[Len(q) + 1] = m
    OBVIOUS
  <1> QED BY <1>1 DEF Carries

LEMMA TailCarries ==
    ASSUME NEW q \in Seq(Messages), q # <<>>, NEW s, Carries(q, s)
    PROVE  \/ Carries(Tail(q), s)
           \/ Head(q).type = "CHANGE" /\ Head(q).slice = s /\ Head(q).domain # Other
  <1>1. PICK i \in DOMAIN q : q[i].type = "CHANGE" /\ q[i].slice = s /\ q[i].domain # Other
    BY DEF Carries
  <1>2. /\ i \in 1 .. Len(q) /\ Len(q) \in Nat
        /\ DOMAIN Tail(q) = 1 .. (Len(q) - 1)
        /\ \A j \in 1 .. (Len(q) - 1) : Tail(q)[j] = q[j + 1]
        /\ Head(q) = q[1]
    OBVIOUS
  <1>3. CASE i = 1
    BY <1>1, <1>2, <1>3
  <1>4. CASE i # 1
    <2>1. i - 1 \in 1 .. (Len(q) - 1) /\ Tail(q)[i - 1] = q[i]
      BY <1>2, <1>4
    <2> QED BY <1>1, <1>2, <2>1 DEF Carries
  <1> QED BY <1>3, <1>4

LEMMA StreamsKept ==
    ASSUME ServerTyped, StreamTyped, StreamsClean, [Next]_vars
    PROVE  StreamsClean'
  <1> DEFINE Clean(q) == \A i \in 1 .. Len(q) :
                 q[i].type = "CHANGE" => q[i].domain \in {Unknown, Other, q[i].slice}
  <1>0. /\ stream \in [Tabs -> Seq(Messages)] /\ conn \in [Tabs -> BOOLEAN]
        /\ version \in Nat /\ job \in [Writers -> Jobs]
        /\ \A c \in Tabs : Clean(stream[c]) /\ (~conn[c] => stream[c] = <<>>)
    BY DEF StreamTyped, StreamsClean, ServerTyped
  <1>1. Clean(<<>>) /\ \A v : Clean(<<[type |-> "CONNECTED", version |-> v]>>)
    OBVIOUS
  <1>2. ASSUME NEW w \in Writers, NEW s \in Slices, NEW q \in Seq(Messages), Clean(q)
        PROVE  Clean(Append(q, [type |-> "CHANGE", slice |-> s,
                                domain |-> resolveDomain(w, s), version |-> EventVersion]))
    <2> DEFINE m == [type |-> "CHANGE", slice |-> s, domain |-> resolveDomain(w, s),
                     version |-> EventVersion]
    <2>1. m.domain \in {Unknown, Other, m.slice}
      BY DEF resolveDomain
    <2>2. m \in Messages
      BY <1>0, EventTyped
    <2> HIDE DEF m
    <2>3. /\ Len(q) \in Nat /\ Len(Append(q, m)) = Len(q) + 1
          /\ \A i \in 1 .. Len(q) : Append(q, m)[i] = q[i]
          /\ Append(q, m)[Len(q) + 1] = m
      BY <2>2
    <2>4. \A i \in 1 .. (Len(q) + 1) : i \in 1 .. Len(q) \/ i = Len(q) + 1
      BY <2>3
    <2>5. Clean(Append(q, m))
      BY <1>2, <2>1, <2>3, <2>4
    <2> QED BY <2>5 DEF m
  <1>3. ASSUME NEW q \in Seq(Messages), q # <<>>, Clean(q) PROVE Clean(Tail(q))
    <2>1. /\ Len(q) \in Nat /\ Len(Tail(q)) = Len(q) - 1
          /\ \A i \in 1 .. (Len(q) - 1) : Tail(q)[i] = q[i + 1] /\ i + 1 \in 1 .. Len(q)
      BY <1>3
    <2> QED BY <1>3, <2>1
  <1> HIDE DEF Clean
  <1>4. ASSUME \A c \in Tabs : Clean(stream'[c]) /\ (~conn'[c] => stream'[c] = <<>>)
        PROVE  StreamsClean'
    BY <1>4 DEF StreamsClean, Clean
  <1>5. ASSUME UNCHANGED <<stream, conn>> PROVE StreamsClean'
    BY <1>0, <1>4, <1>5
  <1>6. ASSUME NEW w \in Writers, NEW s \in Slices, broadcastChange(w, s), UNCHANGED conn
        PROVE  StreamsClean'
    <2> SUFFICES ASSUME NEW c \in Tabs
                 PROVE  Clean(stream'[c]) /\ (~conn'[c] => stream'[c] = <<>>)
      BY <1>4
    <2> QED BY <1>0, <1>2, <1>6 DEF broadcastChange
  <1>7. ASSUME NEW c \in Tabs, handleSyncEvent(c) PROVE StreamsClean'
    <2>1. /\ stream[c] # <<>> /\ stream' = [stream EXCEPT ![c] = Tail(@)]
          /\ UNCHANGED conn
      BY <1>7, Zenon DEF handleSyncEvent
    <2> QED BY <1>0, <1>3, <1>4, <2>1
  <1>8. ASSUME NEW c \in Tabs, LoseConnection(c) \/ SwitchBranch(c) PROVE StreamsClean'
    BY <1>0, <1>1, <1>4, <1>8 DEF LoseConnection, SwitchBranch
  <1>9. ASSUME NEW c \in Tabs, connect(c) PROVE StreamsClean'
    BY <1>0, <1>1, <1>4, <1>9 DEF connect
  <1>10. CASE Restart
    BY <1>1, <1>4, <1>10 DEF Restart
  <1>11. ASSUME NEW w \in Writers, NEW s \in Slices, AnnounceInTx(w, s) PROVE StreamsClean'
    BY <1>6, <1>11 DEF AnnounceInTx
  <1>12. ASSUME NEW w \in Writers, CommitInTx(w) \/ Announce(w) PROVE StreamsClean'
    <2>1. job[w].slice \in Slices
      BY <1>0, <1>12, JobFields DEF CommitInTx, Announce
    <2> QED BY <1>5, <1>6, <1>12, <2>1 DEF CommitInTx, Announce
  <1>15. ASSUME NEW w \in Writers, ErrorAfterCommit(w) \/ \E s \in Slices : Commit(w, s)
         PROVE  StreamsClean'
    BY <1>5, <1>15 DEF ErrorAfterCommit, Commit
  <1>13. ASSUME NEW c \in Tabs, TabAlone(c), ~handleSyncEvent(c) PROVE StreamsClean'
    <2>1. UNCHANGED <<stream, conn>>
      BY <1>13, Zenon
      DEF TabAlone, flush, ServeFull, ReceiveFull, ServeSlice, ReceiveSlice, SliceFails,
          PollVersion, ManualRefresh, RetryFailed, FullFails
    <2> QED BY <1>5, <2>1
  <1>14. CASE ServerAlone
    BY <1>5, <1>14, AloneSteps DEF tab
  <1> QED BY <1>5, <1>7, <1>8, <1>9, <1>10, <1>11, <1>12, <1>13, <1>14, <1>15,
             EveryStep
          DEF vars, tab

-----------------------------------------------------------------------------
(* What requests have seen. *)

LEMMA Growth ==
    ASSUME ServerTyped, [Next]_vars
    PROVE  version <= version' /\ \A s \in Slices : db[s] <= db'[s]
  <1>0. db \in Rows /\ version \in Nat /\ job \in [Writers -> Jobs]
    BY DEF ServerTyped
  <1>1. \A s \in Slices : db[s] \in Nat
    BY <1>0 DEF Rows
  <1>2. ASSUME UNCHANGED db PROVE \A s \in Slices : db[s] <= db'[s]
    BY <1>1, <1>2
  <1>3. ASSUME NEW t, db' = [db EXCEPT ![t] = @ + 1] PROVE \A s \in Slices : db[s] <= db'[s]
    BY <1>0, <1>1, <1>3 DEF Rows
  <1>4. \A w \in Writers : CommitInTx(w) => UNCHANGED version /\ \A s \in Slices : db[s] <= db'[s]
    BY <1>3 DEF CommitInTx
  <1>5. \A w \in Writers, s \in Slices : Commit(w, s) =>
            UNCHANGED version /\ \A t \in Slices : db[t] <= db'[t]
    BY <1>3 DEF Commit, server
  <1>6. \A w \in Writers : Announce(w) => version <= version' /\ UNCHANGED db
    BY <1>0 DEF Announce
  <1>7. Restart => version <= version' /\ UNCHANGED db
    BY <1>0, Versions DEF Restart
  <1>e. ASSUME NEW w \in Writers, ErrorAfterCommit(w)
        PROVE  UNCHANGED version /\ \A s \in Slices : db[s] <= db'[s]
    <2>p. PICK t \in Slices, n \in Nat : ErrorDoes(w, t, n)
      BY <1>0, <1>e, ErrorStep
    <2>1. /\ n = db[t] \/ n = db[t] + 1
          /\ db' = [db EXCEPT ![t] = n] /\ UNCHANGED version
      BY <2>p DEF ErrorDoes
    <2> QED BY <1>0, <1>1, <2>1 DEF Rows
  <1>8. ASSUME ServerAlone
        PROVE  UNCHANGED <<version, db>>
    BY <1>8
    DEF ServerAlone, Rollback, LoadTable, LoadFails, Respond, NoticeClosed, AgeOut, server
  <1>9. \A w \in Writers, s \in Slices : AnnounceInTx(w, s) => UNCHANGED <<version, db>>
    BY DEF AnnounceInTx, server
  <1>10. ASSUME NEW c \in Tabs,
                TabAlone(c) \/ LoseConnection(c) \/ connect(c) \/ SwitchBranch(c)
         PROVE  UNCHANGED <<version, db>>
    BY <1>10, AloneSteps DEF LoseConnection, connect, SwitchBranch, server
  <1>11. UNCHANGED <<version, db>> => version <= version' /\ \A s \in Slices : db[s] <= db'[s]
    BY <1>0, <1>2
  <1>12. UNCHANGED version => version <= version'
    BY <1>0
  <1> QED BY <1>12, <1>e, <1>2, <1>4, <1>5, <1>6, <1>7, <1>8, <1>9, <1>10, <1>11, EveryStep
          DEF vars, server

(* Most steps only begin or end requests: no answer comes or is painted.   *)
NoAnswer ==
    /\ UNCHANGED <<view, painted>>
    /\ \A c \in Tabs : full'[c] = full[c] \/ full'[c].at # "answered"
    /\ \A c \in Tabs, s \in Slices : slice'[c][s] = slice[c][s] \/ slice'[c][s].at # "answered"

AnswerStep(c) == \/ ServeFull(c) \/ ReceiveFull(c)
                 \/ \E s \in Slices : ServeSlice(c, s) \/ ReceiveSlice(c, s)

LEMMA OtherSteps ==
    ASSUME ScreenTyped, [Next]_vars
    PROVE  NoAnswer \/ \E c \in Tabs : AnswerStep(c)
  <1>0. /\ slice \in [Tabs -> [Slices -> SliceRequests]]
        /\ full \in [Tabs -> FullRequests]
    BY DEF ScreenTyped
  <1>1. UNCHANGED <<view, painted, slice, full>> => NoAnswer
    BY DEF NoAnswer
  <1>2. ASSUME NEW c \in Tabs, StartFull(c), UNCHANGED <<view, painted, slice>> PROVE NoAnswer
    BY <1>0, <1>2 DEF StartFull, NoAnswer
  <1>3. ASSUME NEW c \in Tabs, NEW S, StartSlices(c, S), UNCHANGED <<view, painted, full>>
        PROVE  NoAnswer
    BY <1>0, <1>3 DEF StartSlices, AskAgain, NoAnswer
  <1>4. ASSUME NEW c \in Tabs, handleSyncEvent(c) PROVE NoAnswer
    <2>1. UNCHANGED <<view, painted, slice>> /\ (UNCHANGED full \/ StartFull(c))
      BY <1>4, Zenon DEF handleSyncEvent
    <2> QED BY <1>1, <1>2, <2>1
  <1>5. ASSUME NEW c \in Tabs, flush(c) PROVE NoAnswer
    BY <1>2, <1>3, <1>5 DEF flush
  <1>6. ASSUME NEW c \in Tabs, PollVersion(c) \/ ManualRefresh(c) PROVE NoAnswer
    BY <1>2, <1>6 DEF PollVersion, ManualRefresh
  <1>7. ASSUME NEW c \in Tabs, RetryFailed(c) PROVE NoAnswer
    BY <1>3, <1>7 DEF RetryFailed
  <1>8. ASSUME NEW c \in Tabs, FullFails(c) PROVE NoAnswer
    BY <1>0, <1>8 DEF FullFails, NoAnswer, NoRequest
  <1>9. ASSUME NEW c \in Tabs, NEW s \in Slices, SliceFails(c, s) PROVE NoAnswer
    BY <1>0, <1>9 DEF SliceFails, NoAnswer, NoRequest
  <1>10. ASSUME NEW c \in Tabs, SwitchBranch(c) PROVE NoAnswer
    BY <1>0, <1>10 DEF SwitchBranch, StartFull, NoAnswer, NoRequest
  <1>11. CASE Restart
    BY <1>11 DEF Restart, NoAnswer, NoRequest
  <1>12. ASSUME NEW c \in Tabs, LoseConnection(c) \/ connect(c) PROVE NoAnswer
    BY <1>1, <1>12 DEF LoseConnection, connect
  <1>13. ASSUME NEW w \in Writers,
                \/ \E s \in Slices : AnnounceInTx(w, s) \/ Commit(w, s)
                \/ CommitInTx(w) \/ Announce(w) \/ ErrorAfterCommit(w)
         PROVE  NoAnswer
    BY <1>1, <1>13 DEF AnnounceInTx, CommitInTx, Announce, Commit, ErrorAfterCommit
  <1>14. ServerAlone => NoAnswer
    BY <1>1, AloneSteps DEF tab
  <1>15. ASSUME NEW c \in Tabs, TabAlone(c) PROVE NoAnswer \/ AnswerStep(c)
    BY <1>4, <1>5, <1>6, <1>7, <1>8, <1>9, <1>15 DEF TabAlone, AnswerStep
  <1> QED BY <1>1, <1>10, <1>11, <1>12, <1>13, <1>14, <1>15, EveryStep DEF vars, tab

(* Everything a tab has read, as numbers. *)
LEMMA SeenFields ==
    ASSUME ServerTyped, ScreenTyped, NEW c \in Tabs, NEW s \in Slices
    PROVE  /\ db[s] \in Nat /\ version \in Nat
           /\ view[c][s] \in Nat /\ painted[c][s] \in Nat
           /\ slice[c][s].at = "answered" =>
                 slice[c][s].rows \in Nat /\ slice[c][s].version \in Nat
           /\ full[c].at = "answered" =>
                 full[c].rows[s] \in Nat /\ full[c].version \in Nat
  <1>1. db[s] \in Nat /\ version \in Nat /\ view[c][s] \in Nat /\ painted[c][s] \in Nat
    BY DEF ServerTyped, ScreenTyped, Rows
  <1> QED BY <1>1, RequestFields DEF Rows

LEMMA ReadingKept ==
    ASSUME ServerTyped, ServerTyped', ScreenTyped, NobodyAhead, GateDropsOld, [Next]_vars
    PROVE  NobodyAhead' /\ GateDropsOld'
  <1>0. /\ slice \in [Tabs -> [Slices -> SliceRequests]]
        /\ full \in [Tabs -> FullRequests]
        /\ view \in [Tabs -> Rows] /\ painted \in [Tabs -> Rows]
        /\ db \in Rows
    BY DEF ScreenTyped, ServerTyped
  <1>1. /\ version \in Nat /\ version' \in Nat /\ version <= version'
        /\ \A s \in Slices : db[s] \in Nat /\ db'[s] \in Nat /\ db[s] <= db'[s]
    BY Growth DEF ServerTyped, Rows
  <1>2. CASE NoAnswer
    <2> SUFFICES ASSUME NEW c \in Tabs, NEW s \in Slices
                 PROVE  /\ view'[c][s] <= db'[s] /\ painted'[c][s] <= version'
                        /\ slice'[c][s].at = "answered" =>
                              slice'[c][s].rows <= db'[s] /\ slice'[c][s].version <= version'
                        /\ full'[c].at = "answered" =>
                              full'[c].rows[s] <= db'[s] /\ full'[c].version <= version'
                        /\ slice'[c][s].at = "answered" =>
                              /\ slice'[c][s].version < painted'[c][s] =>
                                    slice'[c][s].rows <= view'[c][s]
                              /\ full'[c].at = "answered"
                                    /\ slice'[c][s].version < full'[c].version =>
                                    slice'[c][s].rows <= full'[c].rows[s]
      BY DEF NobodyAhead, GateDropsOld
    <2>1. /\ view'[c][s] = view[c][s] /\ painted'[c][s] = painted[c][s]
          /\ full'[c] = full[c] \/ full'[c].at # "answered"
          /\ slice'[c][s] = slice[c][s] \/ slice'[c][s].at # "answered"
      BY <1>2 DEF NoAnswer
    <2>2. /\ view[c][s] <= db[s] /\ painted[c][s] <= version
          /\ slice[c][s].at = "answered" =>
                slice[c][s].rows <= db[s] /\ slice[c][s].version <= version
          /\ full[c].at = "answered" =>
                full[c].rows[s] <= db[s] /\ full[c].version <= version
          /\ slice[c][s].at = "answered" =>
                /\ slice[c][s].version < painted[c][s] => slice[c][s].rows <= view[c][s]
                /\ full[c].at = "answered" /\ slice[c][s].version < full[c].version =>
                      slice[c][s].rows <= full[c].rows[s]
      BY DEF NobodyAhead, GateDropsOld
    <2>3. /\ view[c][s] \in Nat /\ painted[c][s] \in Nat
          /\ slice[c][s].at = "answered" =>
                slice[c][s].rows \in Nat /\ slice[c][s].version \in Nat
          /\ full[c].at = "answered" =>
                full[c].rows[s] \in Nat /\ full[c].version \in Nat
      BY SeenFields
    <2> QED BY <1>1, <2>1, <2>2, <2>3
  <1>3. ASSUME NEW d \in Tabs, AnswerStep(d) PROVE NobodyAhead' /\ GateDropsOld'
    <2>0. UNCHANGED <<db, version>>
      BY <1>3, AloneSteps DEF AnswerStep, TabAlone, server
    <2> SUFFICES ASSUME NEW c \in Tabs, NEW s \in Slices
                 PROVE  /\ view'[c][s] <= db[s] /\ painted'[c][s] <= version
                        /\ slice'[c][s].at = "answered" =>
                              slice'[c][s].rows <= db[s] /\ slice'[c][s].version <= version
                        /\ full'[c].at = "answered" =>
                              full'[c].rows[s] <= db[s] /\ full'[c].version <= version
                        /\ slice'[c][s].at = "answered" =>
                              /\ slice'[c][s].version < painted'[c][s] =>
                                    slice'[c][s].rows <= view'[c][s]
                              /\ full'[c].at = "answered"
                                    /\ slice'[c][s].version < full'[c].version =>
                                    slice'[c][s].rows <= full'[c].rows[s]
      BY <2>0 DEF NobodyAhead, GateDropsOld
    <2>2. /\ view[c][s] <= db[s] /\ painted[c][s] <= version
          /\ slice[c][s].at = "answered" =>
                slice[c][s].rows <= db[s] /\ slice[c][s].version <= version
          /\ full[c].at = "answered" =>
                full[c].rows[s] <= db[s] /\ full[c].version <= version
          /\ slice[c][s].at = "answered" =>
                /\ slice[c][s].version < painted[c][s] => slice[c][s].rows <= view[c][s]
                /\ full[c].at = "answered" /\ slice[c][s].version < full[c].version =>
                      slice[c][s].rows <= full[c].rows[s]
      BY DEF NobodyAhead, GateDropsOld
    <2>3. /\ view[c][s] \in Nat /\ painted[c][s] \in Nat
          /\ slice[c][s].at = "answered" =>
                slice[c][s].rows \in Nat /\ slice[c][s].version \in Nat
          /\ full[c].at = "answered" =>
                full[c].rows[s] \in Nat /\ full[c].version \in Nat
      BY SeenFields
    <2>4. CASE ServeFull(d)
      <3>1. /\ UNCHANGED <<slice, view, painted>>
            /\ \/ full'[c] = full[c]
               \/ full'[c] = [at |-> "answered", rows |-> db, version |-> version]
        BY <1>0, <2>4 DEF ServeFull
      <3> QED BY <1>1, <2>2, <2>3, <3>1
    <2>5. ASSUME NEW t \in Slices, ServeSlice(d, t)
          PROVE  /\ UNCHANGED <<full, view, painted>>
                 /\ \/ slice'[c][s] = slice[c][s]
                    \/ slice'[c][s] = [at |-> "answered", rows |-> db[s], version |-> version]
      BY <1>0, <2>5 DEF ServeSlice
    <2>6. CASE /\ UNCHANGED <<full, view, painted>>
               /\ \/ slice'[c][s] = slice[c][s]
                  \/ slice'[c][s] = [at |-> "answered", rows |-> db[s], version |-> version]
      BY <1>1, <2>2, <2>3, <2>6
    <2>7. ASSUME NEW t \in Slices, ReceiveSlice(d, t)
          PROVE  /\ UNCHANGED <<full, painted>>
                 /\ \/ slice'[c][s] = slice[c][s] /\ view'[c][s] = view[c][s]
                    \/ /\ slice'[c][s].at = "none"
                       /\ \/ view'[c][s] = view[c][s]
                          \/ slice[c][s].at = "answered" /\ view'[c][s] = slice[c][s].rows
      <3>1. /\ UNCHANGED <<full, painted>> /\ slice[d][t].at = "answered"
            /\ slice' = [slice EXCEPT ![d][t] = NoRequest]
            /\ UNCHANGED view \/ view' = [view EXCEPT ![d][t] = slice[d][t].rows]
        BY <2>7, Zenon DEF ReceiveSlice
      <3>2. CASE c = d /\ s = t
        BY <1>0, <3>1, <3>2 DEF NoRequest, Rows
      <3>3. CASE ~(c = d /\ s = t)
        <4>1. slice'[c][s] = slice[c][s]
          BY <1>0, <3>1, <3>3
        <4>2. view'[c][s] = view[c][s]
          BY <1>0, <3>1, <3>3 DEF Rows
        <4> QED BY <3>1, <4>1, <4>2
      <3> QED BY <3>2, <3>3
    <2>8. CASE /\ UNCHANGED <<full, painted>>
               /\ \/ slice'[c][s] = slice[c][s] /\ view'[c][s] = view[c][s]
                  \/ /\ slice'[c][s].at = "none"
                     /\ \/ view'[c][s] = view[c][s]
                        \/ slice[c][s].at = "answered" /\ view'[c][s] = slice[c][s].rows
      BY <1>1, <2>2, <2>3, <2>8
    <2>9. CASE ReceiveFull(d)
      <3>1. CASE c # d
        <4>1. /\ slice'[c] = slice[c] /\ full'[c] = full[c]
              /\ view'[c] = view[c] /\ painted'[c] = painted[c]
          BY <1>0, <2>9, <3>1 DEF ReceiveFull, hydrateDeferredSlices, AskAgain
        <4> QED BY <2>2, <4>1
      <3>2. CASE c = d
        <4>1. full[c].at = "answered" /\ full'[c].at = "none"
          BY <1>0, <2>9, <3>2 DEF ReceiveFull, NoRequest
        <4>2. CASE s \in Deferred
          <5>1. /\ view'[c][s] = view[c][s] /\ painted'[c][s] = painted[c][s]
                /\ slice'[c][s].at = "asked"
            BY <1>0, <2>9, <3>2, <4>2
            DEF ReceiveFull, hydrateDeferredSlices, AskAgain
          <5> QED BY <2>2, <4>1, <5>1
        <4>3. CASE s \notin Deferred
          <5>1. /\ view'[c][s] = full[c].rows[s] /\ painted'[c][s] = full[c].version
                /\ slice'[c][s] = slice[c][s]
            BY <1>0, <2>9, <3>2, <4>3
            DEF ReceiveFull, hydrateDeferredSlices, AskAgain
          <5> QED BY <2>2, <2>3, <4>1, <5>1
        <4> QED BY <4>2, <4>3
      <3> QED BY <3>1, <3>2
    <2> QED BY <1>3, <2>4, <2>5, <2>6, <2>7, <2>8, <2>9 DEF AnswerStep
  <1> QED BY <1>2, <1>3, OtherSteps

-----------------------------------------------------------------------------
(* Screens. *)

(* A commit whose handler has still to send an event that names the slice. *)
Told(s) == \E w \in Writers \ (Aside \cup Silent) :
              job[w].at = "committed" /\ job[w].slice = s

Owes(c, s) ==
    \/ Told(s) \/ Announced(c, s) \/ Requested(c, s)
    \/ s \in gap[c] \/ s \in late[c] \/ s \in notice[c] \/ Blocked \in notice[c]

Current(c, s) == view[c][s] = db[s] \/ Owes(c, s)

LEMMA StaleIsOwed == StaleOnlyIfOwed <=> \A c \in Tabs, s \in Slices : Current(c, s)
  BY DEF StaleOnlyIfOwed, Current, Owes, Told

(* A tab's requests, screen and histories. *)
Unmoved(c) ==
    /\ slice'[c] = slice[c] /\ full'[c] = full[c] /\ view'[c] = view[c]
    /\ notice'[c] = notice[c]

LEMMA ToldKept ==
    ASSUME job \in [Writers -> Jobs], NEW w \in Writers, NEW v, NEW s \in Slices,
           job' = [job EXCEPT ![w] = v], job[w].at # "committed", Told(s)
    PROVE  Told(s)'
  BY JobChange DEF Told

LEMMA AnnouncedBy ==
    ASSUME NEW c \in Tabs, NEW s \in Slices
    PROVE  /\ Announced(c, s) <=>
                 Carries(stream[c], s) \/ s \in burst[c] \/ Unknown \in burst[c]
           /\ Announced(c, s)' <=>
                 Carries(stream'[c], s) \/ s \in burst'[c] \/ Unknown \in burst'[c]
  BY DEF Announced, Carries

(* A change is broadcast: the stream carries it, or the gap records it.    *)
LEMMA BroadcastReaches ==
    ASSUME TypeOK, NEW w \in Writers, NEW t \in Slices, broadcastChange(w, t),
           NEW c \in Tabs, NEW s \in Slices
    PROVE  /\ Carries(stream[c], s) => Carries(stream'[c], s)
           /\ s \in gap[c] => s \in gap'[c]
           /\ s = t /\ w \notin Aside \cup Silent => Carries(stream'[c], s) \/ s \in gap'[c]
  <1> DEFINE m == [type |-> "CHANGE", slice |-> t, domain |-> resolveDomain(w, t),
                   version |-> EventVersion]
  <1>0. m \in Messages /\ stream[c] \in Seq(Messages)
    BY EventTyped DEF TypeOK
  <1>1. m.type = "CHANGE" /\ m.slice = t /\ (w \notin Aside => m.domain # Other)
    BY NamesAssumption DEF resolveDomain, Unknown, Other
  <1>2. /\ stream'[c] = IF conn[c] /\ w \notin Silent THEN Append(stream[c], m) ELSE stream[c]
        /\ gap'[c] = IF conn[c] \/ w \in Silent THEN gap[c] ELSE gap[c] \cup {t}
    BY DEF broadcastChange
  <1> HIDE DEF m
  <1> QED BY <1>0, <1>1, <1>2, AppendCarries

(* Rows without an event ahead: shown or fetched anyway, or late.          *)
LEMMA UntoldOwes ==
    ASSUME TypeOK, NEW c \in Tabs, NEW s \in Slices, Current(c, s),
           NEW t \in Slices, NEW n \in Nat,
           db' = [db EXCEPT ![t] = n], late' = Untold(t, n),
           UNCHANGED <<stream, burst, slice, full, view, notice, gap>>,
           t # s /\ Told(s) => Told(s)'
    PROVE  Current(c, s)'
  <1>0. db \in [Slices -> Nat] /\ late \in [Tabs -> SUBSET Slices]
    BY DEF TypeOK, Rows
  <1>1. Announced(c, s) => Announced(c, s)'
    BY DEF Announced
  <1>2. CASE t = s
    <2>1. db'[s] = n
      BY <1>0, <1>2
    <2>2. view[c][s] = n \/ Announced(c, s) \/ s \in gap[c] \/ WillShow(c, s, n) \/ s \in late'[c]
      BY <1>0, <1>2 DEF Untold
    <2>3. WillShow(c, s, n) => Requested(c, s)'
      BY <2>1 DEF Requested, WillShow
    <2> QED BY <1>1, <2>1, <2>2, <2>3 DEF Current, Owes
  <1>3. CASE t # s
    <2>1. db'[s] = db[s]
      BY <1>0, <1>3
    <2>2. s \in late[c] => s \in late'[c]
      BY <1>0 DEF Untold
    <2>3. Requested(c, s) => Requested(c, s)'
      BY <2>1 DEF Requested, WillShow
    <2> QED BY <1>1, <1>3, <2>1, <2>2, <2>3 DEF Current, Owes
  <1> QED BY <1>2, <1>3

LEMMA WriterSteps ==
    ASSUME TypeOK, NEW w \in Writers, NEW c \in Tabs, NEW s \in Slices, Current(c, s),
           \/ \E t \in Slices : AnnounceInTx(w, t) \/ Commit(w, t)
           \/ Rollback(w) \/ CommitInTx(w) \/ Announce(w) \/ ErrorAfterCommit(w)
    PROVE  Current(c, s)'
  <1>0. /\ job \in [Writers -> Jobs] /\ db \in [Slices -> Nat] /\ late \in [Tabs -> SUBSET Slices]
        /\ job[w].at # "idle" => job[w].slice \in Slices
        /\ db \in Rows
    BY JobFields DEF TypeOK, Rows
  <1>1. ASSUME NEW t \in Slices, AnnounceInTx(w, t) PROVE Current(c, s)'
    <2>1. Unmoved(c) /\ UNCHANGED <<db, late, burst>>
      BY <1>1 DEF AnnounceInTx, Unmoved
    <2>2. Told(s) => Told(s)'
      BY <1>0, <1>1, ToldKept DEF AnnounceInTx
    <2>3. (Announced(c, s) => Announced(c, s)') /\ (s \in gap[c] => s \in gap'[c])
      BY <1>1, <2>1, BroadcastReaches, AnnouncedBy DEF AnnounceInTx
    <2>4. Requested(c, s) => Requested(c, s)'
      BY <2>1 DEF Requested, WillShow, Unmoved
    <2> QED BY <2>1, <2>2, <2>3, <2>4 DEF Current, Owes, Unmoved
  <1>2. ASSUME NEW t \in Slices, Commit(w, t) PROVE Current(c, s)'
    <2>1. UNCHANGED <<stream, burst, slice, full, view, notice, gap>>
      BY <1>2 DEF Commit
    <2>2. Told(s) => Told(s)'
      BY <1>0, <1>2, ToldKept DEF Commit
    <2>3. CASE w \in Aside \cup Silent
      <3>1. /\ db' = [db EXCEPT ![t] = db[t] + 1] /\ late' = Untold(t, db[t] + 1)
            /\ db[t] + 1 \in Nat
        BY <1>0, <1>2, <2>3 DEF Commit
      <3> QED BY <2>1, <2>2, <3>1, UntoldOwes
    <2>4. CASE w \notin Aside \cup Silent
      <3>1. UNCHANGED late
        BY <1>2, <2>4 DEF Commit
      <3>2. CASE t = s
        <4>1. job'[w].at = "committed" /\ job'[w].slice = s
          BY <1>0, <1>2, <3>2 DEF Commit
        <4> QED BY <2>4, <4>1 DEF Current, Owes, Told
      <3>3. CASE t # s
        <4>1. db'[s] = db[s]
          BY <1>0, <1>2, <3>3 DEF Commit
        <4>2. (Announced(c, s) => Announced(c, s)') /\ (Requested(c, s) => Requested(c, s)')
          BY <2>1, <4>1 DEF Announced, Requested, WillShow
        <4> QED BY <2>1, <2>2, <3>1, <4>1, <4>2 DEF Current, Owes
      <3> QED BY <3>2, <3>3
    <2> QED BY <2>3, <2>4
  <1>3. CASE Rollback(w)
    <2>1. UNCHANGED <<db, tab>>
      BY <1>3 DEF Rollback
    <2>2. Told(s) => Told(s)'
      BY <1>0, <1>3, ToldKept DEF Rollback
    <2>3. (Announced(c, s) => Announced(c, s)') /\ (Requested(c, s) => Requested(c, s)')
      BY <2>1 DEF tab, Announced, Requested, WillShow
    <2> QED BY <2>1, <2>2, <2>3 DEF Current, Owes, tab
  <1>4. CASE CommitInTx(w)
    <2> DEFINE t == job[w].slice
    <2>0. t \in Slices /\ db[t] + 1 \in Nat
      BY <1>0, <1>4 DEF CommitInTx
    <2>1. /\ UNCHANGED <<stream, burst, slice, full, view, notice, gap>>
          /\ db' = [db EXCEPT ![t] = db[t] + 1] /\ late' = Untold(t, db[t] + 1)
      BY <1>4 DEF CommitInTx
    <2>2. t # s /\ Told(s) => Told(s)'
      BY <1>0, <1>4, JobChange DEF CommitInTx, Told
    <2> HIDE DEF t
    <2> QED BY <2>0, <2>1, <2>2, UntoldOwes
  <1>5. CASE Announce(w)
    <2> DEFINE t == job[w].slice
    <2>0. t \in Slices
      BY <1>0, <1>5 DEF Announce
    <2>1. Unmoved(c) /\ UNCHANGED <<db, late, burst>> /\ broadcastChange(w, t)
      BY <1>5 DEF Announce, Unmoved
    <2>2. /\ Announced(c, s) => Announced(c, s)'
          /\ s \in gap[c] => s \in gap'[c]
          /\ s = t /\ w \notin Aside \cup Silent => Announced(c, s)' \/ s \in gap'[c]
      BY <2>0, <2>1, BroadcastReaches, AnnouncedBy
    <2>3. (s # t \/ w \in Aside \cup Silent) /\ Told(s) => Told(s)'
      BY <1>0, <1>5, JobChange DEF Announce, Told
    <2>4. Requested(c, s) => Requested(c, s)'
      BY <2>1 DEF Requested, WillShow, Unmoved
    <2> QED BY <2>1, <2>2, <2>3, <2>4 DEF Current, Owes, Unmoved
  <1>6. CASE ErrorAfterCommit(w)
    <2>p. PICK t \in Slices, n \in Nat : ErrorDoes(w, t, n)
      BY <1>0, <1>6, ErrorStep
    <2>1. /\ t = job[w].slice
          /\ db' = [db EXCEPT ![t] = n] /\ late' = Untold(t, n)
          /\ job' = [job EXCEPT ![w] = Resting]
          /\ UNCHANGED <<stream, burst, slice, full, view, notice, gap>>
      BY <2>p DEF ErrorDoes
    <2>2. t # s /\ Told(s) => Told(s)'
      BY <1>0, <2>1, JobChange DEF Told
    <2> QED BY <2>1, <2>2, UntoldOwes
  <1> QED BY <1>1, <1>2, <1>3, <1>4, <1>5, <1>6

(* What other steps of the server, and of other tabs, leave to a tab.      *)
LEMMA NothingForTab ==
    ASSUME NEW c \in Tabs, NEW s \in Slices, Current(c, s), Unmoved(c),
           UNCHANGED db, stream'[c] = stream[c], burst'[c] = burst[c],
           gap'[c] = gap[c], late'[c] = late[c], Told(s) => Told(s)'
    PROVE  Current(c, s)'
  <1>1. (Announced(c, s) => Announced(c, s)') /\ (Requested(c, s) => Requested(c, s)')
    BY DEF Announced, Requested, WillShow, Unmoved
  <1> QED BY <1>1 DEF Current, Owes, Unmoved

LEMMA OtherServerSteps ==
    ASSUME TypeOK, ChainWaits, NEW c \in Tabs, NEW s \in Slices, Current(c, s),
           \/ \E t \in Slices : LoadTable(t)
           \/ \E S \in SUBSET Slices : LoadFails(S)
           \/ Respond \/ NoticeClosed \/ AgeOut
    PROVE  Current(c, s)'
  <1>1. UNCHANGED <<db, tab>>
    BY Zenon DEF LoadTable, LoadFails, Respond, NoticeClosed, AgeOut
  <1>2. Told(s) => Told(s)'
    <2>0. job \in [Writers -> Jobs] /\ chain \in Seq(Writers)
      BY DEF TypeOK
    <2>1. CASE Respond
      <3>1. chain # <<>> /\ job' = [job EXCEPT ![Head(chain)] = Resting]
        BY <2>1 DEF Respond
      <3>2. Head(chain) = chain[1] /\ 1 \in 1 .. Len(chain) /\ Head(chain) \in Writers
        BY <2>0, <3>1
      <3>3. job[Head(chain)].at = "refreshing"
        BY <3>2 DEF ChainWaits
      <3> QED BY <2>0, <3>1, <3>2, <3>3, ToldKept
    <2>2. CASE ~Respond
      <3>1. UNCHANGED job
        BY <2>2, Zenon DEF LoadTable, LoadFails, NoticeClosed, AgeOut
      <3> QED BY <3>1 DEF Told
    <2> QED BY <2>1, <2>2
  <1>3. /\ Unmoved(c) /\ stream'[c] = stream[c] /\ burst'[c] = burst[c]
        /\ gap'[c] = gap[c] /\ late'[c] = late[c]
    BY <1>1 DEF tab, Unmoved
  <1> QED BY <1>1, <1>2, <1>3, NothingForTab

LEMMA RestartOwes ==
    ASSUME TypeOK, Restart, NEW c \in Tabs, NEW s \in Slices, Current(c, s)
    PROVE  Current(c, s)'
  <1>1. UNCHANGED <<db, burst, view, late>>
    BY DEF Restart
  <1>2. /\ s \in gap[c] \/ s \in Undelivered(c) \/ Told(s) => s \in gap'[c]
        /\ s \in notice[c] => s \in notice'[c]
        /\ Blocked \in notice[c] => Blocked \in notice'[c]
    BY DEF Restart, Told
  <1>3. Announced(c, s) => s \in Undelivered(c) \/ s \in burst[c] \/ Unknown \in burst[c]
    BY DEF Announced, Undelivered
  <1>4. Requested(c, s) => s \in notice'[c] \/ Blocked \in notice'[c]
    <2>1. slice[c][s].at # "none" => s \in notice'[c]
      BY DEF Restart
    <2>2. full[c].at # "none" => Blocked \in notice'[c]
      BY DEF Restart
    <2> QED BY <2>1, <2>2 DEF Requested, WillShow, CoversLater
  <1>5. s \in burst[c] \/ Unknown \in burst[c] => Announced(c, s)'
    BY <1>1 DEF Announced
  <1> QED BY <1>1, <1>2, <1>3, <1>4, <1>5 DEF Current, Owes

-----------------------------------------------------------------------------
(* Steps of the tab itself. *)

(* A full request under way covers every slice. *)
LEMMA FullCovers ==
    ASSUME TypeOK, NEW c \in Tabs, StartFull(c), NEW s \in Slices
    PROVE  Current(c, s)'
  <1>1. full'[c].at = "asked"
    BY DEF StartFull, TypeOK
  <1> QED BY <1>1 DEF Current, Owes, Requested, WillShow

(* Slice requests cover theirs and leave the others alone. *)
LEMMA SlicesCover ==
    ASSUME TypeOK, NEW c \in Tabs, NEW S, StartSlices(c, S), NEW s \in Slices, Current(c, s),
           UNCHANGED <<db, job, full, view, notice, stream>>,
           s \notin S /\ s \in burst[c] => s \in burst'[c],
           Unknown \in burst[c] => Unknown \in burst'[c]
    PROVE  Current(c, s)'
  <1>0. /\ slice \in [Tabs -> [Slices -> SliceRequests]]
        /\ gap \in [Tabs -> SUBSET Slices] /\ late \in [Tabs -> SUBSET Slices]
    BY DEF TypeOK
  <1>1. CASE s \in S
    <2>1. slice'[c][s].at = "asked"
      BY <1>0, <1>1 DEF StartSlices, AskAgain
    <2> QED BY <2>1 DEF Current, Owes, Requested, WillShow, CoversLater
  <1>2. CASE s \notin S
    <2>1. /\ slice'[c][s] = slice[c][s]
          /\ s \in gap[c] => s \in gap'[c]
          /\ s \in late[c] => s \in late'[c]
      BY <1>0, <1>2 DEF StartSlices, AskAgain
    <2>2. (Announced(c, s) => Announced(c, s)') /\ (Requested(c, s) => Requested(c, s)')
      BY <1>2, <2>1 DEF Announced, Requested, WillShow
    <2> QED BY <2>1, <2>2 DEF Current, Owes, Told
  <1> QED BY <1>1, <1>2

LEMMA EventOwes ==
    ASSUME TypeOK, StreamsClean, NEW c \in Tabs, handleSyncEvent(c), NEW s \in Slices,
           Current(c, s)
    PROVE  Current(c, s)'
  <1> DEFINE m == Head(stream[c])
  <1>0. /\ stream[c] \in Seq(Messages) /\ stream[c] # <<>> /\ seen[c] \in Nat
        /\ stream'[c] = Tail(stream[c])
        /\ m \in Messages
        /\ UNCHANGED <<db, job, slice, view, notice>>
    BY DEF TypeOK, handleSyncEvent
  <1>1. Carries(stream[c], s) =>
            \/ Carries(stream'[c], s)
            \/ m.type = "CHANGE" /\ m.slice = s /\ m.domain # Other
    BY <1>0, TailCarries
  <1>2. CASE m.type = "CONNECTED" /\ m.version > seen[c]
    <2>1. StartFull(c)
      <3>1. m.version \in Nat /\ seen[c] \in Nat
        BY <1>0, <1>2, MessageFields
      <3>2. ~(m.version <= seen[c])
        BY <1>2, <3>1
      <3> QED BY <1>2, <3>2, Zenon DEF handleSyncEvent
    <2> QED BY <2>1, FullCovers
  <1>3. CASE m.type = "CONNECTED" /\ ~(m.version > seen[c])
    <2>1. UNCHANGED <<burst, full, gap, late>>
      BY <1>0, <1>3, MessageFields DEF handleSyncEvent
    <2>2. Announced(c, s) => Announced(c, s)'
      BY <1>1, <1>3, <2>1, AnnouncedBy
    <2>3. Requested(c, s) => Requested(c, s)'
      BY <1>0, <2>1 DEF Requested, WillShow
    <2> QED BY <1>0, <2>1, <2>2, <2>3 DEF Current, Owes, Told
  <1>4. CASE m.type = "CHANGE"
    <2>1. burst' = [burst EXCEPT ![c] = @ \cup {m.domain}] /\ UNCHANGED <<full, gap, late>>
      BY <1>4 DEF handleSyncEvent
    <2>2. burst'[c] = burst[c] \cup {m.domain}
      BY <2>1 DEF TypeOK
    <2>3. m.domain \in {Unknown, Other, m.slice}
      <3>1. m = stream[c][1] /\ 1 \in 1 .. Len(stream[c])
        BY <1>0
      <3> QED BY <1>4, <3>1 DEF StreamsClean
    <2>4. Announced(c, s) => Announced(c, s)'
      BY <1>1, <2>2, <2>3, AnnouncedBy
    <2>5. Requested(c, s) => Requested(c, s)'
      BY <1>0, <2>1 DEF Requested, WillShow
    <2> QED BY <1>0, <2>1, <2>4, <2>5 DEF Current, Owes, Told
  <1> QED BY <1>0, <1>2, <1>3, <1>4, MessageFields

LEMMA FlushOwes ==
    ASSUME TypeOK, NEW c \in Tabs, flush(c), NEW s \in Slices, Current(c, s)
    PROVE  Current(c, s)'
  <1>1. CASE Unknown \in burst[c]
    BY <1>1, FullCovers DEF flush
  <1>2. CASE Unknown \notin burst[c]
    <2>1. StartSlices(c, burst[c]) /\ UNCHANGED <<db, job, full, view, notice, stream>>
      BY <1>2 DEF flush
    <2> QED BY <1>2, <2>1, SlicesCover

  <1> QED BY <1>1, <1>2

LEMMA ServeOwes ==
    ASSUME TypeOK, NEW c \in Tabs, NEW s \in Slices, Current(c, s),
           ServeFull(c) \/ \E t \in Slices : ServeSlice(c, t)
    PROVE  Current(c, s)'
  <1>0. /\ slice \in [Tabs -> [Slices -> SliceRequests]] /\ full \in [Tabs -> FullRequests]
        /\ UNCHANGED <<db, job, stream, burst, view, notice, gap, late>>
    BY DEF TypeOK, ServeFull, ServeSlice
  <1>1. Announced(c, s) => Announced(c, s)'
    BY <1>0 DEF Announced
  <1>2. CASE ServeFull(c)
    <2>1. full'[c].at = "answered" /\ full'[c].rows = db
      BY <1>0, <1>2 DEF ServeFull
    <2> QED BY <1>0, <2>1 DEF Current, Owes, Requested, WillShow
  <1>3. ASSUME NEW t \in Slices, ServeSlice(c, t) PROVE Current(c, s)'
    <2>1. UNCHANGED full
      BY <1>3 DEF ServeSlice
    <2>2. CASE t = s
      <3>1. slice'[c][s].at = "answered" /\ slice'[c][s].rows = db[s]
        BY <1>0, <1>3, <2>2 DEF ServeSlice
      <3> QED BY <1>0, <3>1 DEF Current, Owes, Requested, WillShow, CoversLater
    <2>3. CASE t # s
      <3>1. slice'[c][s] = slice[c][s]
        BY <1>0, <1>3, <2>3 DEF ServeSlice
      <3>2. Requested(c, s) => Requested(c, s)'
        BY <1>0, <2>1, <3>1 DEF Requested, WillShow
      <3> QED BY <1>0, <1>1, <3>2 DEF Current, Owes, Told
    <2> QED BY <2>2, <2>3
  <1> QED BY <1>2, <1>3

(* The answer of a slice is painted, or dropped when the screen is newer.  *)
LEMMA SliceOwes ==
    ASSUME TypeOK, NobodyAhead, GateDropsOld, NEW c \in Tabs, NEW t \in Slices,
           ReceiveSlice(c, t), NEW s \in Slices, Current(c, s)
    PROVE  Current(c, s)'
  <1> DEFINE r == slice[c][t]
  <1>0. /\ slice \in [Tabs -> [Slices -> SliceRequests]] /\ view \in [Tabs -> [Slices -> Nat]]
        /\ late \in [Tabs -> SUBSET Slices] /\ notice \in [Tabs -> SUBSET (Slices \cup {Blocked})]
        /\ r.at = "answered" /\ slice' = [slice EXCEPT ![c][t] = NoRequest]
        /\ UNCHANGED <<db, job, stream, burst, full, gap>>
    BY Zenon DEF TypeOK, Rows, ReceiveSlice
  <1>1. Announced(c, s) => Announced(c, s)'
    BY <1>0 DEF Announced
  <1>2. \/ r.version < painted[c][t] /\ UNCHANGED <<view, notice, seen, late>>
        \/ /\ view' = [view EXCEPT ![c][t] = r.rows]
           /\ notice' = [notice EXCEPT ![c] = @ \ {t}]
           /\ late' = IF r.rows = db[t] THEN late ELSE [late EXCEPT ![c] = @ \cup {t}]
    BY Zenon DEF ReceiveSlice
  <1>3. CASE t # s
    <2>1. slice'[c][s] = slice[c][s] /\ view'[c][s] = view[c][s]
      BY <1>0, <1>2, <1>3
    <2>2. /\ s \in notice[c] => s \in notice'[c]
          /\ Blocked \in notice[c] => Blocked \in notice'[c]
          /\ s \in late[c] => s \in late'[c]
      BY <1>0, <1>2, <1>3, NamesAssumption
    <2>3. Requested(c, s) => Requested(c, s)'
      BY <1>0, <2>1 DEF Requested, WillShow
    <2> QED BY <1>0, <1>1, <2>1, <2>2, <2>3 DEF Current, Owes, Told
  <1>4. CASE t = s /\ view' = [view EXCEPT ![c][t] = r.rows]
                   /\ late' = IF r.rows = db[t] THEN late ELSE [late EXCEPT ![c] = @ \cup {t}]
    <2>1. view'[c][s] = r.rows /\ (r.rows # db[s] => s \in late'[c])
      BY <1>0, <1>4
    <2> QED BY <1>0, <2>1 DEF Current, Owes
  <1>5. CASE t = s /\ r.version < painted[c][t] /\ UNCHANGED <<view, notice, seen, late>>
    <2>1. CASE r.rows = db[s]
      <3>1. r.rows <= view[c][s] /\ view[c][s] <= db[s]
        BY <1>0, <1>5 DEF GateDropsOld, NobodyAhead
      <3>2. view[c][s] \in Nat /\ db[s] \in Nat
        BY DEF TypeOK, Rows
      <3>3. view[c][s] = db[s]
        BY <2>1, <3>1, <3>2
      <3>4. view'[c][s] = view[c][s] /\ db'[s] = db[s]
        BY <1>0, <1>5
      <3> QED BY <3>3, <3>4 DEF Current
    <2>2. CASE r.rows # db[s]
      <3>1. ~CoversLater(slice[c][s], db[s])
        BY <1>0, <1>5, <2>2 DEF CoversLater
      <3>2. Requested(c, s) => Requested(c, s)'
        BY <1>0, <3>1 DEF Requested, WillShow
      <3> QED BY <1>0, <1>1, <1>5, <3>2 DEF Current, Owes, Told
    <2> QED BY <2>1, <2>2
  <1> QED BY <1>2, <1>3, <1>4, <1>5

LEMMA FullOwes ==
    ASSUME TypeOK, NEW c \in Tabs, ReceiveFull(c), NEW s \in Slices, Current(c, s)
    PROVE  Current(c, s)'
  <1>0. /\ slice \in [Tabs -> [Slices -> SliceRequests]] /\ view \in [Tabs -> [Slices -> Nat]]
        /\ late \in [Tabs -> SUBSET Slices] /\ UNCHANGED db
    BY DEF TypeOK, Rows, ReceiveFull
  <1>1. CASE s \in Deferred
    <2>1. slice'[c][s].at = "asked"
      BY <1>0, <1>1 DEF ReceiveFull, hydrateDeferredSlices, AskAgain
    <2> QED BY <2>1 DEF Current, Owes, Requested, WillShow, CoversLater
  <1>2. CASE s \notin Deferred
    <2>1. view'[c][s] = full[c].rows[s]
      BY <1>0, <1>2 DEF ReceiveFull
    <2>2. full[c].rows[s] # db[s] => s \in late'[c]
      BY <1>0, <1>2 DEF ReceiveFull
    <2> QED BY <1>0, <2>1, <2>2 DEF Current, Owes
  <1> QED BY <1>1, <1>2

LEMMA FailureOwes ==
    ASSUME TypeOK, NEW c \in Tabs, NEW s \in Slices, Current(c, s),
           FullFails(c) \/ \E t \in Slices : SliceFails(c, t)
    PROVE  Current(c, s)'
  <1>0. /\ slice \in [Tabs -> [Slices -> SliceRequests]]
        /\ notice \in [Tabs -> SUBSET (Slices \cup {Blocked})]
        /\ UNCHANGED <<db, job, stream, burst, view, gap, late>>
    BY DEF TypeOK, FullFails, SliceFails
  <1>1. CASE FullFails(c)
    <2>1. Blocked \in notice'[c]
      BY <1>0, <1>1 DEF FullFails
    <2> QED BY <2>1 DEF Current, Owes
  <1>2. ASSUME NEW t \in Slices, SliceFails(c, t) PROVE Current(c, s)'
    <2>1. CASE t = s
      <3>1. s \in notice'[c]
        BY <1>0, <1>2, <2>1 DEF SliceFails
      <3> QED BY <3>1 DEF Current, Owes
    <2>2. CASE t # s
      <3>1. /\ slice'[c][s] = slice[c][s] /\ UNCHANGED full
            /\ notice[c] \subseteq notice'[c]
        BY <1>0, <1>2, <2>2 DEF SliceFails
      <3>2. (Announced(c, s) => Announced(c, s)') /\ (Requested(c, s) => Requested(c, s)')
        BY <1>0, <3>1 DEF Announced, Requested, WillShow
      <3> QED BY <1>0, <3>1, <3>2 DEF Current, Owes, Told
    <2> QED BY <2>1, <2>2
  <1> QED BY <1>1, <1>2

LEMMA ConnectionOwes ==
    ASSUME TypeOK, StreamsClean, NEW c \in Tabs, LoseConnection(c) \/ connect(c),
           NEW s \in Slices, Current(c, s)
    PROVE  Current(c, s)'
  <1>0. /\ stream \in [Tabs -> Seq(Messages)] /\ gap \in [Tabs -> SUBSET Slices]
        /\ UNCHANGED <<db, job, burst, slice, full, view, notice, late>>
    BY DEF TypeOK, LoseConnection, connect
  <1>1. Requested(c, s) => Requested(c, s)'
    BY <1>0 DEF Requested, WillShow
  <1>2. s \in gap[c] => s \in gap'[c]
    BY <1>0 DEF LoseConnection, connect
  <1>3. Announced(c, s) => Announced(c, s)' \/ s \in gap'[c]
    <2>1. CASE LoseConnection(c)
      <3>1. gap'[c] = gap[c] \cup Undelivered(c)
        BY <1>0, <2>1 DEF LoseConnection
      <3> QED BY <1>0, <3>1 DEF Announced, Undelivered
    <2>2. CASE connect(c)
      <3>1. stream[c] = <<>>
        BY <2>2 DEF connect, StreamsClean
      <3> QED BY <1>0, <3>1 DEF Announced
    <2> QED BY <2>1, <2>2
  <1> QED BY <1>0, <1>1, <1>2, <1>3 DEF Current, Owes, Told

(* A step of one tab is none of another's.                                 *)
LEMMA OtherTab ==
    ASSUME TypeOK, NEW d \in Tabs,
           TabAlone(d) \/ LoseConnection(d) \/ connect(d) \/ SwitchBranch(d),
           NEW c \in Tabs, c # d, NEW s \in Slices, Current(c, s)
    PROVE  Current(c, s)'
  <1>0. /\ burst \in [Tabs -> SUBSET (Slices \cup {Unknown, Other})]
        /\ slice \in [Tabs -> [Slices -> SliceRequests]]
        /\ full \in [Tabs -> FullRequests] /\ view \in [Tabs -> Rows]
        /\ notice \in [Tabs -> SUBSET (Slices \cup {Blocked})]
        /\ stream \in [Tabs -> Seq(Messages)]
        /\ gap \in [Tabs -> SUBSET Slices] /\ late \in [Tabs -> SUBSET Slices]
    BY DEF TypeOK
  <1> DEFINE Same == /\ Unmoved(c) /\ stream'[c] = stream[c] /\ burst'[c] = burst[c]
                     /\ gap'[c] = gap[c] /\ late'[c] = late[c]
  <1>1. ASSUME handleSyncEvent(d) PROVE Same
    <2>1. /\ stream' = [stream EXCEPT ![d] = Tail(@)]
          /\ burst' = burst \/ \E v : burst' = [burst EXCEPT ![d] = v]
          /\ UNCHANGED <<full, gap, late>> \/ StartFull(d)
          /\ UNCHANGED <<slice, view, notice>>
      BY <1>1, Zenon DEF handleSyncEvent
    <2> QED BY <1>0, <2>1 DEF StartFull, Unmoved
  <1>2. ASSUME flush(d) \/ RetryFailed(d) \/ PollVersion(d) \/ ManualRefresh(d) PROVE Same
    BY <1>0, <1>2
    DEF flush, RetryFailed, PollVersion, ManualRefresh, StartFull, StartSlices, AskAgain,
        Unmoved
  <1>3. ASSUME ServeFull(d) \/ FullFails(d) \/ \E t \in Slices : ServeSlice(d, t) \/ SliceFails(d, t)
        PROVE  Same
    BY <1>0, <1>3 DEF ServeFull, FullFails, ServeSlice, SliceFails, Unmoved
  <1>4. ASSUME NEW t \in Slices, ReceiveSlice(d, t) PROVE Same
    <2>1. /\ slice' = [slice EXCEPT ![d][t] = NoRequest]
          /\ view' = view \/ view' = [view EXCEPT ![d][t] = slice[d][t].rows]
          /\ notice' = notice \/ notice' = [notice EXCEPT ![d] = @ \ {t}]
          /\ late' = late \/ late' = [late EXCEPT ![d] = @ \cup {t}]
          /\ UNCHANGED <<full, stream, burst, gap>>
      BY <1>4, Zenon DEF ReceiveSlice
    <2> QED BY <1>0, <2>1 DEF Unmoved
  <1>5. ASSUME ReceiveFull(d) PROVE Same
    BY <1>0, <1>5 DEF ReceiveFull, hydrateDeferredSlices, AskAgain, Unmoved
  <1>6. ASSUME LoseConnection(d) \/ connect(d) \/ SwitchBranch(d) PROVE Same
    BY <1>0, <1>6 DEF LoseConnection, connect, SwitchBranch, StartFull, Unmoved
  <1>7. UNCHANGED <<db, job>>
    BY AloneSteps DEF LoseConnection, connect, SwitchBranch
  <1>8. Same
    BY <1>1, <1>2, <1>3, <1>4, <1>5, <1>6 DEF TabAlone
  <1>9. Told(s) => Told(s)'
    BY <1>7 DEF Told
  <1> QED BY <1>7, <1>8, <1>9, NothingForTab

LEMMA ScreensKept ==
    ASSUME TypeOK, ChainWaits, StreamsClean, NobodyAhead, GateDropsOld, StaleOnlyIfOwed,
           [Next]_vars
    PROVE  StaleOnlyIfOwed'
  <1> SUFFICES ASSUME NEW c \in Tabs, NEW s \in Slices, Current(c, s) PROVE Current(c, s)'
    <2>1. \A c \in Tabs, s \in Slices : Current(c, s)
      BY StaleIsOwed
    <2>2. ASSUME \A c \in Tabs, s \in Slices : Current(c, s)' PROVE StaleOnlyIfOwed'
      BY <2>2 DEF StaleOnlyIfOwed, Current, Owes, Told
    <2> QED BY <2>1, <2>2
  <1>1. ASSUME NEW d \in Tabs, d # c,
               TabAlone(d) \/ LoseConnection(d) \/ connect(d) \/ SwitchBranch(d)
        PROVE  Current(c, s)'
    BY <1>1, OtherTab
  <1>2. CASE SwitchBranch(c) \/ PollVersion(c) \/ ManualRefresh(c)
    BY <1>2, FullCovers DEF SwitchBranch, PollVersion, ManualRefresh
  <1>3. CASE RetryFailed(c)
    <2>1. /\ StartSlices(c, notice[c] \cap Slices)
          /\ UNCHANGED <<db, job, full, view, notice, stream, burst>>
      BY <1>3 DEF RetryFailed
    <2> QED BY <2>1, SlicesCover
  <1>4. CASE TabAlone(c)
    BY <1>2, <1>3, <1>4, EventOwes, FlushOwes, ServeOwes, SliceOwes, FullOwes, FailureOwes
    DEF TabAlone
  <1>5. CASE LoseConnection(c) \/ connect(c)
    BY <1>5, ConnectionOwes
  <1>6. ASSUME NEW w \in Writers,
               \/ \E t \in Slices : AnnounceInTx(w, t) \/ Commit(w, t)
               \/ Rollback(w) \/ CommitInTx(w) \/ Announce(w) \/ ErrorAfterCommit(w)
        PROVE  Current(c, s)'
    BY <1>6, WriterSteps
  <1>7. CASE ServerAlone
    BY <1>6, <1>7, OtherServerSteps DEF ServerAlone
  <1>8. CASE Restart
    BY <1>8, RestartOwes
  <1>9. CASE UNCHANGED vars
    <2>1. UNCHANGED <<db, job, tab>>
      BY <1>9 DEF vars
    <2>2. /\ Unmoved(c) /\ stream'[c] = stream[c] /\ burst'[c] = burst[c]
          /\ gap'[c] = gap[c] /\ late'[c] = late[c] /\ (Told(s) => Told(s)')
      BY <2>1 DEF tab, Unmoved, Told
    <2> QED BY <2>1, <2>2, NothingForTab
  <1> QED BY <1>1, <1>2, <1>4, <1>5, <1>6, <1>7, <1>8, <1>9, EveryStep

(* A screen is outdated only while the change is on its way to it, a       *)
(* failure is on display, or it was missed in one of the ways that the     *)
(* histories record, for any number of tabs, slices and writers.  The gate *)
(* that drops an answer relies on versions and rows growing together:      *)
(* NobodyAhead and GateDropsOld.                                           *)
THEOREM ScreenIsOwed == Spec => []StaleOnlyIfOwed
  <1> DEFINE Inv == /\ StaleOnlyIfOwed /\ ChainWaits /\ StreamsClean
                    /\ NobodyAhead /\ GateDropsOld
  <1>1. Init => Inv
    <2> SUFFICES ASSUME Init PROVE Inv
      OBVIOUS
    <2>1. StaleOnlyIfOwed /\ ChainWaits
      BY DEF Init, StaleOnlyIfOwed, ChainWaits
    <2>2. StreamsClean
      BY DEF Init, StreamsClean
    <2>3. NobodyAhead /\ GateDropsOld
      BY DEF Init, NobodyAhead, GateDropsOld, NoRequest
    <2> QED BY <2>1, <2>2, <2>3
  <1>2. TypeOK /\ TypeOK' /\ Inv /\ [Next]_vars => Inv'
    <2> SUFFICES ASSUME TypeOK, TypeOK', Inv, [Next]_vars PROVE Inv'
      OBVIOUS
    <2>0. ServerTyped /\ ServerTyped' /\ ScreenTyped /\ StreamTyped
      BY TypeParts DEF TypeOK, ServerTyped
    <2> QED BY <2>0, ChainKept, StreamsKept, ReadingKept, ScreensKept
  <1> QED BY <1>1, <1>2, TypeCorrect, PTL DEF Spec

=============================================================================
