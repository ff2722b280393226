------------------------------- MODULE Sync -------------------------------
(***************************************************************************)
(* How a committed change reaches the server's mirrors and the screens.    *)
(*                                                                         *)
(* Server: a write commits, broadcastChange tells every open event stream  *)
(* (realtime/sse.ts, services/audit.service.ts), and cacheRefreshHook.ts   *)
(* holds the response until refreshOperationalCache (runtimeState.ts) has  *)
(* re-read every table.  Refreshes queue on refreshChain.                  *)
(*                                                                         *)
(* Client: services/api/sync.ts keeps one EventSource per tab and opens it *)
(* again after a loss; App.tsx collects events for 250 ms, then re-fetches *)
(* the touched slices, or everything when an event's domain is unknown.    *)
(* A handshake or a version poll with a newer dataVersion re-fetches       *)
(* everything.  services/bootstrapSlices.ts decides which answers paint.   *)
(*                                                                         *)
(* The rows of a slice are the number of writes they include.  A handshake *)
(* carries runtimeState's dataVersion (set at boot, moved only by a        *)
(* profile update), an event carries sse.ts's own one (Date.now() of the   *)
(* broadcast): of the latter only its order with the former matters.       *)
(***************************************************************************)
EXTENDS Integers, Sequences, FiniteSets

CONSTANTS
    Tabs, Slices, Writers,
    Touches,      \* the slices each writer may change
    InTx,         \* writers that log their audit event inside the transaction
    Deferred,     \* slices the full bootstrap leaves out
    Unlisted,     \* writers whose events resolve to no domain (ACCOUNTING)
    Aside,        \* writers whose domain leaves out the slice they change: a
                  \* deployment moves stock and says FIXED_ASSETS
    Silent,       \* writers that broadcast nothing: an approved desk request
    Bumping,      \* writers that also move runtimeState's dataVersion
    MaxStreams,   \* SSE_MAX_CONNECTIONS_PER_IP; the tabs share an address
    MaxWrites,    \* bound: mutating requests
    MaxUpsets     \* bound: lost connections, failed requests, restarts, hours,
                  \* manual refreshes and changes of view

ASSUME SyncAssumption ==
    /\ Touches \in [Writers -> SUBSET Slices]
    /\ InTx \subseteq Writers /\ Unlisted \subseteq Writers
    /\ Aside \subseteq Writers \ Unlisted /\ Silent \subseteq Writers \ InTx
    /\ Deferred \subseteq Slices /\ Bumping \subseteq Writers
    /\ IsFiniteSet(Tabs)
    /\ MaxStreams \in Nat \ {0}
    /\ MaxWrites \in Nat /\ MaxUpsets \in Nat

VARIABLES
    db,        \* committed writes of each slice
    job,       \* the mutating request each writer is at
    \* the server process
    mirror,    \* the runtime arrays
    chain,     \* refreshChain: requests whose refresh is queued or running
    unread,    \* tables the running refresh has still to read
    version,   \* runtimeState's dataVersion
    skipped,   \* tables whose last read failed, or whose change no refresh
               \* followed because its request was answered with an error
    hits,      \* the stream limiter's bucket for the tabs' address
    dead,      \* streams the server holds for connections that are gone
    \* the tabs
    conn,      \* is the EventSource open
    stream,    \* messages written to it and not yet handled
    seen,      \* serverDataVersionRef
    burst,     \* domains observed in the debounce window
    slice,     \* the latest request of each slice
    full,      \* the latest full bootstrap request
    painted,   \* the gate's appliedByKey
    view,      \* rows on the screen
    notice,    \* failures shown to the user
    \* history
    gap,       \* slices with an event that no open stream carried
    late,      \* slices whose rows were outdated when they were painted, or
               \* committed with no event on its way that would fetch them
    spent      \* requests and upsets so far

server == <<mirror, chain, unread, version, skipped, hits, dead>>
tab == <<conn, stream, seen, burst, slice, full, painted, view, notice, gap, late>>
vars == <<db, job, server, tab, spent>>

-----------------------------------------------------------------------------
(* Versions: boot k hands out Era * k plus the bumps; every event of that  *)
(* boot is newer than both, every later boot newer than the events.        *)
Era == MaxWrites + 2
EventVersion == (version \div Era) * Era + Era - 1

Unknown == "__UNKNOWN__"
Other == "a domain of other slices, or of none"
Blocked == "bootstrapBlocked"

ASSUME NamesAssumption == /\ Unknown \notin Slices /\ Other \notin Slices
                          /\ Blocked \notin Slices

Resting == [at |-> "idle"]
Jobs == {Resting} \cup
        [at : {"announced", "committed", "refreshing"}, slice : Slices]

NoRequest == [at |-> "none"]
Rows == [Slices -> Nat]
SliceRequests == {NoRequest, [at |-> "asked"]} \cup
                 [at : {"answered"}, rows : Nat, version : Nat]
FullRequests == {NoRequest, [at |-> "asked"]} \cup
                [at : {"answered"}, rows : Rows, version : Nat]

Messages == [type : {"CONNECTED"}, version : Nat] \cup
            [type : {"CHANGE"}, slice : Slices, domain : Slices \cup {Unknown, Other},
             version : Nat]

TypeOK ==
    /\ db \in Rows /\ mirror \in Rows
    /\ job \in [Writers -> Jobs]
    /\ chain \in Seq(Writers) /\ unread \subseteq Slices /\ skipped \subseteq Slices
    /\ version \in Nat /\ hits \in Nat /\ dead \in Nat
    /\ conn \in [Tabs -> BOOLEAN]
    /\ stream \in [Tabs -> Seq(Messages)]
    /\ seen \in [Tabs -> Nat]
    /\ burst \in [Tabs -> SUBSET (Slices \cup {Unknown, Other})]
    /\ slice \in [Tabs -> [Slices -> SliceRequests]]
    /\ full \in [Tabs -> FullRequests]
    /\ painted \in [Tabs -> Rows] /\ view \in [Tabs -> Rows]
    /\ notice \in [Tabs -> SUBSET (Slices \cup {Blocked})]
    /\ gap \in [Tabs -> SUBSET Slices] /\ late \in [Tabs -> SUBSET Slices]
    /\ spent \in [writes : 0 .. MaxWrites, upsets : 0 .. MaxUpsets]

(* Every tab has just loaded the page.                                     *)
Init ==
    /\ db = [s \in Slices |-> 0] /\ mirror = db
    /\ job = [w \in Writers |-> Resting]
    /\ chain = <<>> /\ unread = {} /\ skipped = {}
    /\ version = 0 /\ hits = Cardinality(Tabs) /\ dead = 0
    /\ conn = [c \in Tabs |-> TRUE] /\ stream = [c \in Tabs |-> <<>>]
    /\ seen = [c \in Tabs |-> 0] /\ burst = [c \in Tabs |-> {}]
    /\ slice = [c \in Tabs |-> [s \in Slices |-> NoRequest]]
    /\ full = [c \in Tabs |-> NoRequest]
    /\ painted = [c \in Tabs |-> db] /\ view = [c \in Tabs |-> db]
    /\ notice = [c \in Tabs |-> {}]
    /\ gap = [c \in Tabs |-> {}] /\ late = [c \in Tabs |-> {}]
    /\ spent = [writes |-> 0, upsets |-> 0]

Upset == /\ spent.upsets < MaxUpsets
         /\ spent' = [spent EXCEPT !.upsets = @ + 1]

Write == /\ spent.writes < MaxWrites
         /\ spent' = [spent EXCEPT !.writes = @ + 1]

-----------------------------------------------------------------------------
(* What a tab still owes a slice: an event on its way, or a request whose  *)
(* answer has not been read yet, or was read with the current rows.        *)

CoversLater(r, n) == r.at = "asked" \/ (r.at = "answered" /\ r.rows = n)

Announced(c, s) ==
    \/ \E i \in DOMAIN stream[c] : /\ stream[c][i].type = "CHANGE"
                                   /\ stream[c][i].slice = s
                                   /\ stream[c][i].domain # Other
    \/ s \in burst[c] \/ Unknown \in burst[c]

WillShow(c, s, n) ==
    \/ CoversLater(slice[c][s], n)
    \/ full[c].at = "asked"
    \/ full[c].at = "answered" /\ (s \in Deferred \/ full[c].rows[s] = n)

Requested(c, s) == WillShow(c, s, db[s])

(* The n rows of a slice have no event ahead: late for every tab that does *)
(* not show or fetch them anyway.                                          *)
Untold(s, n) == [c \in Tabs |->
    IF view[c][s] = n \/ Announced(c, s) \/ s \in gap[c] \/ WillShow(c, s, n)
    THEN late[c] ELSE late[c] \cup {s}]

-----------------------------------------------------------------------------
(* The server. *)

\* Mutant: an event that is not listed passes for a domain of its own.
RawDomain(w, s) == IF w \in Unlisted THEN w ELSE s

(* DOMAIN_TO_SLICES of the event's entity: an entity that is not listed    *)
(* has no domain; a listed one names the slice that was touched, or, as    *)
(* ASSETS does, leaves it out.                                             *)
resolveDomain(w, s) ==
    IF w \in Unlisted THEN Unknown ELSE IF w \in Aside THEN Other ELSE s

(* broadcastChange: one message per open stream; logAuditEvent broadcasts  *)
(* before its INSERT, so with a transaction's client the event precedes    *)
(* the commit.  Some handlers log none.                                    *)
broadcastChange(w, s) ==
    /\ stream' = [c \in Tabs |->
          IF conn[c] /\ w \notin Silent
          THEN Append(stream[c], [type |-> "CHANGE", slice |-> s,
                                  domain |-> resolveDomain(w, s),
                                  version |-> EventVersion])
          ELSE stream[c]]
    /\ gap' = [c \in Tabs |-> IF conn[c] \/ w \in Silent THEN gap[c]
                                                        ELSE gap[c] \cup {s}]

AnnounceInTx(w, s) ==
    /\ w \in InTx /\ s \in Touches[w] /\ job[w].at = "idle"
    /\ Write
    /\ job' = [job EXCEPT ![w] = [at |-> "announced", slice |-> s]]
    /\ broadcastChange(w, s)
    /\ UNCHANGED <<db, server, conn, seen, burst, slice, full, painted, view,
                   notice, late>>

\* Mutant: a refresh that is already running is taken to include this write.
ShareRefresh(w) ==
    /\ chain' = IF chain = <<>> THEN <<w>> ELSE chain
    /\ unread' = IF chain = <<>> THEN Slices ELSE unread

(* res.json under the hook: the response waits for a refresh of its own,   *)
(* queued behind the running one.                                          *)
refreshOperationalCache(w) ==
    /\ chain' = Append(chain, w)
    /\ unread' = IF chain = <<>> THEN Slices ELSE unread

CommitInTx(w) ==
    /\ job[w].at = "announced"
    /\ LET s == job[w].slice IN
          /\ db' = [db EXCEPT ![s] = @ + 1]
          /\ late' = Untold(s, db[s] + 1)
    /\ job' = [job EXCEPT ![w].at = "refreshing"]
    /\ refreshOperationalCache(w)
    /\ UNCHANGED <<mirror, version, skipped, hits, dead, conn, stream, seen,
                   burst, slice, full, painted, view, notice, gap, spent>>

Rollback(w) ==
    /\ job[w].at = "announced"
    /\ job' = [job EXCEPT ![w] = Resting]
    /\ UNCHANGED <<db, server, tab, spent>>

Commit(w, s) ==
    /\ w \notin InTx /\ s \in Touches[w] /\ job[w].at = "idle"
    /\ Write
    /\ db' = [db EXCEPT ![s] = @ + 1]
    /\ job' = [job EXCEPT ![w] = [at |-> "committed", slice |-> s]]
    /\ late' = IF w \in Aside \cup Silent THEN Untold(s, db[s] + 1) ELSE late
    /\ UNCHANGED <<server, conn, stream, seen, burst, slice, full, painted, view,
                   notice, gap>>

(* The event after the commit; put_companyProfile then moves the version.  *)
Announce(w) ==
    /\ job[w].at = "committed"
    /\ job' = [job EXCEPT ![w].at = "refreshing"]
    /\ broadcastChange(w, job[w].slice)
    /\ version' = IF w \in Bumping THEN version + 1 ELSE version
    /\ refreshOperationalCache(w)
    /\ UNCHANGED <<db, mirror, skipped, hits, dead, conn, seen, burst, slice,
                   full, painted, view, notice, late, spent>>

(* A later step of the handler throws, its transaction committed: with a   *)
(* status of 400 or more the hook sends the body at once.                  *)
ErrorAfterCommit(w) ==
    /\ job[w].at \in {"announced", "committed"}
    /\ LET s == job[w].slice
           n == IF job[w].at = "announced" THEN db[s] + 1 ELSE db[s] IN
          /\ db' = [db EXCEPT ![s] = n]
          /\ skipped' = IF mirror[s] = n THEN skipped ELSE skipped \cup {s}
          /\ late' = Untold(s, n)
    /\ job' = [job EXCEPT ![w] = Resting]
    /\ UNCHANGED <<mirror, chain, unread, version, hits, dead, conn, stream, seen,
                   burst, slice, full, painted, view, notice, gap, spent>>

(* One entry of CACHE_LOADS: read the table, replace the array.            *)
LoadTable(s) ==
    /\ s \in unread
    /\ mirror' = [mirror EXCEPT ![s] = db[s]]
    /\ unread' = unread \ {s}
    /\ skipped' = skipped \ {s}
    /\ UNCHANGED <<db, job, chain, version, hits, dead, tab, spent>>

(* A failed query is logged and skipped; without a connection the refresh  *)
(* skips every table.                                                      *)
LoadFails(S) ==
    /\ S # {} /\ S \subseteq unread
    /\ Cardinality(S) = 1 \/ S = Slices
    /\ Upset
    /\ unread' = unread \ S
    /\ skipped' = skipped \cup S
    /\ UNCHANGED <<db, job, mirror, chain, version, hits, dead, tab>>

(* The refresh settles: the response goes out, the next refresh starts.    *)
Respond ==
    /\ chain # <<>> /\ unread = {}
    /\ job' = [job EXCEPT ![Head(chain)] = Resting]
    /\ chain' = Tail(chain)
    /\ unread' = IF Len(chain) > 1 THEN Slices ELSE {}
    /\ UNCHANGED <<db, mirror, version, skipped, hits, dead, tab, spent>>

(* revoke: removes one hit of the address, if there is one.                *)
revoke == hits' = IF hits > 0 THEN hits - 1 ELSE 0

\* Mutant: the limiter's slot is not given back when a stream closes.
KeepSlot == dead > 0 /\ dead' = dead - 1 /\ UNCHANGED hits

StreamClosed == dead > 0 /\ dead' = dead - 1 /\ revoke

(* 'close' of a stream whose client is gone.                               *)
NoticeClosed ==
    /\ StreamClosed
    /\ UNCHANGED <<db, job, mirror, chain, unread, version, skipped, tab, spent>>

(* A hit is an hour old: the limiter forgets a stream that may be open.    *)
AgeOut ==
    /\ hits > 0 /\ revoke
    /\ Upset
    /\ UNCHANGED <<db, job, mirror, chain, unread, version, skipped, dead, tab>>

-----------------------------------------------------------------------------
(* The tab. *)

Undelivered(c) == {stream[c][i].slice : i \in
                      {j \in DOMAIN stream[c] : stream[c][j].type = "CHANGE"}}

(* refreshAllData: supersedes the full request under way; its answer will  *)
(* include whatever was missed.                                            *)
StartFull(c) ==
    /\ full' = [full EXCEPT ![c] = [at |-> "asked"]]
    /\ gap' = [gap EXCEPT ![c] = {}]
    /\ late' = [late EXCEPT ![c] = {}]

(* gate.begin: a new request of a slice supersedes the one under way.      *)
AskAgain(c, S) == [slice EXCEPT ![c] =
                      [s \in Slices |-> IF s \in S THEN [at |-> "asked"] ELSE @[s]]]

StartSlices(c, S) ==
    /\ slice' = AskAgain(c, S)
    /\ gap' = [gap EXCEPT ![c] = @ \ S]
    /\ late' = [late EXCEPT ![c] = @ \ S]

(* A message of the stream: the handshake fills a gap when its version is  *)
(* newer; an event records its version and joins the burst.                *)
handleSyncEvent(c) ==
    /\ stream[c] # <<>>
    /\ stream' = [stream EXCEPT ![c] = Tail(@)]
    /\ LET m == Head(stream[c]) IN
          \/ /\ m.type = "CONNECTED" /\ m.version > seen[c]
             /\ seen' = [seen EXCEPT ![c] = m.version]
             /\ StartFull(c)
             /\ UNCHANGED burst
          \/ /\ m.type = "CONNECTED" /\ m.version <= seen[c]
             /\ UNCHANGED <<seen, burst, full, gap, late>>
          \/ /\ m.type = "CHANGE"
             /\ seen' = [seen EXCEPT ![c] = m.version]
             /\ burst' = [burst EXCEPT ![c] = @ \cup {m.domain}]
             /\ UNCHANGED <<full, gap, late>>
    /\ UNCHANGED <<db, job, server, conn, slice, painted, view, notice, spent>>

\* Mutant: a burst with an unknown domain refreshes the known ones only.
FlushKnown(c) ==
    /\ burst[c] # {}
    /\ burst' = [burst EXCEPT ![c] = {}]
    /\ StartSlices(c, burst[c] \ {Unknown})
    /\ UNCHANGED <<db, job, server, conn, stream, seen, full, painted, view, notice, spent>>

(* The debounce timer fires.                                               *)
flush(c) ==
    /\ burst[c] # {}
    /\ burst' = [burst EXCEPT ![c] = {}]
    /\ IF Unknown \in burst[c] THEN StartFull(c) /\ UNCHANGED slice
                               ELSE StartSlices(c, burst[c]) /\ UNCHANGED full
    /\ UNCHANGED <<db, job, server, conn, stream, seen, painted, view, notice, spent>>

(* get_bootstrapLocal and get_bootstrap read the database, not the mirror. *)
ServeSlice(c, s) ==
    /\ slice[c][s].at = "asked"
    /\ slice' = [slice EXCEPT ![c][s] = [at |-> "answered", rows |-> db[s],
                                         version |-> version]]
    /\ UNCHANGED <<db, job, server, conn, stream, seen, burst, full, painted, view,
                   notice, gap, late, spent>>

ServeFull(c) ==
    /\ full[c].at = "asked"
    /\ full' = [full EXCEPT ![c] = [at |-> "answered", rows |-> db, version |-> version]]
    /\ UNCHANGED <<db, job, server, conn, stream, seen, burst, slice, painted, view,
                   notice, gap, late, spent>>

(* fetchBootstrapSlice: gate.decide drops a payload older than the full    *)
(* one painted for the key.                                                *)
ReceiveSlice(c, s) ==
    /\ slice[c][s].at = "answered"
    /\ slice' = [slice EXCEPT ![c][s] = NoRequest]
    /\ LET r == slice[c][s] IN
          \/ /\ r.version < painted[c][s]
             /\ UNCHANGED <<view, notice, seen, late>>
          \/ /\ r.version >= painted[c][s]
             /\ view' = [view EXCEPT ![c][s] = r.rows]
             /\ notice' = [notice EXCEPT ![c] = @ \ {s}]
             /\ seen' = [seen EXCEPT ![c] = r.version]
             /\ late' = IF r.rows = db[s] THEN late
                                          ELSE [late EXCEPT ![c] = @ \cup {s}]
    /\ UNCHANGED <<db, job, server, conn, stream, burst, full, painted, gap, spent>>

\* Mutant: hydrateDeferredSlices is not called after the full payload.
LeaveDeferred(c) == UNCHANGED slice

(* hydrateDeferredSlices                                                   *)
hydrateDeferredSlices(c) == slice' = AskAgain(c, Deferred)

(* refreshAllData's answer: paints all it carries, whatever the screen     *)
(* shows by now, then asks for the deferred slices.                        *)
ReceiveFull(c) ==
    /\ full[c].at = "answered"
    /\ full' = [full EXCEPT ![c] = NoRequest]
    /\ LET r == full[c]
           keys == Slices \ Deferred IN
          /\ view' = [view EXCEPT ![c] =
                [s \in Slices |-> IF s \in keys THEN r.rows[s] ELSE @[s]]]
          /\ painted' = [painted EXCEPT ![c] =
                [s \in Slices |-> IF s \in keys THEN r.version ELSE @[s]]]
          /\ notice' = [notice EXCEPT ![c] = @ \ (keys \cup {Blocked})]
          /\ seen' = [seen EXCEPT ![c] = r.version]
          /\ late' = [late EXCEPT ![c] =
                (@ \ Deferred) \cup {s \in keys : r.rows[s] # db[s]}]
    /\ gap' = [gap EXCEPT ![c] = @ \ Deferred]
    /\ hydrateDeferredSlices(c)
    /\ UNCHANGED <<db, job, server, conn, stream, burst, spent>>

(* A request fails: the rows stay, the failure is shown.                   *)
SliceFails(c, s) ==
    /\ slice[c][s].at # "none"
    /\ Upset
    /\ slice' = [slice EXCEPT ![c][s] = NoRequest]
    /\ notice' = [notice EXCEPT ![c] = @ \cup {s}]
    /\ UNCHANGED <<db, job, server, conn, stream, seen, burst, full, painted, view,
                   gap, late>>

FullFails(c) ==
    /\ full[c].at # "none"
    /\ Upset
    /\ full' = [full EXCEPT ![c] = NoRequest]
    /\ notice' = [notice EXCEPT ![c] = @ \cup {Blocked}]
    /\ UNCHANGED <<db, job, server, conn, stream, seen, burst, slice, painted, view,
                   gap, late>>

(* The connection drops; the server does not know yet.                     *)
LoseConnection(c) ==
    /\ conn[c]
    /\ Upset
    /\ conn' = [conn EXCEPT ![c] = FALSE]
    /\ dead' = dead + 1
    /\ stream' = [stream EXCEPT ![c] = <<>>]
    /\ gap' = [gap EXCEPT ![c] = @ \cup Undelivered(c)]
    /\ UNCHANGED <<db, job, mirror, chain, unread, version, skipped, hits, seen, burst,
                   slice, full, painted, view, notice, late>>

(* connect, sseConnectionLimit and get_stream: while the address has all   *)
(* its streams the handshake is refused and the tab tries again later.     *)
connect(c) ==
    /\ ~conn[c] /\ hits < MaxStreams
    /\ conn' = [conn EXCEPT ![c] = TRUE]
    /\ hits' = hits + 1
    /\ stream' = [stream EXCEPT ![c] = <<[type |-> "CONNECTED", version |-> version]>>]
    /\ UNCHANGED <<db, job, mirror, chain, unread, version, skipped, dead, seen, burst,
                   slice, full, painted, view, notice, gap, late, spent>>

(* The 30 s poll of /api/sync/version while the stream is down.            *)
PollVersion(c) ==
    /\ ~conn[c] /\ version > seen[c]
    /\ seen' = [seen EXCEPT ![c] = version]
    /\ StartFull(c)
    /\ UNCHANGED <<db, job, server, conn, stream, burst, slice, painted, view, notice, spent>>

(* The refresh button, and the end of every action of the user's own.      *)
ManualRefresh(c) ==
    /\ Upset
    /\ StartFull(c)
    /\ UNCHANGED <<db, job, server, conn, stream, seen, burst, slice, painted, view, notice>>

(* retryFailedSlices                                                       *)
RetryFailed(c) ==
    /\ notice[c] \cap Slices # {}
    /\ StartSlices(c, notice[c] \cap Slices)
    /\ UNCHANGED <<db, job, server, conn, stream, seen, burst, full, painted, view,
                   notice, spent>>

(* Another branch is selected: the stream is closed and opened anew, the   *)
(* burst is dropped, answers for the old view will be discarded, and all   *)
(* is fetched for the new one.                                             *)
SwitchBranch(c) ==
    /\ Upset
    /\ conn' = [conn EXCEPT ![c] = FALSE]
    /\ dead' = IF conn[c] THEN dead + 1 ELSE dead
    /\ stream' = [stream EXCEPT ![c] = <<>>]
    /\ burst' = [burst EXCEPT ![c] = {}]
    /\ slice' = [slice EXCEPT ![c] = [s \in Slices |-> NoRequest]]
    /\ StartFull(c)
    /\ UNCHANGED <<db, job, mirror, chain, unread, version, skipped, hits, seen, painted,
                   view, notice>>

(* The server process restarts: open transactions roll back, requests and  *)
(* streams break, the mirrors are hydrated, dataVersion is the boot time.  *)
Restart ==
    /\ Upset
    /\ job' = [w \in Writers |-> Resting]
    /\ mirror' = db /\ chain' = <<>> /\ unread' = {} /\ skipped' = {}
    /\ version' = (version \div Era + 1) * Era
    /\ hits' = 0 /\ dead' = 0
    /\ conn' = [c \in Tabs |-> FALSE]
    /\ stream' = [c \in Tabs |-> <<>>]
    /\ gap' = [c \in Tabs |-> gap[c] \cup Undelivered(c) \cup
                  {job[w].slice : w \in {x \in Writers : job[x].at = "committed"}}]
    /\ notice' = [c \in Tabs |-> notice[c]
                     \cup {s \in Slices : slice[c][s].at # "none"}
                     \cup (IF full[c].at # "none" THEN {Blocked} ELSE {})]
    /\ slice' = [c \in Tabs |-> [s \in Slices |-> NoRequest]]
    /\ full' = [c \in Tabs |-> NoRequest]
    /\ UNCHANGED <<db, seen, burst, painted, view, late>>

-----------------------------------------------------------------------------
ServerStep ==
    \/ \E w \in Writers : CommitInTx(w) \/ Announce(w)
    \/ \E s \in Slices : LoadTable(s)
    \/ Respond
    \/ NoticeClosed

TabStep(c) ==
    \/ handleSyncEvent(c) \/ flush(c) \/ connect(c)
    \/ ServeFull(c) \/ ReceiveFull(c)
    \/ \E s \in Slices : ServeSlice(c, s) \/ ReceiveSlice(c, s)

Next ==
    \/ ServerStep
    \/ \E w \in Writers, s \in Slices : AnnounceInTx(w, s) \/ Commit(w, s)
    \/ \E w \in Writers : Rollback(w) \/ ErrorAfterCommit(w)
    \/ \E S \in SUBSET Slices : LoadFails(S)
    \/ AgeOut
    \/ Restart
    \/ \E c \in Tabs :
          \/ TabStep(c)
          \/ PollVersion(c) \/ ManualRefresh(c) \/ RetryFailed(c) \/ SwitchBranch(c)
          \/ LoseConnection(c) \/ FullFails(c)
          \/ \E s \in Slices : SliceFails(c, s)

(* Fairness: the database answers, the event loop runs every callback (a   *)
(* handler, the refresh and a request each go on), the server learns of a  *)
(* closed socket, and a tab's timers fire.  Users, faults and the          *)
(* limiter's hour are not fair.                                            *)
Fairness ==
    /\ \A w \in Writers :
          WF_vars(CommitInTx(w) \/ Rollback(w) \/ Announce(w) \/ ErrorAfterCommit(w))
    /\ WF_vars(Respond \/ \E s \in Slices : LoadTable(s))
    /\ WF_vars(NoticeClosed)
    /\ \A c \in Tabs :
          /\ WF_vars(handleSyncEvent(c)) /\ WF_vars(flush(c)) /\ WF_vars(connect(c))
          /\ WF_vars(ServeFull(c) \/ ReceiveFull(c))
          /\ \A s \in Slices : WF_vars(ServeSlice(c, s) \/ ReceiveSlice(c, s))

Spec == Init /\ [][Next]_vars /\ Fairness

-----------------------------------------------------------------------------
(* Properties. *)

(* A mirror lags behind the database only while a refresh that will still  *)
(* read that table is queued or running, before the writer's request got   *)
(* that far, or after a read of the table failed, or after a commit whose  *)
(* request was answered with an error, until the next read: a refresh that *)
(* started before a commit never stands in for that commit's own.          *)
MirrorLagsOnlyIfOwed ==
    \A s \in Slices : mirror[s] # db[s] =>
        \/ s \in skipped
        \/ \E w \in Writers : job[w].at = "committed" /\ job[w].slice = s
        \/ Len(chain) > 1 \/ s \in unread

(* A screen shows old rows only while the change is still on its way to it *)
(* (unannounced, in the stream, in the burst, requested), with a failure   *)
(* on display, or for one of the reasons the histories record: no open     *)
(* stream carried the event; no event that names the slice was to follow   *)
(* the commit; or the tab painted an answer that was served before it.     *)
(* Debounce, superseded requests, the version gate, deferred slices,       *)
(* reconnects and restarts lose nothing else.                              *)
StaleOnlyIfOwed ==
    \A c \in Tabs, s \in Slices : view[c][s] # db[s] =>
        \/ \E w \in Writers \ (Aside \cup Silent) :
              job[w].at = "committed" /\ job[w].slice = s
        \/ Announced(c, s) \/ Requested(c, s)
        \/ s \in gap[c] \/ s \in late[c]
        \/ s \in notice[c] \/ Blocked \in notice[c]

(* The limiter never counts a stream that is gone: what it holds against   *)
(* the address are streams that are open or not yet known to be closed.    *)
NoSlotLeaked ==
    hits <= dead + Cardinality({c \in Tabs : conn[c]})

(* A stale screen is corrected in the end, or shows a failure, or has      *)
(* missed the change in one of the ways above.                             *)
ScreenCatchesUp ==
    \A c \in Tabs, s \in Slices :
        []<>(\/ view[c][s] = db[s]
             \/ s \in gap[c] \/ s \in late[c]
             \/ s \in notice[c] \/ Blocked \in notice[c])

(* A tab that lost its stream gets one again, though the server may still  *)
(* hold all the slots of its address for connections that are gone.        *)
StreamReopens == \A c \in Tabs : []<>conn[c]

(* "mutations that happened during the gap are never silently missed"      *)
(* (App.tsx): an event the stream could not carry leads to a refresh.      *)
GapsAreFilled == \A c \in Tabs, s \in Slices : s \in gap[c] ~> s \notin gap[c]
=============================================================================
