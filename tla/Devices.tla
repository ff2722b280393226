------------------------------ MODULE Devices ------------------------------
(***************************************************************************)
(* Customer-premises devices: a unit of stock is deployed as a fixed asset *)
(* (post_assets), assigned or released through the device directory        *)
(* (post_customerDevices), collected through a status change               *)
(* (patch_status2) or by unassigning its asset (patch_status), or          *)
(* exchanged for another unit (post_exchange); server/src/controllers/     *)
(* inventory.controller.ts with services/cpeAssetLifecycle.service.ts,     *)
(* services/cdrSerialSync.ts and the SQL of models/inventory.repo.ts.      *)
(*                                                                         *)
(* One product at one branch, whose units are Serials.  A serial has at    *)
(* most one customer_device_records row (uq_customer_device_device_serial), *)
(* so a record is named by its serial.  Unit cost is positive and          *)
(* constant.  The asset read by patch_status is the mirror's copy: here    *)
(* the row as it was when the request was checked.                         *)
(***************************************************************************)
EXTENDS Integers, FiniteSets

CONSTANTS
    Serials, Assets,
    Workers,
    Places,          \* where post_assets deploys to
    PostStatuses,    \* what is posted to the device directory
    PatchStatuses,   \* what a status change asks for
    AssetStatuses,   \* what the asset screen sends
    Dispositions,    \* of an exchanged unit
    MaxStock,        \* bound of the stock row, which double credits raise
    None

ASSUME DevicesAssumption ==
    /\ IsFiniteSet(Serials) /\ Serials # {} /\ MaxStock \in Nat
    /\ Places \subseteq {"CUSTOMER_ASSIGNED", "POP_LOCATION_ASSIGNED"}
    /\ PostStatuses \subseteq {"ASSIGNED", "IN_STOCK", "COLLECTED", "EXCHANGED"}
    /\ PatchStatuses \subseteq {"ASSIGNED", "IN_STOCK", "COLLECTED", "EXCHANGED"}
    /\ AssetStatuses \subseteq {"ACTIVE", "DEPLOYED", "DISPOSED"}
    /\ Dispositions \subseteq {"RESTOCK", "DAMAGE", "DISPOSE"}
    /\ Serials \cap Assets = {} /\ None \notin Serials \cup Assets

VARIABLES
    qoh,      \* inventory_stock.quantity_on_hand
    dmg,      \* inventory_stock.damaged_qty
    reg,      \* serial_log: status, and source_id where the source is an asset
    cdr,      \* customer_device_records: status, and the asset tag in its notes
    recs,     \* assets whose deployment inserted a record, id cdr-asset-<asset>
    asset,    \* fixed_assets: status and device_serial
    rows,     \* ids of the transaction_logs rows that are built from a key
    moved,    \* sum of the rows that count quantity_on_hand
    value,    \* inventory account, in units
    req,      \* requests between two of their steps
    known     \* history: units, and rows, that a known defect has struck

vars == <<qoh, dmg, reg, cdr, recs, asset, rows, moved, value, req, known>>

UnitStatuses == {"IN_STOCK", "CUSTOMER_ASSIGNED", "POP_LOCATION_ASSIGNED", "DAMAGED"}
Out == {"CUSTOMER_ASSIGNED", "POP_LOCATION_ASSIGNED"}

(* ACTIVE, RENTAL, SUSPENDED and SOLD are "ASSIGNED" here, ROUTER_COLLECTED *)
(* and REFUND are "COLLECTED" (ACTIVE_CDR_STATUSES).                       *)
RecordStatuses == {"NONE", "ASSIGNED", "IN_STOCK", "COLLECTED", "EXCHANGED"}

RowIds == ({"asset", "collect"} \X Assets)
          \cup ({"assign", "release", "collect"} \X Serials)

Idle == [kind |-> "idle", asset |-> None, unit |-> None, other |-> None,
         st |-> "NONE", saw |-> "NONE", proof |-> FALSE]
Requests ==
    {Idle}
    \cup [kind : {"upsert", "unassign"}, asset : Assets, unit : Serials \cup {None},
          other : {None}, st : {"NONE"}, saw : {"NONE"}, proof : {FALSE}]
    \cup [kind : {"device"}, asset : {None}, unit : Serials, other : {None},
          st : PostStatuses, saw : RecordStatuses, proof : BOOLEAN]
    \cup [kind : {"exchange"}, asset : {None}, unit : Serials, other : Serials,
          st : Dispositions, saw : {"NONE"}, proof : {FALSE}]

TypeOK ==
    /\ qoh \in Nat /\ dmg \in Nat
    /\ reg \in [Serials -> [status : UnitStatuses, source : Assets \cup {None}]]
    /\ cdr \in [Serials -> [status : RecordStatuses, tag : Assets \cup {None}]]
    /\ asset \in [Assets -> [status : {"NONE", "ACTIVE", "DEPLOYED", "DISPOSED"},
                             serial : Serials \cup {None}]]
    /\ recs \subseteq Assets
    /\ rows \subseteq RowIds
    /\ moved \in Int /\ value \in Int
    /\ req \in [Workers -> Requests]
    /\ known \in [units : SUBSET Serials, row : BOOLEAN]

Init ==
    /\ qoh = Cardinality(Serials) /\ dmg = 0
    /\ reg = [s \in Serials |-> [status |-> "IN_STOCK", source |-> None]]
    /\ cdr = [s \in Serials |-> [status |-> "NONE", tag |-> None]]
    /\ asset = [a \in Assets |-> [status |-> "NONE", serial |-> None]]
    /\ recs = {} /\ rows = {} /\ moved = 0 /\ value = 0
    /\ req = [w \in Workers |-> Idle]
    /\ known = [units |-> {}, row |-> FALSE]

-----------------------------------------------------------------------------
Ask(w, r) ==
    /\ req[w] = Idle
    /\ req' = [req EXCEPT ![w] = r]
    /\ UNCHANGED <<qoh, dmg, reg, cdr, recs, asset, rows, moved, value, known>>

Done(w) == req' = [req EXCEPT ![w] = Idle]

(* A stock change of n with its movement row, which TXN_INSERT_ON_CONFLICT *)
(* drops when the id exists, and its journal.                              *)
Move(n, id) ==
    /\ qoh + n \in 0 .. MaxStock
    /\ qoh' = qoh + n
    /\ moved' = IF id \in rows THEN moved ELSE moved + n
    /\ rows' = rows \cup {id}
    /\ value' = value + n

NoMove == UNCHANGED <<qoh, rows, moved, value>>

Strike(S) == known' = [known EXCEPT !.units = @ \cup S]

(* serialStatusForCdrStatus                                                *)
serialStatusFor(st) == IF st = "ASSIGNED" THEN "CUSTOMER_ASSIGNED" ELSE "IN_STOCK"

(* SERIAL_LOG_SYNC_ON_CDR_SQL: whatever the unit's status is.  EXCHANGED   *)
(* maps to no status and writes nothing.                                   *)
syncSerial(s, st) ==
    IF st = "EXCHANGED" THEN reg ELSE [reg EXCEPT ![s].status = serialStatusFor(st)]

(* registerCustomerDeviceRow: a new row, a closed one taken up again under *)
(* new notes, or an active one left as it is.                              *)
registerCustomerDeviceRow(f, s, tag) ==
    IF f[s].status = "ASSIGNED" THEN f
    ELSE [f EXCEPT ![s] = [status |-> "ASSIGNED", tag |-> tag]]

isDeployed(a) == asset[a].status = "DEPLOYED"

isOut(s) == s # None /\ reg[s].status \in Out

(* findCpeAsset: by serial, else by the tag in the record's notes.         *)
findCpeAsset(s) ==
    LET bySerial == {a \in Assets : asset[a].serial = s} IN
    IF bySerial # {} THEN bySerial
    ELSE {a \in Assets : a = cdr[s].tag /\ asset[a].status # "NONE"}

-----------------------------------------------------------------------------
(* Deploying a unit as a fixed asset: one transaction takes the unit, a    *)
(* second one writes the asset.  The id is the request's and may be that   *)
(* of an asset, in use or not: only a second record under the same id is   *)
(* refused.  History: an id used again, whose movement row is dropped and  *)
(* whose collection has one credit for both units.                         *)
post_assets(w, a, s, place) ==
    LET rented == place = "CUSTOMER_ASSIGNED"
        inserts == rented /\ cdr[s].status = "NONE" IN
    /\ req[w] = Idle
    /\ reg[s].status = "IN_STOCK"
    /\ inserts => a \notin recs
    /\ Move(-1, <<"asset", a>>)
    /\ reg' = [reg EXCEPT ![s] = [status |-> place, source |-> a]]
    /\ cdr' = IF rented THEN registerCustomerDeviceRow(cdr, s, a) ELSE cdr
    /\ recs' = IF inserts THEN recs \cup {a} ELSE recs
    /\ req' = [req EXCEPT ![w] = [Idle EXCEPT !.kind = "upsert", !.asset = a,
                                              !.unit = s]]
    /\ known' = IF <<"asset", a>> \notin rows THEN known
                ELSE [units |-> known.units \cup ({s, asset[a].serial} \cap Serials),
                      row |-> TRUE]
    /\ UNCHANGED <<dmg, asset>>

(* The same without a serial number: no gate, no register row, no record.  *)
(* History: any unit may be the one that left.                             *)
deployUnserialised(w, a) ==
    /\ req[w] = Idle
    /\ Move(-1, <<"asset", a>>)
    /\ req' = [req EXCEPT ![w] = [Idle EXCEPT !.kind = "upsert", !.asset = a]]
    /\ known' = [units |-> Serials, row |-> known.row \/ <<"asset", a>> \in rows]
    /\ UNCHANGED <<dmg, reg, cdr, recs, asset>>

(* ASSET_UPSERT_SQL: the row is written whatever has become of the unit.   *)
upsertAsset(w) ==
    LET a == req[w].asset  s == req[w].unit IN
    /\ req[w].kind = "upsert"
    /\ asset' = [asset EXCEPT ![a] = [status |-> "DEPLOYED", serial |-> s]]
    /\ Done(w)
    /\ UNCHANGED <<qoh, dmg, reg, cdr, recs, rows, moved, value, known>>

unwritten(s) == \E w \in Workers : req[w].kind = "upsert" /\ req[w].unit = s

\* Mutant: a collection that was credited before is credited again.
CreditAgain(a) == asset' = [asset EXCEPT ![a] = [status |-> "ACTIVE", serial |-> None]]
                  /\ Move(1, <<"collect", a>>)

(* collectCpeFixedAsset of a linked asset: nothing when it is not deployed *)
(* any more, else unassigned and credited once per asset id.               *)
collectLinked(a) ==
    IF ~isDeployed(a) THEN NoMove /\ UNCHANGED asset
    ELSE /\ asset' = [asset EXCEPT ![a] = [status |-> "ACTIVE", serial |-> None]]
         /\ IF <<"collect", a>> \in rows THEN NoMove ELSE Move(1, <<"collect", a>>)

(* The same without an asset: credited once per record.                    *)
collectUnlinked(s) ==
    /\ UNCHANGED asset
    /\ IF <<"collect", s>> \in rows THEN NoMove ELSE Move(1, <<"collect", s>>)

(* patch_status to ACTIVE of an asset that the mirror shows as assigned,   *)
(* which it does from the commit of the deployment on.                     *)
CheckUnassign(w, a) ==
    \/ /\ isDeployed(a)
       /\ Ask(w, [Idle EXCEPT !.kind = "unassign", !.asset = a,
                              !.unit = asset[a].serial])
    \/ \E v \in Workers :
          /\ req[v].kind = "upsert" /\ req[v].asset = a
          /\ Ask(w, [Idle EXCEPT !.kind = "unassign", !.asset = a,
                                 !.unit = req[v].unit])

(* CDR_FIND_ACTIVE_BY_ASSET_TAG_SQL: one record that names the asset's tag. *)
closeRecord(a) ==
    LET open == {s \in Serials : cdr[s].tag = a
                                 /\ cdr[s].status \notin {"COLLECTED", "EXCHANGED"}} IN
    IF open = {} THEN UNCHANGED cdr
    ELSE \E s \in open : cdr' = [cdr EXCEPT ![s].status = "COLLECTED"]

(* History: the asset's unit is another one by now, or none; the unit      *)
(* comes back to an asset that was credited before; or the unit's record   *)
(* does not carry the tag and stays open.                                  *)
patch_status(w) ==
    LET a == req[w].asset  s == req[w].unit IN
    /\ req[w].kind = "unassign"
    /\ collectLinked(a)
    /\ closeRecord(a)
    /\ IF isOut(s)
       THEN reg' = [reg EXCEPT ![s] = [status |-> "IN_STOCK", source |-> a]]
       ELSE UNCHANGED reg
    /\ IF \/ asset[a].serial # s /\ (isDeployed(a) \/ isOut(s))
          \/ isOut(s) /\ <<"collect", a>> \in rows
          \/ s # None /\ cdr[s].status = "ASSIGNED" /\ cdr[s].tag # a
       THEN Strike({s, asset[a].serial} \cap Serials) ELSE UNCHANGED known
    /\ Done(w)
    /\ UNCHANGED <<dmg, recs>>

(* Every other status of the asset screen: ASSET_SET_ASSIGNMENT_SQL writes *)
(* status and assignment, and leaves the unit alone.  ACTIVE comes here    *)
(* when the mirror has the asset ACTIVE, as an unassignment on its way has *)
(* set it.                                                                 *)
setAssignment(a, st) ==
    /\ asset[a].status # "NONE"
    /\ (st = "ACTIVE" /\ isDeployed(a))
          => \E w \in Workers : req[w].kind = "unassign" /\ req[w].asset = a
    /\ asset' = [asset EXCEPT ![a].status = st]
    /\ IF asset[a].serial # None /\ st # "DEPLOYED" THEN Strike({asset[a].serial})
                                                    ELSE UNCHANGED known
    /\ UNCHANGED <<qoh, dmg, reg, cdr, recs, rows, moved, value, req>>

-----------------------------------------------------------------------------
(* The device directory.  The record's status and the proof of deployment  *)
(* (CDR_ASSET_DEPLOY_PROOF_SQL: the unit's source is an asset, also when   *)
(* that has been unassigned) are read before the transaction.              *)
wasAssigned(saw) == saw \notin {"NONE", "IN_STOCK"}

assignmentDelta(st, saw) == (IF st # "IN_STOCK" THEN 1 ELSE 0)
                            - (IF wasAssigned(saw) THEN 1 ELSE 0)

CheckDevice(w, s, st) ==
    LET saw == cdr[s].status IN
    Ask(w, [Idle EXCEPT !.kind = "device", !.unit = s, !.st = st, !.saw = saw,
              !.proof = assignmentDelta(st, saw) # 0 /\ reg[s].source # None])

\* Mutant: the unit is not looked up in the register before it is assigned.
NoGate(s) == TRUE

(* resolveSerialGateInDb with allowedStatuses IN_STOCK, rows locked.       *)
serialGate(s) == reg[s].status = "IN_STOCK"

(* The notes are the form's, with the tag or without.  Every status but    *)
(* IN_STOCK is an assignment here, also the ones that put the unit back.   *)
(* History: a unit is posted as collected or exchanged and counted out; a  *)
(* record that is closed counts as assigned; a unit with proof             *)
(* moves no stock even when its asset has given it back; the record has    *)
(* changed since it was read; IN_STOCK is written over a unit elsewhere;   *)
(* the unit is released under a deployed asset, which is not unassigned;   *)
(* the row id of an earlier assignment of the record is taken.             *)
post_customerDevices(w) ==
    LET s == req[w].unit  st == req[w].st
        saw == req[w].saw
        delta == assignmentDelta(st, saw)
        id == <<IF delta > 0 THEN "assign" ELSE "release", s>>
        moves == delta # 0 /\ ~req[w].proof IN
    /\ req[w].kind = "device"
    /\ st # "IN_STOCK" /\ ~req[w].proof => serialGate(s)
    /\ IF moves THEN Move(-delta, id) ELSE NoMove
    /\ \E tag \in {cdr[s].tag, None} : cdr' = [cdr EXCEPT ![s] = [status |-> st, tag |-> tag]]
    /\ reg' = syncSerial(s, st)
    /\ known' = [units |-> IF \/ {st, saw} \cap {"COLLECTED", "EXCHANGED"} # {}
                              \/ req[w].proof \/ cdr[s].status # saw
                              \/ delta = 0 /\ ~serialGate(s)
                              \/ unwritten(s) \/ \E a \in Assets : asset[a].serial = s
                           THEN known.units \cup {s} ELSE known.units,
                 row |-> known.row \/ (moves /\ id \in rows)]
    /\ Done(w)
    /\ UNCHANGED <<dmg, recs, asset>>

(* A status change; the record's status is not a condition.                *)
(* History: the record was not active, the asset of its unit is not        *)
(* written yet, or the collection is not credited because the record, or   *)
(* the asset its notes still name, has been collected before.              *)
patch_status2(s, st) ==
    LET linked == findCpeAsset(s)
        collects == serialStatusFor(st) = "IN_STOCK" /\ st # "EXCHANGED"
        spent == IF linked = {} THEN <<"collect", s>> \in rows
                 ELSE \E a \in linked : ~isDeployed(a) \/ <<"collect", a>> \in rows IN
    /\ cdr[s].status # "NONE"
    /\ cdr' = [cdr EXCEPT ![s].status = st]
    /\ reg' = syncSerial(s, st)
    /\ \/ ~collects /\ NoMove /\ UNCHANGED asset
       \/ collects /\ linked = {} /\ collectUnlinked(s)
       \/ collects /\ \E a \in linked : collectLinked(a)
    /\ IF cdr[s].status # "ASSIGNED" \/ unwritten(s) \/ (collects /\ spent)
       THEN Strike({s}) ELSE UNCHANGED known
    /\ UNCHANGED <<dmg, recs, req>>

-----------------------------------------------------------------------------
(* Exchange: s comes back, n goes out.  Before the transaction n must be a *)
(* unit in stock that has no record.                                       *)
CheckExchange(w, s, n, action) ==
    /\ cdr[s].status # "NONE" /\ s # n
    /\ cdr[n].status = "NONE" /\ serialGate(n)
    /\ Ask(w, [Idle EXCEPT !.kind = "exchange", !.unit = s, !.other = n,
                           !.st = action])

\* Mutant: the journal has the returned unit only, not the replacement.
JournalReturned(back) == value' = value + back

(* postStockValueJournal over the restocked unit and the replacement.      *)
journalExchange(back) == value' = value + back - 1

\* Mutant: the asset stays on the unit that came back.
KeepSerial(s, n) == UNCHANGED asset

(* exchangeCpeFixedAsset: the asset follows the customer to the new unit.  *)
moveSerial(s, n) ==
    IF findCpeAsset(s) = {} THEN UNCHANGED asset
    ELSE \E a \in findCpeAsset(s) : asset' = [asset EXCEPT ![a].serial = n]

(* The row ids of an exchange are new each time.  The old record's status  *)
(* is not a condition.  History: it was not active, or its asset is not    *)
(* written yet.                                                            *)
post_exchange(w) ==
    LET s == req[w].unit  n == req[w].other
        back == IF req[w].st = "RESTOCK" THEN 1 ELSE 0 IN
    /\ req[w].kind = "exchange"
    /\ serialGate(n)
    /\ qoh + back >= 1
    /\ qoh' = qoh + back - 1
    /\ moved' = moved + back - 1
    /\ journalExchange(back)
    /\ dmg' = IF req[w].st = "DAMAGE" THEN dmg + 1 ELSE dmg
    /\ cdr' = registerCustomerDeviceRow([cdr EXCEPT ![s].status = "EXCHANGED"], n, None)
    /\ reg' = [reg EXCEPT ![s].status = IF back = 1 THEN "IN_STOCK" ELSE "DAMAGED",
                          ![n].status = "CUSTOMER_ASSIGNED"]
    /\ moveSerial(s, n)
    /\ IF cdr[s].status # "ASSIGNED" \/ unwritten(s) THEN Strike({s, n}) ELSE UNCHANGED known
    /\ Done(w)
    /\ UNCHANGED <<recs, rows>>

(* The transaction throws and rolls back, or the process stops: between    *)
(* the two transactions of a deployment the asset is never written.        *)
Abandon(w) ==
    /\ req[w] # Idle
    /\ Done(w)
    /\ UNCHANGED <<qoh, dmg, reg, cdr, recs, asset, rows, moved, value, known>>

Next ==
    \/ \E a \in Assets :
          \/ \E w \in Workers, s \in Serials, p \in Places : post_assets(w, a, s, p)
          \/ \E w \in Workers : deployUnserialised(w, a) \/ CheckUnassign(w, a)
          \/ \E st \in AssetStatuses : setAssignment(a, st)
    \/ \E s \in Serials :
          \/ \E w \in Workers, st \in PostStatuses : CheckDevice(w, s, st)
          \/ \E st \in PatchStatuses : patch_status2(s, st)
          \/ \E w \in Workers, n \in Serials, d \in Dispositions :
                CheckExchange(w, s, n, d)
    \/ \E w \in Workers :
          \/ upsertAsset(w) \/ patch_status(w) \/ post_customerDevices(w)
          \/ post_exchange(w) \/ Abandon(w)

Spec == Init /\ [][Next]_vars

-----------------------------------------------------------------------------
(* The inventory account moves with the stock row, through every route and *)
(* also where a known defect has made the row wrong.                       *)
ValueFollowsStock == value = qoh - Cardinality(Serials)

(* The movement rows add up to the stock row, until a record is assigned   *)
(* or released, or an asset id deployed, for the second time.              *)
LedgerExplainsStock == ~known.row => qoh = Cardinality(Serials) + moved

(* As many units IN_STOCK as the stock row has: deployment, assignment,    *)
(* collection by either route and exchange count a unit in and out once,   *)
(* whatever overlaps, as long as none of the known defects has struck.     *)
RegisterMatchesStock ==
    known.units = {} =>
        Cardinality({s \in Serials : reg[s].status = "IN_STOCK"}) = qoh

(* A deployed asset that names a unit names one that is out and that no    *)
(* other asset names, with the same exception: a collection or an exchange *)
(* never leaves the asset on a unit that is back on the shelf.             *)
AssetNamesUnitOut ==
    known.units = {} =>
        \A a \in Assets : asset[a].serial # None =>
            /\ reg[asset[a].serial].status \in Out
            /\ \A b \in Assets \ {a} : asset[b].serial # asset[a].serial

(* "whichever runs first inserts the row, every later path sees it and     *)
(* never credits again": stock holds no more units than the register.      *)
NeverCreditedTwice ==
    qoh <= Cardinality({s \in Serials : reg[s].status = "IN_STOCK"})

=============================================================================
