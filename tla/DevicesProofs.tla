--------------------------- MODULE DevicesProofs ---------------------------
(***************************************************************************)
(* Proofs about Devices, for any number of units, assets and concurrent    *)
(* requests.  Past every known defect: the types (the stock row never goes *)
(* below zero), the value of the inventory account and the movement        *)
(* ledger.  Until a known defect strikes: the register agrees with the     *)
(* stock row, and a deployed asset names a unit that is out.               *)
(***************************************************************************)
EXTENDS Devices, FiniteSetTheorems, TLAPS

(* What the routes that move stock do to it: nothing, or one Move under a  *)
(* row id of its own kind, or an exchange, whose row ids are new.          *)
StockStep ==
    \/ NoMove
    \/ \E n \in {-1, 1}, id \in RowIds : Move(n, id)

ExchangeStep ==
    \E back \in {0, 1} :
        /\ qoh + back >= 1
        /\ qoh' = qoh + back - 1
        /\ moved' = moved + back - 1
        /\ value' = value + back - 1
        /\ UNCHANGED rows

(* The rest of the state, in three parts. *)
RegisterTyped ==
    /\ reg \in [Serials -> [status : UnitStatuses, source : Assets \cup {None}]]
    /\ cdr \in [Serials -> [status : RecordStatuses, tag : Assets \cup {None}]]
    /\ asset \in [Assets -> [status : {"NONE", "ACTIVE", "DEPLOYED", "DISPOSED"},
                             serial : Serials \cup {None}]]

StockTyped ==
    /\ qoh \in Nat /\ moved \in Int /\ value \in Int
    /\ rows \subseteq RowIds

LEMMA StockStepTyped ==
    ASSUME StockTyped, StockStep \/ ExchangeStep
    PROVE  StockTyped'
  <1>1. CASE NoMove
    BY <1>1 DEF StockTyped, NoMove
  <1>2. CASE \E n \in {-1, 1}, id \in RowIds : Move(n, id)
    <2>1. PICK n \in {-1, 1}, id \in RowIds : Move(n, id)
      BY <1>2
    <2>2. qoh' \in Nat
      BY <2>1, DevicesAssumption DEF StockTyped, Move
    <2> QED BY <2>1, <2>2 DEF StockTyped, Move
  <1>3. CASE ExchangeStep
    BY <1>3 DEF StockTyped, ExchangeStep
  <1> QED BY <1>1, <1>2, <1>3 DEF StockStep

LEMMA RequestFields ==
    ASSUME req \in [Workers -> Requests], NEW w \in Workers
    PROVE  /\ req[w].unit \in Serials \cup {None}
           /\ req[w].kind \in {"upsert", "unassign"} => req[w].asset \in Assets
           /\ req[w].kind \in {"device", "exchange"} => req[w].unit \in Serials
           /\ req[w].kind = "device" => req[w].st \in PostStatuses
           /\ req[w].kind = "exchange" => req[w].other \in Serials
  <1> DEFINE r == req[w]
             OnAsset == [kind : {"upsert", "unassign"}, asset : Assets,
                         unit : Serials \cup {None}, other : {None}, st : {"NONE"},
                         saw : {"NONE"}, proof : {FALSE}]
             OnDevice == [kind : {"device"}, asset : {None}, unit : Serials,
                          other : {None}, st : PostStatuses, saw : RecordStatuses,
                          proof : BOOLEAN]
             OfTwo == [kind : {"exchange"}, asset : {None}, unit : Serials,
                       other : Serials, st : Dispositions, saw : {"NONE"},
                       proof : {FALSE}]
  <1>1. r = Idle \/ r \in OnAsset \/ r \in OnDevice \/ r \in OfTwo
    BY Zenon DEF Requests
  <1>2. CASE r = Idle
    BY <1>2 DEF Idle
  <1>3. CASE r \in OnAsset
    BY <1>3
  <1>4. CASE r \in OnDevice
    BY <1>4
  <1>5. CASE r \in OfTwo
    BY <1>5
  <1> QED BY <1>1, <1>2, <1>3, <1>4, <1>5

LEMMA CollectSteps ==
    ASSUME RegisterTyped
    PROVE  /\ \A a \in Assets : collectLinked(a) => StockStep /\ asset' \in
                 [Assets -> [status : {"NONE", "ACTIVE", "DEPLOYED", "DISPOSED"},
                             serial : Serials \cup {None}]]
           /\ \A s \in Serials : collectUnlinked(s) => StockStep
  <1>1. \A a \in Assets : <<"collect", a>> \in RowIds
    BY DEF RowIds
  <1>2. \A s \in Serials : <<"collect", s>> \in RowIds
    BY DEF RowIds
  <1>3. ASSUME NEW a \in Assets, collectLinked(a)
        PROVE  StockStep
    BY <1>1, <1>3 DEF collectLinked, StockStep
  <1>4. ASSUME NEW a \in Assets, collectLinked(a)
        PROVE  asset' \in [Assets -> [status : {"NONE", "ACTIVE", "DEPLOYED", "DISPOSED"},
                                      serial : Serials \cup {None}]]
    BY <1>4 DEF collectLinked, RegisterTyped
  <1>5. ASSUME NEW s \in Serials, collectUnlinked(s) PROVE StockStep
    BY <1>2, <1>5 DEF collectUnlinked, StockStep
  <1> QED BY <1>3, <1>4, <1>5

(* Every step leaves the stock alone, moves it once, or exchanges. *)
LEMMA StepsOfStock ==
    ASSUME TypeOK, [Next]_vars
    PROVE  StockStep \/ ExchangeStep
  <1> USE DEF StockStep
  <1>0. RegisterTyped
    BY DEF TypeOK, RegisterTyped
  <1>1. ASSUME NEW w \in Workers, NEW a \in Assets, NEW s \in Serials, NEW p \in Places,
               post_assets(w, a, s, p)
        PROVE  StockStep
    <2>1. <<"asset", a>> \in RowIds
      BY DEF RowIds
    <2> QED BY <1>1, <2>1 DEF post_assets
  <1>7. ASSUME NEW w \in Workers, NEW a \in Assets, deployUnserialised(w, a)
        PROVE  StockStep
    <2>1. <<"asset", a>> \in RowIds
      BY DEF RowIds
    <2> QED BY <1>7, <2>1 DEF deployUnserialised
  <1>2. ASSUME NEW w \in Workers, patch_status(w) PROVE StockStep
    <2>1. req[w].asset \in Assets
      BY <1>2, RequestFields DEF patch_status, TypeOK
    <2> QED BY <1>0, <1>2, <2>1, CollectSteps DEF patch_status
  <1>3. ASSUME NEW w \in Workers, post_customerDevices(w) PROVE StockStep
    <2> DEFINE s == req[w].unit
               delta == assignmentDelta(req[w].st, req[w].saw)
               id == <<IF delta > 0 THEN "assign" ELSE "release", s>>
    <2>1. s \in Serials
      BY <1>3, RequestFields DEF post_customerDevices, TypeOK
    <2>2. id \in RowIds
      BY <2>1 DEF RowIds
    <2>3. delta # 0 => -delta \in {-1, 1}
      BY DEF assignmentDelta
    <2> HIDE DEF delta, id
    <2>4. NoMove \/ (delta # 0 /\ Move(-delta, id))
      BY <1>3 DEF post_customerDevices, delta, id, s
    <2> QED BY <2>2, <2>3, <2>4
  <1>4. ASSUME NEW s \in Serials, NEW st \in PatchStatuses, patch_status2(s, st)
        PROVE  StockStep
    <2>1. findCpeAsset(s) \subseteq Assets
      BY DEF findCpeAsset
    <2> QED BY <1>0, <1>4, <2>1, CollectSteps DEF patch_status2
  <1>5. ASSUME NEW w \in Workers, post_exchange(w) PROVE ExchangeStep
    BY <1>5 DEF post_exchange, ExchangeStep, journalExchange
  <1>6. ASSUME NoMove PROVE StockStep
    BY <1>6
  <1> QED
    BY <1>1, <1>2, <1>3, <1>4, <1>5, <1>6, <1>7
    DEF Next, vars, NoMove, CheckUnassign, Ask, setAssignment, CheckDevice,
        CheckExchange, upsertAsset, Abandon

-----------------------------------------------------------------------------
(* The rows of units, records and assets keep their types. *)
LEMMA RegisterStep ==
    ASSUME TypeOK, [Next]_vars
    PROVE  RegisterTyped'
  <1> USE DEF RegisterTyped
  <1>0. RegisterTyped /\ req \in [Workers -> Requests]
    BY DEF TypeOK
  <1>1. ASSUME NEW w \in Workers, NEW a \in Assets, NEW s \in Serials, NEW p \in Places,
               post_assets(w, a, s, p)
        PROVE  RegisterTyped'
    <2>1. p \in UnitStatuses
      BY DevicesAssumption DEF UnitStatuses
    <2>2. reg' \in [Serials -> [status : UnitStatuses, source : Assets \cup {None}]]
      BY <1>0, <1>1, <2>1 DEF post_assets
    <2>3. cdr' \in [Serials -> [status : RecordStatuses, tag : Assets \cup {None}]]
      BY <1>0, <1>1 DEF post_assets, registerCustomerDeviceRow, RecordStatuses
    <2> QED BY <1>0, <1>1, <2>2, <2>3 DEF post_assets
  <1>2. ASSUME NEW w \in Workers, upsertAsset(w) PROVE RegisterTyped'
    BY <1>0, <1>2, RequestFields DEF upsertAsset
  <1>3. ASSUME NEW w \in Workers, patch_status(w) PROVE RegisterTyped'
    <2> DEFINE a == req[w].asset
               s == req[w].unit
    <2>1. a \in Assets /\ s \in Serials \cup {None}
      BY <1>0, <1>3, RequestFields DEF patch_status
    <2> HIDE DEF a, s
    <2>2. asset' \in [Assets -> [status : {"NONE", "ACTIVE", "DEPLOYED", "DISPOSED"},
                                 serial : Serials \cup {None}]]
      BY <1>0, <1>3, <2>1, CollectSteps DEF patch_status, a
    <2>3. cdr' \in [Serials -> [status : RecordStatuses, tag : Assets \cup {None}]]
      BY <1>0, <1>3 DEF patch_status, closeRecord, RecordStatuses
    <2>4. \/ reg' = [reg EXCEPT ![s] = [status |-> "IN_STOCK", source |-> a]]
          \/ UNCHANGED reg
      BY <1>3 DEF patch_status, a, s
    <2>5. reg' \in [Serials -> [status : UnitStatuses, source : Assets \cup {None}]]
      BY <1>0, <2>1, <2>4 DEF UnitStatuses
    <2> QED BY <2>2, <2>3, <2>5
  <1>4. ASSUME NEW a \in Assets, NEW st \in AssetStatuses, setAssignment(a, st)
        PROVE  RegisterTyped'
    BY <1>0, <1>4, DevicesAssumption DEF setAssignment
  <1>5. \A s \in Serials, st \in {"ASSIGNED", "IN_STOCK", "COLLECTED", "EXCHANGED"} :
            syncSerial(s, st)
                \in [Serials -> [status : UnitStatuses, source : Assets \cup {None}]]
    BY <1>0 DEF syncSerial, serialStatusFor, UnitStatuses
  <1>6. ASSUME NEW w \in Workers, post_customerDevices(w) PROVE RegisterTyped'
    <2>1. /\ req[w].unit \in Serials
          /\ req[w].st \in {"ASSIGNED", "IN_STOCK", "COLLECTED", "EXCHANGED"}
      BY <1>0, <1>6, RequestFields, DevicesAssumption DEF post_customerDevices
    <2>2. reg' \in [Serials -> [status : UnitStatuses, source : Assets \cup {None}]]
      BY <1>5, <1>6, <2>1 DEF post_customerDevices
    <2>3. \E tag \in {cdr[req[w].unit].tag, None} :
              cdr' = [cdr EXCEPT ![req[w].unit] = [status |-> req[w].st, tag |-> tag]]
      BY <1>6 DEF post_customerDevices
    <2>4. cdr' \in [Serials -> [status : RecordStatuses, tag : Assets \cup {None}]]
      BY <1>0, <2>1, <2>3 DEF RecordStatuses
    <2> QED BY <1>0, <1>6, <2>2, <2>4 DEF post_customerDevices
  <1>7. ASSUME NEW s \in Serials, NEW st \in PatchStatuses, patch_status2(s, st)
        PROVE  RegisterTyped'
    <2>1. st \in {"ASSIGNED", "IN_STOCK", "COLLECTED", "EXCHANGED"}
      BY DevicesAssumption
    <2>2. reg' \in [Serials -> [status : UnitStatuses, source : Assets \cup {None}]]
      BY <1>5, <1>7, <2>1 DEF patch_status2
    <2>3. cdr' \in [Serials -> [status : RecordStatuses, tag : Assets \cup {None}]]
      BY <1>0, <1>7, <2>1 DEF patch_status2, RecordStatuses
    <2>4. findCpeAsset(s) \subseteq Assets
      BY DEF findCpeAsset
    <2>5. \/ UNCHANGED asset
          \/ \E a \in Assets : collectLinked(a)
      BY <1>7, <2>4 DEF patch_status2, collectUnlinked
    <2>6. asset' \in [Assets -> [status : {"NONE", "ACTIVE", "DEPLOYED", "DISPOSED"},
                                 serial : Serials \cup {None}]]
      BY <1>0, <2>5, CollectSteps
    <2> QED BY <2>2, <2>3, <2>6
  <1>8. ASSUME NEW w \in Workers, post_exchange(w) PROVE RegisterTyped'
    <2> DEFINE s == req[w].unit
               n == req[w].other
               closed == [cdr EXCEPT ![s].status = "EXCHANGED"]
               back == IF req[w].st = "RESTOCK" THEN 1 ELSE 0
               shelf == IF back = 1 THEN "IN_STOCK" ELSE "DAMAGED"
    <2>1. s \in Serials /\ n \in Serials
      BY <1>0, <1>8, RequestFields DEF post_exchange
    <2>2. /\ cdr' = registerCustomerDeviceRow(closed, n, None)
          /\ reg' = [reg EXCEPT ![s].status = shelf, ![n].status = "CUSTOMER_ASSIGNED"]
          /\ moveSerial(s, n)
      BY <1>8, Zenon DEF post_exchange
    <2> HIDE DEF s, n
    <2>3. closed \in [Serials -> [status : RecordStatuses, tag : Assets \cup {None}]]
      BY <1>0, <2>1 DEF RecordStatuses
    <2> HIDE DEF closed
    <2>4. cdr' \in [Serials -> [status : RecordStatuses, tag : Assets \cup {None}]]
      BY <2>1, <2>2, <2>3 DEF registerCustomerDeviceRow, RecordStatuses
    <2>5. shelf \in UnitStatuses /\ "CUSTOMER_ASSIGNED" \in UnitStatuses
      BY DEF UnitStatuses
    <2> HIDE DEF shelf
    <2> DEFINE returned == [reg EXCEPT ![s].status = shelf]
    <2>6. returned \in [Serials -> [status : UnitStatuses, source : Assets \cup {None}]]
      BY <1>0, <2>1, <2>5
    <2>7. reg' = [returned EXCEPT ![n].status = "CUSTOMER_ASSIGNED"]
      BY <2>2, Zenon
    <2> HIDE DEF returned
    <2>8. reg' \in [Serials -> [status : UnitStatuses, source : Assets \cup {None}]]
      BY <2>1, <2>5, <2>6, <2>7
    <2>9. asset' \in [Assets -> [status : {"NONE", "ACTIVE", "DEPLOYED", "DISPOSED"},
                                 serial : Serials \cup {None}]]
      <3>1. findCpeAsset(s) \subseteq Assets
        BY DEF findCpeAsset
      <3>2. UNCHANGED asset \/ \E a \in Assets : asset' = [asset EXCEPT ![a].serial = n]
        BY <2>2, <3>1, Zenon DEF moveSerial
      <3>3. ASSUME NEW a \in Assets, asset' = [asset EXCEPT ![a].serial = n]
            PROVE  asset' \in [Assets -> [status : {"NONE", "ACTIVE", "DEPLOYED", "DISPOSED"},
                                          serial : Serials \cup {None}]]
        BY <1>0, <2>1, <3>3
      <3> QED BY <1>0, <3>2, <3>3
    <2> QED BY <2>4, <2>8, <2>9
  <1>9. ASSUME UNCHANGED <<reg, cdr, asset>> PROVE RegisterTyped'
    BY <1>0, <1>9
  <1> QED
    BY <1>1, <1>2, <1>3, <1>4, <1>6, <1>7, <1>8, <1>9
    DEF Next, vars, deployUnserialised, CheckUnassign, Ask, CheckDevice, CheckExchange,
        Abandon

-----------------------------------------------------------------------------
(* What is pending, and the two histories, keep their types. *)
LEMMA RestStep ==
    ASSUME TypeOK, [Next]_vars
    PROVE  /\ dmg' \in Nat /\ recs' \subseteq Assets
           /\ req' \in [Workers -> Requests]
           /\ known' \in [units : SUBSET Serials, row : BOOLEAN]
  <1> DEFINE Known == [units : SUBSET Serials, row : BOOLEAN]
  <1>0. /\ req \in [Workers -> Requests] /\ known \in Known
        /\ dmg \in Nat /\ recs \subseteq Assets /\ RegisterTyped
    BY DEF TypeOK, RegisterTyped
  <1>1. \A S \in SUBSET Serials : [known EXCEPT !.units = @ \cup S] \in Known
    BY <1>0
  <1>2. Idle \in Requests
    BY DEF Requests
  <1>3. dmg' \in Nat
    <2>1. ASSUME NEW w \in Workers, post_exchange(w) PROVE dmg' \in {dmg, dmg + 1}
      BY <2>1, Zenon DEF post_exchange
    <2>2. UNCHANGED dmg \/ \E w \in Workers : post_exchange(w)
      BY DEF Next, vars, post_assets, deployUnserialised, CheckUnassign, Ask,
             setAssignment, CheckDevice, patch_status2, CheckExchange, upsertAsset,
             patch_status, post_customerDevices, Abandon
    <2> QED BY <1>0, <2>1, <2>2
  <1>6. recs' \subseteq Assets
    <2>1. ASSUME NEW w \in Workers, NEW a \in Assets, NEW s \in Serials, NEW p \in Places,
                 post_assets(w, a, s, p)
          PROVE  recs' \subseteq Assets
      BY <1>0, <2>1 DEF post_assets
    <2>2. ASSUME UNCHANGED recs PROVE recs' \subseteq Assets
      BY <1>0, <2>2
    <2> QED
      BY <2>1, <2>2, Zenon
      DEF Next, vars, deployUnserialised, CheckUnassign, Ask, setAssignment, CheckDevice,
          patch_status2, CheckExchange, upsertAsset, patch_status, post_customerDevices,
          post_exchange, Abandon
  <1>4. req' \in [Workers -> Requests]
    <2>1. ASSUME NEW w \in Workers, NEW r \in Requests, req' = [req EXCEPT ![w] = r]
          PROVE  req' \in [Workers -> Requests]
      BY <1>0, <2>1
    <2>2. ASSUME NEW w \in Workers, Done(w) PROVE req' \in [Workers -> Requests]
      BY <1>2, <2>1, <2>2 DEF Done
    <2>3. ASSUME NEW a \in Assets, NEW s \in Serials \cup {None}, NEW k \in {"upsert", "unassign"}
          PROVE  [Idle EXCEPT !.kind = k, !.asset = a, !.unit = s] \in Requests
      BY DEF Idle, Requests
    <2>4. ASSUME NEW w \in Workers, NEW a \in Assets, NEW s \in Serials, NEW p \in Places,
                 post_assets(w, a, s, p)
          PROVE  req' \in [Workers -> Requests]
      BY <2>1, <2>3, <2>4 DEF post_assets
    <2>9. ASSUME NEW w \in Workers, NEW a \in Assets, deployUnserialised(w, a)
          PROVE  req' \in [Workers -> Requests]
      <3>1. [Idle EXCEPT !.kind = "upsert", !.asset = a] \in Requests
        BY DEF Idle, Requests
      <3> QED BY <2>1, <2>9, <3>1 DEF deployUnserialised
    <2>5. ASSUME NEW w \in Workers, NEW a \in Assets, CheckUnassign(w, a)
          PROVE  req' \in [Workers -> Requests]
      <3>1. PICK s \in Serials \cup {None} :
                Ask(w, [Idle EXCEPT !.kind = "unassign", !.asset = a, !.unit = s])
        BY <1>0, <2>5, RequestFields DEF CheckUnassign, RegisterTyped
      <3> QED BY <2>1, <2>3, <3>1 DEF Ask
    <2>6. ASSUME NEW w \in Workers, NEW s \in Serials, NEW st \in PostStatuses,
                 CheckDevice(w, s, st)
          PROVE  req' \in [Workers -> Requests]
      <3>1. cdr[s].status \in RecordStatuses
        BY <1>0 DEF RegisterTyped
      <3>2. \A saw \in RecordStatuses, p \in BOOLEAN :
                [Idle EXCEPT !.kind = "device", !.unit = s, !.st = st, !.saw = saw,
                             !.proof = p] \in Requests
        BY Zenon DEF Idle, Requests
      <3> QED BY <2>1, <2>6, <3>1, <3>2 DEF CheckDevice, Ask
    <2>7. ASSUME NEW w \in Workers, NEW s \in Serials, NEW n \in Serials,
                 NEW d \in Dispositions, CheckExchange(w, s, n, d)
          PROVE  req' \in [Workers -> Requests]
      <3>1. [Idle EXCEPT !.kind = "exchange", !.unit = s, !.other = n, !.st = d] \in Requests
        BY DEF Idle, Requests
      <3> QED BY <2>1, <2>7, <3>1 DEF CheckExchange, Ask
    <2>8. ASSUME UNCHANGED req PROVE req' \in [Workers -> Requests]
      BY <1>0, <2>8
    <2> QED
      BY <2>2, <2>4, <2>5, <2>6, <2>7, <2>8, <2>9
      DEF Next, vars, setAssignment, patch_status2, upsertAsset, patch_status,
          post_customerDevices, post_exchange, Abandon
  <1>5. known' \in Known
    <2>1. ASSUME NEW S \in SUBSET Serials, Strike(S) PROVE known' \in Known
      BY <1>1, <2>1 DEF Strike
    <2>2. ASSUME NEW w \in Workers, patch_status(w) PROVE known' \in Known
      <3>1. \/ Strike({req[w].unit, asset[req[w].asset].serial} \cap Serials)
            \/ UNCHANGED known
        BY <2>2 DEF patch_status
      <3> QED BY <1>0, <2>1, <3>1
    <2>3. ASSUME NEW a \in Assets, NEW st \in AssetStatuses, setAssignment(a, st)
          PROVE  known' \in Known
      <3>1. (asset[a].serial \in Serials /\ Strike({asset[a].serial})) \/ UNCHANGED known
        BY <1>0, <2>3 DEF setAssignment, RegisterTyped
      <3> QED BY <1>0, <2>1, <3>1
    <2>4. ASSUME NEW w \in Workers, post_customerDevices(w) PROVE known' \in Known
      <3>1. req[w].unit \in Serials
        BY <1>0, <2>4, RequestFields DEF post_customerDevices
      <3>2. PICK U \in {known.units, known.units \cup {req[w].unit}}, b \in BOOLEAN :
                known' = [units |-> U, row |-> b]
        BY <2>4, Zenon DEF post_customerDevices
      <3> QED BY <1>0, <3>1, <3>2
    <2>5. ASSUME NEW s \in Serials, NEW st \in PatchStatuses, patch_status2(s, st)
          PROVE  known' \in Known
      BY <1>0, <2>1, <2>5 DEF patch_status2
    <2>6. ASSUME NEW w \in Workers, post_exchange(w) PROVE known' \in Known
      <3>1. req[w].unit \in Serials /\ req[w].other \in Serials
        BY <1>0, <2>6, RequestFields DEF post_exchange
      <3>2. Strike({req[w].unit, req[w].other}) \/ UNCHANGED known
        BY <2>6, Zenon DEF post_exchange
      <3> QED BY <1>0, <2>1, <3>1, <3>2
    <2>7. ASSUME UNCHANGED known PROVE known' \in Known
      BY <1>0, <2>7
    <2>8. ASSUME NEW w \in Workers, NEW a \in Assets, NEW s \in Serials, NEW p \in Places,
                 post_assets(w, a, s, p)
          PROVE  known' \in Known
      BY <1>0, <2>8 DEF post_assets
    <2>9. ASSUME NEW w \in Workers, NEW a \in Assets, deployUnserialised(w, a)
          PROVE  known' \in Known
      <3>1. PICK b \in BOOLEAN : known' = [units |-> Serials, row |-> b]
        BY <2>9, Zenon DEF deployUnserialised
      <3> QED BY <3>1
    <2> QED
      BY <2>2, <2>3, <2>4, <2>5, <2>6, <2>7, <2>8, <2>9
      DEF Next, vars, CheckUnassign, Ask, CheckDevice, CheckExchange, upsertAsset, Abandon
  <1> QED BY <1>3, <1>4, <1>5, <1>6

(* Deployments, assignments, collections and exchanges keep every row's    *)
(* type, and never drive the stock row below zero, whatever they race with. *)
THEOREM TypeCorrect == Spec => []TypeOK
  <1>1. Init => TypeOK
    <2> SUFFICES ASSUME Init PROVE TypeOK
      OBVIOUS
    <2>1. Cardinality(Serials) \in Nat
      BY DevicesAssumption, FS_CardinalityType
    <2>2. known \in [units : SUBSET Serials, row : BOOLEAN]
      BY DEF Init
    <2> QED BY <2>1, <2>2
            DEF Init, TypeOK, UnitStatuses, RecordStatuses, Requests
  <1>2. TypeOK /\ [Next]_vars => TypeOK'
    <2> SUFFICES ASSUME TypeOK, [Next]_vars PROVE TypeOK'
      OBVIOUS
    <2>1. StockTyped'
      BY StepsOfStock, StockStepTyped DEF TypeOK, StockTyped
    <2> QED BY <2>1, RegisterStep, RestStep DEF TypeOK, StockTyped, RegisterTyped
  <1> QED BY <1>1, <1>2, PTL DEF Spec

-----------------------------------------------------------------------------
(* The inventory account follows the stock row unit by unit through every  *)
(* route, also after a known defect has made the row itself wrong.         *)
THEOREM ValueFollows == Spec => []ValueFollowsStock
  <1>0. Cardinality(Serials) \in Nat
    BY DevicesAssumption, FS_CardinalityType
  <1>1. Init => ValueFollowsStock
    BY <1>0 DEF Init, ValueFollowsStock
  <1>2. TypeOK /\ ValueFollowsStock /\ [Next]_vars => ValueFollowsStock'
    <2> SUFFICES ASSUME TypeOK, ValueFollowsStock, [Next]_vars PROVE ValueFollowsStock'
      OBVIOUS
    <2>1. StockStep \/ ExchangeStep
      BY StepsOfStock
    <2>2. CASE StockStep
      BY <1>0, <2>2 DEF StockStep, NoMove, Move, ValueFollowsStock, TypeOK
    <2>3. CASE ExchangeStep
      BY <1>0, <2>3 DEF ExchangeStep, ValueFollowsStock, TypeOK
    <2> QED BY <2>1, <2>2, <2>3
  <1> QED BY <1>1, <1>2, TypeCorrect, PTL DEF Spec

(* The movement rows explain the stock row until a record is assigned or   *)
(* released, or an asset id deployed, for the second time: a collection    *)
(* never finds its row id taken and an exchange has new ones.              *)
THEOREM LedgerExplains == Spec => []LedgerExplainsStock
  <1>0. Cardinality(Serials) \in Nat
    BY DevicesAssumption, FS_CardinalityType
  <1> DEFINE Fresh == NoMove \/ \E n \in {-1, 1}, id \in RowIds : id \notin rows /\ Move(n, id)
  <1>1. Init => LedgerExplainsStock
    BY <1>0 DEF Init, LedgerExplainsStock
  <1>2. TypeOK /\ LedgerExplainsStock /\ [Next]_vars => LedgerExplainsStock'
    <2> SUFFICES ASSUME TypeOK, LedgerExplainsStock, [Next]_vars PROVE LedgerExplainsStock'
      OBVIOUS
    <2>1. ASSUME Fresh \/ ExchangeStep, known.row => known'.row PROVE LedgerExplainsStock'
      <3>1. qoh' - moved' = qoh - moved /\ qoh' \in Int /\ moved' \in Int
        <4>0. qoh \in Int /\ moved \in Int
          BY DEF TypeOK
        <4>1. CASE NoMove
          BY <4>0, <4>1 DEF NoMove
        <4>2. CASE \E n \in {-1, 1}, id \in RowIds : id \notin rows /\ Move(n, id)
          BY <4>0, <4>2 DEF Move
        <4>3. CASE ExchangeStep
          BY <4>0, <4>3 DEF ExchangeStep
        <4> QED BY <2>1, <4>1, <4>2, <4>3
      <3>2. qoh = Cardinality(Serials) + moved => qoh' = Cardinality(Serials) + moved'
        BY <1>0, <3>1 DEF TypeOK
      <3> QED BY <2>1, <3>2, Zenon DEF LedgerExplainsStock
    <2>2. ASSUME NEW S, Strike(S) \/ UNCHANGED known PROVE known'.row = known.row
      BY <2>2 DEF Strike, TypeOK
    <2>3. ASSUME NEW a \in Assets, collectLinked(a) PROVE Fresh
      <3>1. <<"collect", a>> \in RowIds
        BY DEF RowIds
      <3> QED BY <2>3, <3>1 DEF collectLinked
    <2>4. ASSUME NEW s \in Serials, collectUnlinked(s) PROVE Fresh
      <3>1. <<"collect", s>> \in RowIds
        BY DEF RowIds
      <3> QED BY <2>4, <3>1 DEF collectUnlinked
    <2>5. ASSUME NEW w \in Workers, NEW a \in Assets, NEW s \in Serials, NEW p \in Places,
                 post_assets(w, a, s, p)
          PROVE  LedgerExplainsStock'
      <3> DEFINE id == <<"asset", a>>
      <3>1. id \in RowIds
        BY DEF RowIds
      <3>2. Move(-1, id)
        BY <2>5 DEF post_assets
      <3>3. IF id \notin rows THEN UNCHANGED known ELSE known'.row
        BY <2>5 DEF post_assets
      <3> HIDE DEF id
      <3>4. CASE id \notin rows
        BY <2>1, <3>1, <3>2, <3>3, <3>4
      <3>5. CASE id \in rows
        BY <3>3, <3>5 DEF LedgerExplainsStock
      <3> QED BY <3>4, <3>5
    <2>12. ASSUME NEW w \in Workers, NEW a \in Assets, deployUnserialised(w, a)
           PROVE  LedgerExplainsStock'
      <3> DEFINE id == <<"asset", a>>
      <3>1. id \in RowIds
        BY DEF RowIds
      <3>2. Move(-1, id)
        BY <2>12 DEF deployUnserialised
      <3>3. known'.row = (known.row \/ id \in rows)
        BY <2>12 DEF deployUnserialised
      <3> HIDE DEF id
      <3>4. CASE id \notin rows
        BY <2>1, <3>1, <3>2, <3>3, <3>4
      <3>5. CASE id \in rows
        BY <3>3, <3>5 DEF LedgerExplainsStock
      <3> QED BY <3>4, <3>5
    <2>6. ASSUME NEW w \in Workers, patch_status(w) PROVE LedgerExplainsStock'
      <3>1. req[w].asset \in Assets
        BY <2>6, RequestFields DEF patch_status, TypeOK
      <3>2. known'.row = known.row
        BY <2>2, <2>6 DEF patch_status
      <3> QED BY <2>1, <2>3, <2>6, <3>1, <3>2 DEF patch_status
    <2>7. ASSUME NEW w \in Workers, post_customerDevices(w) PROVE LedgerExplainsStock'
      <3> DEFINE s == req[w].unit
                 delta == assignmentDelta(req[w].st, req[w].saw)
                 id == <<IF delta > 0 THEN "assign" ELSE "release", s>>
                 moves == delta # 0 /\ ~req[w].proof
      <3>1. s \in Serials
        BY <2>7, RequestFields DEF post_customerDevices, TypeOK
      <3>2. id \in RowIds
        BY <3>1 DEF RowIds
      <3>3. delta # 0 => -delta \in {-1, 1}
        BY DEF assignmentDelta
      <3>4. known'.row = (known.row \/ (moves /\ id \in rows))
        BY <2>7 DEF post_customerDevices
      <3>5. IF moves THEN Move(-delta, id) ELSE NoMove
        BY <2>7 DEF post_customerDevices
      <3>6. CASE moves /\ id \in rows
        BY <3>4, <3>6 DEF LedgerExplainsStock
      <3>7. CASE ~(moves /\ id \in rows)
        <4>1. Fresh
          BY <3>2, <3>3, <3>5, <3>7
        <4>2. known.row => known'.row
          BY <3>4
        <4> QED BY <2>1, <4>1, <4>2
      <3> QED BY <3>6, <3>7
    <2>8. ASSUME NEW s \in Serials, NEW st \in PatchStatuses, patch_status2(s, st)
          PROVE  LedgerExplainsStock'
      <3>1. findCpeAsset(s) \subseteq Assets
        BY DEF findCpeAsset
      <3>2. known'.row = known.row
        BY <2>2, <2>8 DEF patch_status2
      <3> QED BY <2>1, <2>3, <2>4, <2>8, <3>1, <3>2 DEF patch_status2
    <2>9. ASSUME NEW w \in Workers, post_exchange(w) PROVE LedgerExplainsStock'
      <3>1. ExchangeStep
        BY <2>9 DEF post_exchange, ExchangeStep, journalExchange
      <3>2. known'.row = known.row
        BY <2>2, <2>9, Zenon DEF post_exchange
      <3> QED BY <2>1, <3>1, <3>2
    <2>10. ASSUME NEW a \in Assets, NEW st \in AssetStatuses, setAssignment(a, st)
           PROVE  LedgerExplainsStock'
      BY <2>1, <2>2, <2>10 DEF setAssignment, NoMove
    <2>11. ASSUME NoMove, UNCHANGED known PROVE LedgerExplainsStock'
      BY <2>1, <2>11
    <2> QED
      BY <2>5, <2>6, <2>7, <2>8, <2>9, <2>10, <2>11, <2>12
      DEF Next, vars, NoMove, CheckUnassign, Ask, CheckDevice, CheckExchange,
          upsertAsset, Abandon
  <1> QED BY <1>1, <1>2, TypeCorrect, PTL DEF Spec

-----------------------------------------------------------------------------
(* Units and assets.  What the register and the assets say of each other   *)
(* rests on the records: which asset a record's notes name, and whether    *)
(* the asset's collection has been credited.                               *)

Used(a) == <<"asset", a>> \in rows
Credited(a) == <<"collect", a>> \in rows
Pending(w, a, s) == req[w].kind = "upsert" /\ req[w].asset = a /\ req[w].unit = s
Open(s) == cdr[s].status \notin {"COLLECTED", "EXCHANGED"}
Unstruck == known.units = {}
Shelf == {s \in Serials : reg[s].status = "IN_STOCK"}

(* An asset id is anywhere only from its deployment on, and a deployment   *)
(* has a unit.                                                             *)
OnceUsed ==
    /\ \A a \in Assets : asset[a].status = "NONE" => asset[a].serial = None
    /\ \A a \in Assets : ~Used(a) =>
          /\ asset[a].status = "NONE" /\ ~Credited(a)
          /\ \A s \in Serials : cdr[s].tag # a
    /\ \A w \in Workers, a \in Assets :
          req[w].kind = "upsert" /\ req[w].asset = a => req[w].unit \in Serials /\ Used(a)

(* No two records' notes name one asset.                                   *)
OneTag ==
    \A s, t \in Serials : cdr[s].tag = cdr[t].tag /\ cdr[s].tag # None => s = t

(* The unit of an active record is out.                                    *)
ActiveIsOut ==
    \A s \in Serials : cdr[s].status = "ASSIGNED" => reg[s].status \in Out

(* The asset that an open record's notes name has the record's unit or,    *)
(* given back, none.                                                       *)
TagNames ==
    \A s \in Serials, a \in Assets :
        Open(s) /\ cdr[s].tag = a /\ asset[a].status # "NONE" => asset[a].serial \in {s, None}

(* An asset with a unit is deployed, unless it was credited before and the *)
(* unit is there by an exchange.                                           *)
Creditable ==
    \A a \in Assets, s \in Serials :
        asset[a].serial = s => asset[a].status = "DEPLOYED" \/ Credited(a)

(* An asset without a unit has given it back, and was credited for it.     *)
GivenBack ==
    \A a \in Assets : asset[a].status # "NONE" /\ asset[a].serial = None => Credited(a)

(* Between the two transactions of a deployment the unit is out and        *)
(* nobody's else.                                                          *)
StillUnwritten ==
    \A w \in Workers, a \in Assets, s \in Serials : Pending(w, a, s) =>
        /\ reg[s].status \in Out
        /\ asset[a].status = "NONE" /\ ~Credited(a)
        /\ \A b \in Assets : asset[b].serial # s
        /\ \A t \in Serials : cdr[t].tag = a => t = s
        /\ \A v \in Workers, b \in Assets, t \in Serials :
              Pending(v, b, t) /\ v # w => b # a /\ t # s

NamedOut ==
    \A a \in Assets, s \in Serials : asset[a].serial = s => reg[s].status \in Out
NamedOnce ==
    \A a, b \in Assets, s \in Serials : asset[a].serial = s /\ asset[b].serial = s => a = b

Counted == Cardinality(Shelf) = qoh

Records == ActiveIsOut /\ TagNames /\ Creditable /\ GivenBack /\ StillUnwritten
Sound == Records /\ NamedOut /\ NamedOnce /\ Counted

(* One unit leaves the shelf, comes to it, or none does.                   *)
LEMMA ShelfCounts ==
    ASSUME RegisterTyped, RegisterTyped', NEW s \in Serials,
           \A t \in Serials \ {s} : reg'[t].status = reg[t].status
    PROVE  /\ Cardinality(Shelf) \in Nat /\ Cardinality(Shelf') \in Nat
           /\ reg[s].status = "IN_STOCK" /\ reg'[s].status # "IN_STOCK"
                 => Cardinality(Shelf') = Cardinality(Shelf) - 1
           /\ reg[s].status # "IN_STOCK" /\ reg'[s].status = "IN_STOCK"
                 => Cardinality(Shelf') = Cardinality(Shelf) + 1
           /\ (reg[s].status = "IN_STOCK" <=> reg'[s].status = "IN_STOCK")
                 => Cardinality(Shelf') = Cardinality(Shelf)
  <1>0. IsFiniteSet(Shelf) /\ IsFiniteSet(Shelf')
    <2>1. Shelf \subseteq Serials /\ Shelf' \subseteq Serials
      BY DEF Shelf
    <2> QED BY <2>1, DevicesAssumption, FS_Subset
  <1>1. Cardinality(Shelf) \in Nat /\ Cardinality(Shelf') \in Nat
    BY <1>0, FS_CardinalityType
  <1>2. CASE reg[s].status = "IN_STOCK" /\ reg'[s].status # "IN_STOCK"
    <2>1. Shelf' = Shelf \ {s} /\ s \in Shelf
      BY <1>2 DEF Shelf
    <2>2. Cardinality(Shelf') = Cardinality(Shelf) - 1
      BY <1>0, <2>1, FS_RemoveElement
    <2> QED BY <1>1, <1>2, <2>2
  <1>3. CASE reg[s].status # "IN_STOCK" /\ reg'[s].status = "IN_STOCK"
    <2>1. Shelf' = Shelf \cup {s} /\ s \notin Shelf
      BY <1>3 DEF Shelf
    <2>2. Cardinality(Shelf') = Cardinality(Shelf) + 1
      BY <1>0, <2>1, FS_AddElement
    <2> QED BY <1>1, <1>3, <2>2
  <1>4. CASE reg[s].status = "IN_STOCK" <=> reg'[s].status = "IN_STOCK"
    <2>1. Shelf' = Shelf
      BY <1>4 DEF Shelf
    <2> QED BY <1>1, <1>4, <2>1
  <1> QED BY <1>2, <1>3, <1>4

(* A row id of a kind other than an asset's leaves the asset's alone.      *)
LEMMA MoveRows ==
    ASSUME NEW n, NEW id, Move(n, id)
    PROVE  /\ rows' = rows \cup {id}
           /\ \A a \in Assets : /\ Used(a)' <=> Used(a) \/ id = <<"asset", a>>
                                /\ Credited(a)' <=> Credited(a) \/ id = <<"collect", a>>
  BY DEF Move, Used, Credited

(* What each step does to a unit, a record, an asset and a request.        *)
RegOnly(S) == \A t \in Serials : t \notin S => reg'[t] = reg[t]
CdrOnly(S) == \A t \in Serials : t \notin S => cdr'[t] = cdr[t]
AssetOnly(S) == \A b \in Assets : b \notin S => asset'[b] = asset[b]
ReqOnly(w) == \A v \in Workers : v # w => req'[v] = req[v]
Finished(w) == req'[w].kind # "upsert" /\ ReqOnly(w)
RowsKept == \A b \in Assets : (Used(b)' <=> Used(b)) /\ (Credited(b)' <=> Credited(b))

LEMMA DoneFinishes ==
    ASSUME TypeOK, NEW w \in Workers, Done(w)
    PROVE  Finished(w)
  BY DEF TypeOK, Done, Finished, ReqOnly, Idle

(* A deployment takes the unit from the shelf, under a new asset id unless *)
(* it strikes.                                                             *)
LEMMA DeployDoes ==
    ASSUME TypeOK, NEW w \in Workers, NEW a \in Assets, NEW s \in Serials, NEW p \in Places,
           post_assets(w, a, s, p)
    PROVE  /\ known.units \subseteq known'.units /\ (Unstruck' => ~Used(a))
           /\ reg[s].status = "IN_STOCK" /\ qoh' = qoh - 1
           /\ reg'[s].status = p /\ p \in Out /\ RegOnly({s})
           /\ cdr'[s] = cdr[s] \/ (cdr[s].status # "ASSIGNED" /\ cdr'[s].status = "ASSIGNED"
                                    /\ cdr'[s].tag = a)
           /\ CdrOnly({s}) /\ UNCHANGED asset
           /\ Pending(w, a, s)' /\ ReqOnly(w)
           /\ \A b \in Assets : (Used(b)' <=> Used(b) \/ b = a) /\ (Credited(b)' <=> Credited(b))
  <1>0. /\ reg \in [Serials -> [status : UnitStatuses, source : Assets \cup {None}]]
        /\ cdr \in [Serials -> [status : RecordStatuses, tag : Assets \cup {None}]]
        /\ req \in [Workers -> Requests] /\ qoh \in Nat
    BY DEF TypeOK
  <1>1. Move(-1, <<"asset", a>>)
    BY DEF post_assets
  <1>2. \A b \in Assets : (Used(b)' <=> Used(b) \/ b = a) /\ (Credited(b)' <=> Credited(b))
    <2>1. \A b \in Assets : <<"asset", a>> # <<"collect", b>>
      OBVIOUS
    <2>2. \A b \in Assets : <<"asset", a>> = <<"asset", b>> <=> a = b
      OBVIOUS
    <2> QED BY <1>1, <2>1, <2>2, MoveRows
  <1>3. /\ known.units \subseteq known'.units /\ (Unstruck' => ~Used(a))
        /\ reg[s].status = "IN_STOCK" /\ UNCHANGED asset
    <2>1. IF <<"asset", a>> \notin rows THEN UNCHANGED known
          ELSE known'.units = known.units \cup ({s, asset[a].serial} \cap Serials)
      BY DEF post_assets
    <2>2. known.units \subseteq known'.units /\ (Unstruck' => ~Used(a))
      BY <2>1 DEF Used, Unstruck
    <2> QED BY <2>2 DEF post_assets
  <1>4. reg'[s].status = p /\ p \in Out /\ RegOnly({s})
    BY <1>0, DevicesAssumption DEF post_assets, RegOnly, Out
  <1>5. /\ cdr'[s] = cdr[s] \/ (cdr[s].status # "ASSIGNED" /\ cdr'[s].status = "ASSIGNED"
                                 /\ cdr'[s].tag = a)
        /\ CdrOnly({s})
    BY <1>0 DEF post_assets, CdrOnly, registerCustomerDeviceRow
  <1>6. Pending(w, a, s)' /\ ReqOnly(w)
    BY <1>0 DEF post_assets, ReqOnly, Pending, Idle
  <1>7. qoh' = qoh - 1
    BY <1>0, <1>1 DEF Move
  <1> QED BY <1>2, <1>3, <1>4, <1>5, <1>6, <1>7

(* Its second transaction writes the asset.                                *)
LEMMA UpsertDoes ==
    ASSUME TypeOK, OnceUsed, NEW w \in Workers, upsertAsset(w)
    PROVE  \E a \in Assets, s \in Serials :
              /\ Pending(w, a, s) /\ Finished(w)
              /\ asset'[a].status = "DEPLOYED" /\ asset'[a].serial = s /\ AssetOnly({a})
              /\ UNCHANGED <<qoh, reg, cdr, rows, known>>
  <1>1. req[w].asset \in Assets /\ req[w].unit \in Serials
    BY RequestFields DEF upsertAsset, TypeOK, OnceUsed
  <1>2. Pending(w, req[w].asset, req[w].unit) /\ Finished(w)
    BY DoneFinishes DEF upsertAsset, Pending
  <1>3. /\ asset'[req[w].asset].status = "DEPLOYED" /\ asset'[req[w].asset].serial = req[w].unit
        /\ AssetOnly({req[w].asset})
    BY <1>1 DEF upsertAsset, AssetOnly, TypeOK
  <1> QED BY <1>1, <1>2, <1>3 DEF upsertAsset

(* Collecting an asset takes its unit off it and credits it once.          *)
LEMMA CollectDoes ==
    ASSUME TypeOK, NEW a \in Assets, collectLinked(a)
    PROVE  /\ AssetOnly({a})
           /\ \/ /\ asset[a].status # "DEPLOYED" /\ UNCHANGED <<asset, qoh, rows>>
              \/ /\ asset[a].status = "DEPLOYED"
                 /\ asset'[a].status = "ACTIVE" /\ asset'[a].serial = None
                 /\ Credited(a) /\ UNCHANGED <<qoh, rows>>
              \/ /\ asset[a].status = "DEPLOYED"
                 /\ asset'[a].status = "ACTIVE" /\ asset'[a].serial = None
                 /\ ~Credited(a) /\ qoh' = qoh + 1
                 /\ \A b \in Assets : /\ Used(b)' <=> Used(b)
                                      /\ Credited(b)' <=> Credited(b) \/ b = a
  <1>0. asset \in [Assets -> [status : {"NONE", "ACTIVE", "DEPLOYED", "DISPOSED"},
                              serial : Serials \cup {None}]]
    BY DEF TypeOK
  <1>1. CASE ~isDeployed(a)
    BY <1>1 DEF collectLinked, AssetOnly, isDeployed, NoMove
  <1>2. CASE isDeployed(a)
    <2>1. /\ AssetOnly({a}) /\ asset[a].status = "DEPLOYED"
          /\ asset'[a].status = "ACTIVE" /\ asset'[a].serial = None
      BY <1>0, <1>2 DEF collectLinked, AssetOnly, isDeployed
    <2>2. CASE Credited(a)
      BY <1>2, <2>1, <2>2 DEF collectLinked, Credited, NoMove
    <2>3. CASE ~Credited(a)
      <3>1. Move(1, <<"collect", a>>)
        BY <1>2, <2>3 DEF collectLinked, Credited
      <3>2. \A b \in Assets : <<"collect", a>> # <<"asset", b>>
        OBVIOUS
      <3>3. \A b \in Assets : <<"collect", a>> = <<"collect", b>> <=> a = b
        OBVIOUS
      <3>4. \A b \in Assets : (Used(b)' <=> Used(b)) /\ (Credited(b)' <=> Credited(b) \/ b = a)
        BY <3>1, <3>2, <3>3, MoveRows
      <3>5. qoh' = qoh + 1
        BY <3>1 DEF Move
      <3> QED BY <2>1, <2>3, <3>4, <3>5
    <2> QED BY <2>2, <2>3
  <1> QED BY <1>1, <1>2

(* An unassignment collects the asset, closes a record that names it and   *)
(* puts the unit it was checked with back, if that is still out.           *)
LEMMA UnassignDoes ==
    ASSUME TypeOK, NEW w \in Workers, patch_status(w)
    PROVE  \E a \in Assets, s \in Serials \cup {None} :
              /\ collectLinked(a) /\ Finished(w)
              /\ \/ UNCHANGED cdr /\ \A t \in Serials : cdr[t].tag = a => ~Open(t)
                 \/ \E t \in Serials : /\ cdr[t].tag = a /\ cdr'[t].tag = a
                                       /\ cdr'[t].status = "COLLECTED" /\ CdrOnly({t})
              /\ \/ /\ s \in Serials /\ reg[s].status \in Out
                    /\ reg'[s].status = "IN_STOCK" /\ RegOnly({s})
                 \/ UNCHANGED reg /\ (s \in Serials => reg[s].status \notin Out)
              /\ known.units \subseteq known'.units
              /\ Unstruck' =>
                    /\ asset[a].serial # s =>
                          /\ asset[a].status # "DEPLOYED"
                          /\ s \in Serials => reg[s].status \notin Out
                    /\ s \in Serials /\ reg[s].status \in Out => ~Credited(a)
                    /\ s \in Serials /\ cdr[s].status = "ASSIGNED" => cdr[s].tag = a
  <1> DEFINE a == req[w].asset
             s == req[w].unit
             Struck == \/ asset[a].serial # s /\ (isDeployed(a) \/ isOut(s))
                       \/ isOut(s) /\ <<"collect", a>> \in rows
                       \/ s # None /\ cdr[s].status = "ASSIGNED" /\ cdr[s].tag # a
  <1>0. /\ reg \in [Serials -> [status : UnitStatuses, source : Assets \cup {None}]]
        /\ cdr \in [Serials -> [status : RecordStatuses, tag : Assets \cup {None}]]
        /\ asset \in [Assets -> [status : {"NONE", "ACTIVE", "DEPLOYED", "DISPOSED"},
                                 serial : Serials \cup {None}]]
        /\ known \in [units : SUBSET Serials, row : BOOLEAN]
        /\ None \notin Serials
    BY DevicesAssumption DEF TypeOK
  <1>1. a \in Assets /\ s \in Serials \cup {None}
    BY RequestFields DEF patch_status, TypeOK
  <1>2. /\ collectLinked(a) /\ closeRecord(a) /\ Done(w)
        /\ IF isOut(s) THEN reg' = [reg EXCEPT ![s] = [status |-> "IN_STOCK", source |-> a]]
           ELSE UNCHANGED reg
        /\ IF Struck THEN Strike({s, asset[a].serial} \cap Serials) ELSE UNCHANGED known
    BY Zenon DEF patch_status
  <1> HIDE DEF a, s
  <1>3. isOut(s) <=> s \in Serials /\ reg[s].status \in Out
    BY <1>0, <1>1 DEF isOut
  <1>4. \/ UNCHANGED cdr /\ \A t \in Serials : cdr[t].tag = a => ~Open(t)
        \/ \E t \in Serials : /\ cdr[t].tag = a /\ cdr'[t].tag = a
                              /\ cdr'[t].status = "COLLECTED" /\ CdrOnly({t})
    <2> DEFINE Closing == {t \in Serials : cdr[t].tag = a
                                /\ cdr[t].status \notin {"COLLECTED", "EXCHANGED"}}
    <2>1. \/ Closing = {} /\ UNCHANGED cdr
          \/ \E t \in Closing : cdr' = [cdr EXCEPT ![t].status = "COLLECTED"]
      BY <1>2, Zenon DEF closeRecord
    <2>2. ASSUME NEW t \in Closing, cdr' = [cdr EXCEPT ![t].status = "COLLECTED"]
          PROVE  /\ cdr[t].tag = a /\ cdr'[t].tag = a
                 /\ cdr'[t].status = "COLLECTED" /\ CdrOnly({t})
      BY <1>0, <2>2 DEF CdrOnly
    <2> QED BY <2>1, <2>2 DEF Open
  <1>5. \/ /\ s \in Serials /\ reg[s].status \in Out
           /\ reg'[s].status = "IN_STOCK" /\ RegOnly({s})
        \/ UNCHANGED reg /\ (s \in Serials => reg[s].status \notin Out)
    BY <1>0, <1>2, <1>3 DEF RegOnly
  <1>6. known.units \subseteq known'.units
    BY <1>0, <1>2 DEF Strike
  <1>7. ASSUME Unstruck' PROVE ~Struck
    <2>1. CASE Struck
      <3>1. {s, asset[a].serial} \cap Serials # {}
        BY <1>0, <1>1, <2>1 DEF isOut
      <3>2. known'.units = known.units \cup ({s, asset[a].serial} \cap Serials)
        BY <1>0, <1>2, <2>1 DEF Strike
      <3> QED BY <1>7, <3>1, <3>2 DEF Unstruck
    <2> QED BY <2>1
  <1>8. Finished(w)
    BY <1>2, DoneFinishes
  <1>9. Unstruck' =>
            /\ asset[a].serial # s =>
                  /\ asset[a].status # "DEPLOYED"
                  /\ s \in Serials => reg[s].status \notin Out
            /\ s \in Serials /\ reg[s].status \in Out => ~Credited(a)
            /\ s \in Serials /\ cdr[s].status = "ASSIGNED" => cdr[s].tag = a
    BY <1>0, <1>3, <1>7 DEF isDeployed, Credited
  <1> QED BY <1>1, <1>2, <1>4, <1>5, <1>6, <1>8, <1>9

(* The asset screen writes the status alone.                               *)
LEMMA AssignDoes ==
    ASSUME TypeOK, NEW a \in Assets, NEW st \in AssetStatuses, setAssignment(a, st)
    PROVE  /\ asset[a].status # "NONE" /\ asset'[a].status # "NONE"
           /\ asset'[a].serial = asset[a].serial /\ AssetOnly({a})
           /\ UNCHANGED <<qoh, reg, cdr, rows, req>> /\ known.units \subseteq known'.units
           /\ Unstruck' => asset[a].serial = None \/ asset'[a].status = "DEPLOYED"
  <1>0. /\ asset \in [Assets -> [status : {"NONE", "ACTIVE", "DEPLOYED", "DISPOSED"},
                                 serial : Serials \cup {None}]]
        /\ known \in [units : SUBSET Serials, row : BOOLEAN]
    BY DEF TypeOK
  <1>1. /\ asset[a].status # "NONE" /\ asset'[a].status = st /\ st # "NONE"
        /\ asset'[a].serial = asset[a].serial /\ AssetOnly({a})
    BY <1>0, DevicesAssumption DEF setAssignment, AssetOnly
  <1>2. IF asset[a].serial # None /\ st # "DEPLOYED" THEN Strike({asset[a].serial})
        ELSE UNCHANGED known
    BY DEF setAssignment
  <1>3. known.units \subseteq known'.units
    BY <1>0, <1>2 DEF Strike
  <1>4. Unstruck' => asset[a].serial = None \/ st = "DEPLOYED"
    BY <1>0, <1>2 DEF Strike, Unstruck
  <1> QED BY <1>1, <1>3, <1>4 DEF setAssignment

(* The device directory, when it finds the unit and the record as it read  *)
(* them: a unit from the shelf is assigned, an assigned one released, or   *)
(* one on the shelf stays there.                                           *)
LEMMA DeviceDoes ==
    ASSUME TypeOK, NEW w \in Workers, post_customerDevices(w)
    PROVE  \E s \in Serials :
              /\ Finished(w) /\ UNCHANGED asset /\ RowsKept
              /\ cdr'[s].tag \in {cdr[s].tag, None} /\ CdrOnly({s}) /\ RegOnly({s})
              /\ known.units \subseteq known'.units
              /\ Unstruck' =>
                    /\ Open(s) /\ ~unwritten(s)
                    /\ \A a \in Assets : asset[a].serial # s
                    /\ \/ /\ reg[s].status = "IN_STOCK" /\ reg'[s].status = "CUSTOMER_ASSIGNED"
                          /\ cdr'[s].status = "ASSIGNED"
                          /\ cdr[s].status # "ASSIGNED" => qoh' = qoh - 1
                       \/ /\ cdr[s].status = "ASSIGNED" /\ cdr'[s].status = "IN_STOCK"
                          /\ reg'[s].status = "IN_STOCK" /\ qoh' = qoh + 1
                       \/ /\ cdr'[s].status = "IN_STOCK" /\ reg'[s].status = reg[s].status
                          /\ reg[s].status = "IN_STOCK" /\ UNCHANGED qoh
  <1> DEFINE s == req[w].unit
             st == req[w].st
             saw == req[w].saw
             delta == assignmentDelta(st, saw)
             id == <<IF delta > 0 THEN "assign" ELSE "release", s>>
             moves == delta # 0 /\ ~req[w].proof
             Struck == \/ {st, saw} \cap {"COLLECTED", "EXCHANGED"} # {}
                       \/ req[w].proof \/ cdr[s].status # saw
                       \/ delta = 0 /\ ~serialGate(s)
                       \/ unwritten(s) \/ \E a \in Assets : asset[a].serial = s
  <1>0. /\ reg \in [Serials -> [status : UnitStatuses, source : Assets \cup {None}]]
        /\ cdr \in [Serials -> [status : RecordStatuses, tag : Assets \cup {None}]]
        /\ known \in [units : SUBSET Serials, row : BOOLEAN] /\ qoh \in Nat
    BY DEF TypeOK
  <1>1. s \in Serials /\ st \in {"ASSIGNED", "IN_STOCK", "COLLECTED", "EXCHANGED"}
    BY RequestFields, DevicesAssumption DEF post_customerDevices, TypeOK
  <1>2. /\ st # "IN_STOCK" /\ ~req[w].proof => serialGate(s)
        /\ IF moves THEN Move(-delta, id) ELSE NoMove
        /\ \E tag \in {cdr[s].tag, None} : cdr' = [cdr EXCEPT ![s] = [status |-> st, tag |-> tag]]
        /\ reg' = syncSerial(s, st)
        /\ known'.units = IF Struck THEN known.units \cup {s} ELSE known.units
        /\ Done(w) /\ UNCHANGED asset
    BY DEF post_customerDevices
  <1> HIDE DEF s, st
  <1>3. cdr'[s].status = st /\ cdr'[s].tag \in {cdr[s].tag, None} /\ CdrOnly({s})
    BY <1>0, <1>1, <1>2 DEF CdrOnly
  <1>4. (st # "EXCHANGED" => reg'[s].status = serialStatusFor(st)) /\ RegOnly({s})
    BY <1>0, <1>1, <1>2 DEF RegOnly, syncSerial
  <1>5. RowsKept
    <2>1. \A a \in Assets : id # <<"asset", a>> /\ id # <<"collect", a>>
      OBVIOUS
    <2>2. CASE moves
      BY <1>2, <2>1, <2>2, MoveRows DEF RowsKept
    <2>3. CASE ~moves
      BY <1>2, <2>3 DEF RowsKept, NoMove, Used, Credited
    <2> QED BY <2>2, <2>3
  <1>6. known.units \subseteq known'.units
    BY <1>2
  <1>7. Unstruck' => ~Struck
    BY <1>2 DEF Unstruck
  <1>8. ~Struck => Open(s) /\ ~unwritten(s) /\ \A a \in Assets : asset[a].serial # s
    BY DEF Open
  <1>9. ASSUME ~Struck
        PROVE  \/ /\ reg[s].status = "IN_STOCK" /\ reg'[s].status = "CUSTOMER_ASSIGNED"
                  /\ cdr'[s].status = "ASSIGNED"
                  /\ cdr[s].status # "ASSIGNED" => qoh' = qoh - 1
               \/ /\ cdr[s].status = "ASSIGNED" /\ cdr'[s].status = "IN_STOCK"
                  /\ reg'[s].status = "IN_STOCK" /\ qoh' = qoh + 1
               \/ /\ cdr'[s].status = "IN_STOCK" /\ reg'[s].status = reg[s].status
                  /\ reg[s].status = "IN_STOCK" /\ UNCHANGED qoh
    <2>1. /\ ~req[w].proof /\ cdr[s].status = saw /\ saw \in {"NONE", "ASSIGNED", "IN_STOCK"}
          /\ st \in {"ASSIGNED", "IN_STOCK"}
      <3>1. cdr[s].status \in RecordStatuses
        BY <1>0, <1>1
      <3>2. st \notin {"COLLECTED", "EXCHANGED"} /\ saw \notin {"COLLECTED", "EXCHANGED"}
        BY <1>9
      <3> QED BY <1>1, <1>9, <3>1, <3>2 DEF RecordStatuses
    <2>2. /\ delta = (IF st = "ASSIGNED" THEN 1 ELSE 0) - (IF saw = "ASSIGNED" THEN 1 ELSE 0)
          /\ st = "IN_STOCK" /\ saw # "ASSIGNED" => delta = 0
      BY <1>1, <2>1 DEF assignmentDelta, wasAssigned
    <2>3. delta = 0 => serialGate(s)
      BY <1>9
    <2> HIDE DEF delta, saw, Struck, id
    <2>4. delta # 0 => qoh' = qoh - delta
      BY <1>0, <1>2, <2>1, <2>2 DEF Move
    <2>5. delta = 0 => qoh' = qoh
      BY <1>2 DEF NoMove
    <2>6. CASE st = "ASSIGNED"
      BY <1>0, <1>2, <1>3, <1>4, <2>1, <2>2, <2>4, <2>6 DEF serialGate, serialStatusFor
    <2>7. CASE st = "IN_STOCK" /\ saw = "ASSIGNED"
      BY <1>0, <1>3, <1>4, <2>1, <2>2, <2>4, <2>7 DEF serialStatusFor
    <2>8. CASE st = "IN_STOCK" /\ saw # "ASSIGNED"
      <3>1. delta = 0
        BY <2>2, <2>8, Zenon
      <3>2. cdr'[s].status = "IN_STOCK" /\ reg'[s].status = "IN_STOCK"
        BY <1>3, <1>4, <2>8 DEF serialStatusFor
      <3>3. reg[s].status = "IN_STOCK" /\ UNCHANGED qoh
        BY <2>3, <2>5, <3>1 DEF serialGate
      <3> QED BY <3>2, <3>3
    <2> QED BY <2>1, <2>6, <2>7, <2>8
  <1>10. Finished(w)
    BY <1>2, DoneFinishes
  <1> HIDE DEF Struck
  <1> QED BY <1>1, <1>2, <1>3, <1>4, <1>5, <1>6, <1>7, <1>8, <1>9, <1>10

(* A status change, when the record is active and its collection is still  *)
(* to be credited: nothing, the record closed alone, or a credit to the    *)
(* record or to its asset.                                                 *)
Collects(st) == st \notin {"ASSIGNED", "EXCHANGED"}

LEMMA MenuDoes ==
    ASSUME TypeOK, NEW s \in Serials, NEW st \in PatchStatuses, patch_status2(s, st)
    PROVE  /\ UNCHANGED req
           /\ cdr'[s].status = st /\ cdr'[s].tag = cdr[s].tag /\ CdrOnly({s})
           /\ IF st = "EXCHANGED" THEN UNCHANGED reg
              ELSE reg'[s].status = serialStatusFor(st) /\ RegOnly({s})
           /\ known.units \subseteq known'.units
           /\ (UNCHANGED asset /\ RowsKept) \/ \E a \in Assets : collectLinked(a)
           /\ Unstruck' =>
                 /\ cdr[s].status = "ASSIGNED" /\ ~unwritten(s)
                 /\ \/ st \in {"ASSIGNED", "EXCHANGED"} /\ UNCHANGED <<qoh, rows, asset>>
                    \/ /\ Collects(st) /\ UNCHANGED asset /\ RowsKept /\ qoh' = qoh + 1
                       /\ \A a \in Assets : asset[a].serial # s
                    \/ /\ Collects(st)
                       /\ \E a \in findCpeAsset(s) :
                             collectLinked(a) /\ isDeployed(a) /\ ~Credited(a)
  <1> DEFINE linked == findCpeAsset(s)
             spent == IF linked = {} THEN <<"collect", s>> \in rows
                      ELSE \E a \in linked : ~isDeployed(a) \/ <<"collect", a>> \in rows
             Struck == \/ cdr[s].status # "ASSIGNED" \/ unwritten(s)
                       \/ Collects(st) /\ spent
  <1>0. /\ reg \in [Serials -> [status : UnitStatuses, source : Assets \cup {None}]]
        /\ cdr \in [Serials -> [status : RecordStatuses, tag : Assets \cup {None}]]
        /\ known \in [units : SUBSET Serials, row : BOOLEAN]
    BY DEF TypeOK
  <1>1. /\ cdr' = [cdr EXCEPT ![s].status = st]
        /\ reg' = syncSerial(s, st)
        /\ \/ ~Collects(st) /\ NoMove /\ UNCHANGED asset
           \/ Collects(st) /\ linked = {} /\ collectUnlinked(s)
           \/ Collects(st) /\ \E a \in linked : collectLinked(a)
        /\ IF Struck THEN Strike({s}) ELSE UNCHANGED known
        /\ UNCHANGED req
    <2>1. Collects(st) <=> serialStatusFor(st) = "IN_STOCK" /\ st # "EXCHANGED"
      BY DEF Collects, serialStatusFor
    <2> QED BY <2>1 DEF patch_status2
  <1>2. linked \subseteq Assets /\ (linked = {} => \A a \in Assets : asset[a].serial # s)
    BY DEF findCpeAsset
  <1> HIDE DEF linked
  <1>3. cdr'[s].status = st /\ cdr'[s].tag = cdr[s].tag /\ CdrOnly({s})
    BY <1>0, <1>1 DEF CdrOnly
  <1>4. IF st = "EXCHANGED" THEN UNCHANGED reg
        ELSE reg'[s].status = serialStatusFor(st) /\ RegOnly({s})
    BY <1>0, <1>1 DEF RegOnly, syncSerial
  <1>5. known.units \subseteq known'.units /\ (Unstruck' => ~Struck)
    BY <1>0, <1>1 DEF Strike, Unstruck
  <1>6. NoMove => RowsKept
    BY DEF NoMove, RowsKept, Used, Credited
  <1>7. ASSUME Move(1, <<"collect", s>>) PROVE RowsKept
    <2>1. \A a \in Assets : <<"collect", s>> # <<"asset", a>> /\ <<"collect", s>> # <<"collect", a>>
      BY DevicesAssumption
    <2> QED BY <1>7, <2>1, MoveRows DEF RowsKept
  <1>8. (UNCHANGED asset /\ RowsKept) \/ \E a \in Assets : collectLinked(a)
    BY <1>1, <1>2, <1>6, <1>7 DEF collectUnlinked
  <1>9. ASSUME ~Struck
        PROVE  /\ cdr[s].status = "ASSIGNED" /\ ~unwritten(s)
               /\ \/ st \in {"ASSIGNED", "EXCHANGED"} /\ UNCHANGED <<qoh, rows, asset>>
                  \/ /\ Collects(st) /\ UNCHANGED asset /\ RowsKept /\ qoh' = qoh + 1
                     /\ \A a \in Assets : asset[a].serial # s
                  \/ /\ Collects(st)
                     /\ \E a \in linked : collectLinked(a) /\ isDeployed(a) /\ ~Credited(a)
    <2>1. CASE ~Collects(st)
      BY <1>1, <1>9, <2>1 DEF NoMove, Collects
    <2>2. CASE Collects(st) /\ linked = {}
      <3>1. <<"collect", s>> \notin rows
        BY <1>9, <2>2
      <3>2. UNCHANGED asset /\ Move(1, <<"collect", s>>)
        BY <1>1, <2>2, <3>1 DEF collectUnlinked
      <3>3. qoh' = qoh + 1
        BY <3>2 DEF Move
      <3> QED BY <1>2, <1>7, <1>9, <2>2, <3>2, <3>3
    <2>3. CASE Collects(st) /\ linked # {}
      <3>1. PICK a \in linked : collectLinked(a)
        BY <1>1, <2>3
      <3>2. isDeployed(a) /\ ~Credited(a)
        BY <1>9, <2>3 DEF Credited
      <3> QED BY <1>9, <2>3, <3>1, <3>2
    <2> QED BY <2>1, <2>2, <2>3
  <1> HIDE DEF Struck
  <1> QED BY <1>1, <1>3, <1>4, <1>5, <1>8, <1>9 DEF linked

(* An exchange of an active record: the old unit comes back or is damaged, *)
(* the new one leaves the shelf, and the asset goes with it.               *)
LEMMA ExchangeDoes ==
    ASSUME TypeOK, NEW w \in Workers, post_exchange(w)
    PROVE  \E s \in Serials, n \in Serials :
              /\ Finished(w) /\ UNCHANGED rows
              /\ reg[n].status = "IN_STOCK"
              /\ \A t \in Serials : cdr'[t].tag \in {cdr[t].tag, None}
              /\ \/ UNCHANGED asset /\ findCpeAsset(s) = {}
                 \/ \E a \in findCpeAsset(s) :
                       /\ asset'[a].serial = n /\ asset'[a].status = asset[a].status
                       /\ AssetOnly({a})
              /\ known.units \subseteq known'.units
              /\ Unstruck' => cdr[s].status = "ASSIGNED" /\ ~unwritten(s)
              /\ s # n =>
                    /\ \/ reg'[s].status = "IN_STOCK" /\ qoh' = qoh
                       \/ reg'[s].status = "DAMAGED" /\ qoh' = qoh - 1
                    /\ reg'[n].status = "CUSTOMER_ASSIGNED" /\ RegOnly({s, n})
                    /\ cdr'[s].status = "EXCHANGED" /\ cdr'[s].tag = cdr[s].tag
                    /\ \/ cdr[n].status = "ASSIGNED"
                       \/ cdr'[n].status = "ASSIGNED" /\ cdr'[n].tag = None
                    /\ CdrOnly({s, n})
  <1> DEFINE s == req[w].unit
             n == req[w].other
             back == IF req[w].st = "RESTOCK" THEN 1 ELSE 0
             Struck == cdr[s].status # "ASSIGNED" \/ unwritten(s)
  <1>0. /\ reg \in [Serials -> [status : UnitStatuses, source : Assets \cup {None}]]
        /\ cdr \in [Serials -> [status : RecordStatuses, tag : Assets \cup {None}]]
        /\ asset \in [Assets -> [status : {"NONE", "ACTIVE", "DEPLOYED", "DISPOSED"},
                                 serial : Serials \cup {None}]]
        /\ known \in [units : SUBSET Serials, row : BOOLEAN] /\ qoh \in Nat
    BY DEF TypeOK
  <1>1. s \in Serials /\ n \in Serials
    BY RequestFields DEF post_exchange, TypeOK
  <1>2. /\ serialGate(n) /\ qoh' = qoh + back - 1
        /\ cdr' = registerCustomerDeviceRow([cdr EXCEPT ![s].status = "EXCHANGED"], n, None)
        /\ reg' = [reg EXCEPT ![s].status = IF back = 1 THEN "IN_STOCK" ELSE "DAMAGED",
                              ![n].status = "CUSTOMER_ASSIGNED"]
        /\ moveSerial(s, n)
        /\ IF Struck THEN Strike({s, n}) ELSE UNCHANGED known
        /\ Done(w) /\ UNCHANGED rows
    BY Zenon DEF post_exchange
  <1>3. back \in {0, 1}
    OBVIOUS
  <1> HIDE DEF s, n, back
  <1>4. /\ s # n => \/ reg'[s].status = "IN_STOCK" /\ qoh' = qoh
                    \/ reg'[s].status = "DAMAGED" /\ qoh' = qoh - 1
        /\ reg'[n].status = "CUSTOMER_ASSIGNED" /\ RegOnly({s, n})
    BY <1>0, <1>1, <1>2, <1>3 DEF RegOnly
  <1>5. /\ \A t \in Serials : cdr'[t].tag \in {cdr[t].tag, None}
        /\ s # n => /\ cdr'[s].status = "EXCHANGED" /\ cdr'[s].tag = cdr[s].tag
                    /\ \/ cdr[n].status = "ASSIGNED"
                       \/ cdr'[n].status = "ASSIGNED" /\ cdr'[n].tag = None
                    /\ CdrOnly({s, n})
    <2> DEFINE f == [cdr EXCEPT ![s].status = "EXCHANGED"]
    <2>1. /\ f \in [Serials -> [status : RecordStatuses, tag : Assets \cup {None}]]
          /\ f[s].status = "EXCHANGED"
          /\ \A t \in Serials : f[t].tag = cdr[t].tag /\ (t # s => f[t] = cdr[t])
      BY <1>0, <1>1 DEF RecordStatuses
    <2>2. cdr' = f \/ cdr' = [f EXCEPT ![n] = [status |-> "ASSIGNED", tag |-> None]]
      BY <1>2 DEF registerCustomerDeviceRow
    <2>3. cdr' = f => f[n].status = "ASSIGNED"
      <3>1. CASE f[n].status = "ASSIGNED"
        BY <3>1
      <3>2. CASE f[n].status # "ASSIGNED"
        <4>1. cdr' = [f EXCEPT ![n] = [status |-> "ASSIGNED", tag |-> None]]
          BY <1>2, <3>2 DEF registerCustomerDeviceRow
        <4>2. cdr'[n].status = "ASSIGNED"
          BY <1>1, <2>1, <4>1
        <4> QED BY <4>2
      <3> QED BY <3>1, <3>2
    <2> HIDE DEF f
    <2>4. CASE cdr' = f
      BY <1>1, <2>1, <2>3, <2>4 DEF CdrOnly
    <2>5. CASE cdr' = [f EXCEPT ![n] = [status |-> "ASSIGNED", tag |-> None]]
      BY <1>1, <2>1, <2>5 DEF CdrOnly
    <2> QED BY <2>2, <2>4, <2>5
  <1>6. \/ UNCHANGED asset /\ findCpeAsset(s) = {}
        \/ \E a \in findCpeAsset(s) :
              /\ asset'[a].serial = n /\ asset'[a].status = asset[a].status
              /\ AssetOnly({a})
    <2>1. findCpeAsset(s) \subseteq Assets
      BY DEF findCpeAsset
    <2>2. \/ UNCHANGED asset /\ findCpeAsset(s) = {}
          \/ \E a \in findCpeAsset(s) : asset' = [asset EXCEPT ![a].serial = n]
      BY <1>2 DEF moveSerial
    <2> QED BY <1>0, <2>1, <2>2 DEF AssetOnly
  <1>7. known.units \subseteq known'.units /\ (Unstruck' => ~Struck)
    <2> HIDE DEF Struck
    <2>1. CASE Struck
      <3>1. known' = [known EXCEPT !.units = @ \cup {s, n}]
        BY <1>2, <2>1 DEF Strike
      <3>2. known'.units = known.units \cup {s, n}
        BY <1>0, <3>1
      <3> QED BY <3>2 DEF Unstruck
    <2>2. CASE ~Struck
      BY <1>2, <2>2
    <2> QED BY <2>1, <2>2
  <1>8. Finished(w)
    BY <1>2, DoneFinishes
  <1>9. reg[n].status = "IN_STOCK"
    BY <1>2 DEF serialGate
  <1> QED BY <1>1, <1>2, <1>4, <1>5, <1>6, <1>7, <1>8, <1>9

(* A check, or the end of a request: no row changes and no deployment gets *)
(* to its second transaction.                                              *)
Quiet ==
    /\ UNCHANGED <<qoh, reg, cdr, asset, rows, known>>
    /\ \A v \in Workers : req'[v].kind = "upsert" => req'[v] = req[v]

(* The steps of the system, with the checks put together.                  *)
LEMMA EveryStep ==
    ASSUME TypeOK, [Next]_vars
    PROVE  \/ \E w \in Workers, a \in Assets, s \in Serials, p \in Places : post_assets(w, a, s, p)
           \/ \E w \in Workers, a \in Assets : deployUnserialised(w, a)
           \/ \E w \in Workers : \/ upsertAsset(w) \/ patch_status(w)
                                 \/ post_customerDevices(w) \/ post_exchange(w)
           \/ \E a \in Assets, st \in AssetStatuses : setAssignment(a, st)
           \/ \E s \in Serials, st \in PatchStatuses : patch_status2(s, st)
           \/ Quiet
  <1>1. ASSUME NEW w \in Workers, NEW r, r.kind # "upsert", Ask(w, r) PROVE Quiet
    BY <1>1 DEF Ask, Quiet, TypeOK
  <1>2. ASSUME NEW w \in Workers, NEW a \in Assets, CheckUnassign(w, a) PROVE Quiet
    <2>1. \E u : Ask(w, [Idle EXCEPT !.kind = "unassign", !.asset = a, !.unit = u])
      BY <1>2 DEF CheckUnassign
    <2> QED BY <1>1, <2>1 DEF Idle
  <1>3. ASSUME NEW w \in Workers, NEW s \in Serials, NEW st \in PostStatuses,
               CheckDevice(w, s, st)
        PROVE  Quiet
    BY <1>1, <1>3 DEF CheckDevice, Idle
  <1>4. ASSUME NEW w \in Workers, NEW s \in Serials, NEW n \in Serials,
               NEW d \in Dispositions, CheckExchange(w, s, n, d)
        PROVE  Quiet
    BY <1>1, <1>4 DEF CheckExchange, Idle
  <1>5. ASSUME NEW w \in Workers, Abandon(w) PROVE Quiet
    BY <1>5, DoneFinishes DEF Abandon, Quiet, Finished, ReqOnly
  <1>6. ASSUME UNCHANGED vars PROVE Quiet
    BY <1>6 DEF vars, Quiet
  <1> QED BY <1>2, <1>3, <1>4, <1>5, <1>6, Zenon DEF Next

(* A unit that a defect has struck stays struck.                           *)
LEMMA StruckStays ==
    ASSUME TypeOK, [Next]_vars
    PROVE  /\ known.units \subseteq known'.units
           /\ Unstruck' => \A w \in Workers, a \in Assets : ~deployUnserialised(w, a)
  <1>1. ASSUME UNCHANGED known PROVE known.units \subseteq known'.units
    BY <1>1
  <1>2. ASSUME NEW w \in Workers, NEW a \in Assets, deployUnserialised(w, a)
        PROVE  known'.units = Serials
    BY <1>2 DEF deployUnserialised
  <1>3. known.units \subseteq known'.units
    BY <1>1, <1>2, EveryStep, DeployDoes, UnassignDoes, DeviceDoes, ExchangeDoes,
       AssignDoes, MenuDoes
    DEF Quiet, TypeOK, upsertAsset
  <1> QED BY <1>2, <1>3, DevicesAssumption DEF Unstruck

(* Asset ids, and the tags in the notes, are given out once.               *)
LEMMA UsedKept ==
    ASSUME TypeOK, TypeOK', OnceUsed, OneTag, [Next]_vars, Unstruck'
    PROVE  OnceUsed' /\ OneTag'
  <1>0. /\ cdr \in [Serials -> [status : RecordStatuses, tag : Assets \cup {None}]]
        /\ None \notin Assets /\ None \notin Serials
    BY DevicesAssumption DEF TypeOK
  <1> DEFINE Sane == \A a \in Assets : asset'[a].status = "NONE" => asset'[a].serial = None
             Fresh == \A a \in Assets : ~Used(a)' =>
                          asset'[a].status = "NONE" /\ ~Credited(a)'
             Tagged == \A a \in Assets : ~Used(a)' => \A s \in Serials : cdr'[s].tag # a
             Written == \A w \in Workers, a \in Assets :
                            req'[w].kind = "upsert" /\ req'[w].asset = a
                                => req'[w].unit \in Serials /\ Used(a)'
  <1>1. ASSUME \A s \in Serials : cdr'[s].tag \in {cdr[s].tag, None} PROVE OneTag'
    BY <1>0, <1>1 DEF OneTag
  <1>2. ASSUME \A s \in Serials : cdr'[s].tag \in {cdr[s].tag, None},
               \A a \in Assets : Used(a) => Used(a)'
        PROVE  Tagged
    BY <1>0, <1>2 DEF OnceUsed
  <1>3. ASSUME \A v \in Workers : req'[v].kind = "upsert" => req'[v] = req[v],
               \A a \in Assets : Used(a) => Used(a)'
        PROVE  Written
    BY <1>3 DEF OnceUsed
  <1>4. ASSUME Sane, Fresh, Tagged, Written PROVE OnceUsed'
    BY <1>4 DEF OnceUsed
  <1>5. \A w \in Workers : Finished(w) =>
            \A v \in Workers : req'[v].kind = "upsert" => req'[v] = req[v]
    BY DEF Finished, ReqOnly
  <1>6. UNCHANGED rows => RowsKept
    BY DEF RowsKept, Used, Credited
  <1>7. ASSUME UNCHANGED asset, RowsKept PROVE Sane /\ Fresh
    BY <1>7 DEF OnceUsed, RowsKept
  <1>8. ASSUME NEW a \in Assets, collectLinked(a)
        PROVE  Sane /\ Fresh /\ \A b \in Assets : Used(b) => Used(b)'
    <2>1. CASE UNCHANGED <<asset, rows>>
      BY <1>6, <1>7, <2>1 DEF RowsKept
    <2>2. CASE asset[a].status = "DEPLOYED" /\ asset'[a].status = "ACTIVE" /\ AssetOnly({a})
      <3>1. \A b \in Assets : (Used(b)' <=> Used(b)) /\ (Credited(b)' => Credited(b) \/ b = a)
        BY <1>6, <1>8, CollectDoes DEF RowsKept
      <3>2. asset'[a].serial = None
        BY <1>8, <2>2, CollectDoes
      <3> QED BY <2>2, <3>1, <3>2 DEF OnceUsed, AssetOnly
    <2> QED BY <1>8, <2>1, <2>2, CollectDoes
  <1>9. ASSUME NEW w \in Workers, NEW a \in Assets, NEW s \in Serials, NEW p \in Places,
               post_assets(w, a, s, p)
        PROVE  OnceUsed' /\ OneTag'
    <2>0. /\ ~Used(a) /\ UNCHANGED asset /\ CdrOnly({s})
          /\ cdr'[s] = cdr[s] \/ cdr'[s].tag = a
          /\ \A b \in Assets : (Used(b)' <=> Used(b) \/ b = a) /\ (Credited(b)' <=> Credited(b))
      BY <1>9, DeployDoes
    <2>1. Sane /\ Fresh
      BY <2>0 DEF OnceUsed
    <2>2. /\ \A t \in Serials : cdr'[t].tag = cdr[t].tag \/ (t = s /\ cdr'[t].tag = a)
          /\ \A t \in Serials : cdr[t].tag # a
      BY <2>0 DEF OnceUsed, CdrOnly
    <2>3. Tagged
      BY <2>0, <2>2 DEF OnceUsed
    <2>4. OneTag'
      BY <2>2 DEF OneTag
    <2>5. Written
      <3>1. /\ Pending(w, a, s)' /\ Used(a)'
            /\ \A v \in Workers : v # w => req'[v] = req[v]
            /\ \A b \in Assets : Used(b) => Used(b)'
        BY <1>9, DeployDoes DEF ReqOnly
      <3> QED BY <3>1 DEF OnceUsed, Pending
    <2> QED BY <1>4, <2>1, <2>3, <2>4, <2>5
  <1>10. ASSUME NEW w \in Workers, upsertAsset(w) PROVE OnceUsed' /\ OneTag'
    <2>1. PICK a \in Assets, s \in Serials :
              /\ Pending(w, a, s) /\ Finished(w)
              /\ asset'[a].status = "DEPLOYED" /\ AssetOnly({a})
              /\ UNCHANGED <<cdr, rows>>
      BY <1>10, UpsertDoes
    <2>2. Used(a)
      BY <2>1 DEF OnceUsed, Pending
    <2>3. Sane /\ Fresh
      BY <1>6, <2>1, <2>2 DEF OnceUsed, AssetOnly, RowsKept
    <2> QED BY <1>1, <1>2, <1>3, <1>4, <1>5, <1>6, <2>1, <2>3 DEF RowsKept
  <1>11. ASSUME NEW w \in Workers, patch_status(w) PROVE OnceUsed' /\ OneTag'
    <2>1. PICK a \in Assets :
              /\ collectLinked(a) /\ Finished(w)
              /\ \A t \in Serials : cdr'[t].tag = cdr[t].tag
      BY <1>11, UnassignDoes DEF CdrOnly
    <2> QED BY <1>1, <1>2, <1>3, <1>4, <1>5, <1>8, <2>1
  <1>12. ASSUME NEW w \in Workers, post_customerDevices(w) PROVE OnceUsed' /\ OneTag'
    <2>1. /\ UNCHANGED asset /\ RowsKept /\ Finished(w)
          /\ \A t \in Serials : cdr'[t].tag \in {cdr[t].tag, None}
      BY <1>12, DeviceDoes DEF CdrOnly
    <2> QED BY <1>1, <1>2, <1>3, <1>4, <1>5, <1>7, <2>1 DEF RowsKept
  <1>13. ASSUME NEW w \in Workers, post_exchange(w) PROVE OnceUsed' /\ OneTag'
    <2>1. PICK s \in Serials, n \in Serials :
              /\ UNCHANGED rows /\ Finished(w)
              /\ \A t \in Serials : cdr'[t].tag \in {cdr[t].tag, None}
              /\ \/ UNCHANGED asset
                 \/ \E a \in findCpeAsset(s) :
                       /\ asset'[a].serial = n /\ asset'[a].status = asset[a].status
                       /\ AssetOnly({a})
      BY <1>13, ExchangeDoes
    <2>2. \A a \in findCpeAsset(s) : a \in Assets /\ asset[a].status # "NONE"
      BY <1>0 DEF findCpeAsset, OnceUsed
    <2>3. Sane /\ Fresh
      BY <1>6, <1>7, <2>1, <2>2 DEF OnceUsed, AssetOnly, RowsKept
    <2> QED BY <1>1, <1>2, <1>3, <1>4, <1>5, <1>6, <2>1, <2>3 DEF RowsKept
  <1>14. ASSUME NEW a \in Assets, NEW st \in AssetStatuses, setAssignment(a, st)
         PROVE  OnceUsed' /\ OneTag'
    <2>1. Sane /\ Fresh
      BY <1>6, <1>14, AssignDoes DEF OnceUsed, AssetOnly, RowsKept
    <2> QED BY <1>1, <1>2, <1>3, <1>4, <1>6, <1>14, <2>1, AssignDoes DEF RowsKept
  <1>15. ASSUME NEW s \in Serials, NEW st \in PatchStatuses, patch_status2(s, st)
         PROVE  OnceUsed' /\ OneTag'
    <2>1. UNCHANGED req /\ \A t \in Serials : cdr'[t].tag = cdr[t].tag
      BY <1>15, MenuDoes DEF CdrOnly
    <2>2. Sane /\ Fresh /\ \A b \in Assets : Used(b) => Used(b)'
      BY <1>7, <1>8, <1>15, MenuDoes DEF RowsKept
    <2> QED BY <1>1, <1>2, <1>3, <1>4, <2>1, <2>2
  <1>16. ASSUME Quiet PROVE OnceUsed' /\ OneTag'
    BY <1>1, <1>2, <1>3, <1>4, <1>6, <1>7, <1>16 DEF Quiet, RowsKept
  <1> QED BY <1>9, <1>10, <1>11, <1>12, <1>13, <1>14, <1>15, <1>16, EveryStep,
         StruckStays

-----------------------------------------------------------------------------
(* Each step, as long as no unit is struck. *)

LEMMA DeploySound ==
    ASSUME TypeOK, TypeOK', OnceUsed, Sound, NEW w \in Workers, NEW a \in Assets,
           NEW s \in Serials, NEW p \in Places, post_assets(w, a, s, p), Unstruck'
    PROVE  Sound'
  <1> USE DEF Sound, Records
  <1>0. /\ ~Used(a) /\ reg[s].status = "IN_STOCK" /\ qoh' = qoh - 1
        /\ reg'[s].status = p /\ p \in Out /\ RegOnly({s})
        /\ cdr'[s] = cdr[s] \/ (cdr[s].status # "ASSIGNED" /\ cdr'[s].status = "ASSIGNED"
                                 /\ cdr'[s].tag = a)
        /\ CdrOnly({s}) /\ UNCHANGED asset
        /\ Pending(w, a, s)' /\ ReqOnly(w)
        /\ \A b \in Assets : (Used(b)' <=> Used(b) \/ b = a) /\ (Credited(b)' <=> Credited(b))
    BY DeployDoes
  <1>1. "IN_STOCK" \notin Out /\ None \notin Assets /\ None \notin Serials
    BY DevicesAssumption DEF Out
  <1>2. asset[a].status = "NONE" /\ ~Credited(a) /\ \A t \in Serials : cdr[t].tag # a
    BY <1>0 DEF OnceUsed
  <1>3. ActiveIsOut'
    BY <1>0, <1>1 DEF ActiveIsOut, RegOnly, CdrOnly
  <1>4. TagNames'
    BY <1>0, <1>2 DEF TagNames, CdrOnly, Open
  <1>5. \A b \in Assets : asset[b].serial # s
    BY <1>0, <1>1 DEF NamedOut
  <1>6. Creditable'
    BY <1>0, <1>5 DEF Creditable, CdrOnly
  <1>7. GivenBack'
    BY <1>0 DEF GivenBack
  <1>8. StillUnwritten'
    <2>1. \A v \in Workers, b \in Assets, t \in Serials : Pending(v, b, t) => b # a /\ t # s
      <3>1. \A v \in Workers, b \in Assets, t \in Serials : Pending(v, b, t) => Used(b)
        BY DEF OnceUsed, Pending
      <3> QED BY <1>0, <1>1, <3>1 DEF StillUnwritten
    <2>2. \A v \in Workers, b \in Assets, t \in Serials :
              Pending(v, b, t)' => \/ Pending(v, b, t) /\ v # w
                                   \/ v = w /\ b = a /\ t = s
      BY <1>0 DEF Pending, ReqOnly
    <2> SUFFICES ASSUME NEW v \in Workers, NEW b \in Assets, NEW t \in Serials,
                        Pending(v, b, t)'
                 PROVE  /\ reg'[t].status \in Out
                        /\ asset'[b].status = "NONE" /\ ~Credited(b)'
                        /\ \A c \in Assets : asset'[c].serial # t
                        /\ \A u \in Serials : cdr'[u].tag = b => u = t
                        /\ \A x \in Workers, c \in Assets, u \in Serials :
                              Pending(x, c, u)' /\ x # v => c # b /\ u # t
      BY DEF StillUnwritten
    <2>3. CASE v = w /\ b = a /\ t = s
      <3>1. \A u \in Serials : cdr'[u].tag = a => u = s
        BY <1>0, <1>2 DEF CdrOnly
      <3> QED BY <1>0, <1>2, <1>5, <2>1, <2>2, <2>3, <3>1
    <2>4. CASE Pending(v, b, t) /\ v # w
      <3>1. b # a /\ t # s
        BY <2>1, <2>4
      <3>2. reg'[t].status \in Out
        BY <1>0, <2>4, <3>1 DEF StillUnwritten, RegOnly
      <3>3. /\ asset'[b].status = "NONE" /\ ~Credited(b)'
            /\ \A c \in Assets : asset'[c].serial # t
        BY <1>0, <2>4 DEF StillUnwritten
      <3>4. \A u \in Serials : cdr'[u].tag = b => u = t
        BY <1>0, <2>4, <3>1 DEF StillUnwritten, CdrOnly
      <3>5. \A x \in Workers, c \in Assets, u \in Serials :
                Pending(x, c, u)' /\ x # v => c # b /\ u # t
        BY <2>2, <2>4, <3>1 DEF StillUnwritten
      <3> QED BY <3>2, <3>3, <3>4, <3>5
    <2> QED BY <2>2, <2>3, <2>4
  <1>9. NamedOut'
    BY <1>0, <1>5 DEF NamedOut, RegOnly
  <1>10. NamedOnce'
    BY <1>0 DEF NamedOnce
  <1>11. Counted'
    <2>1. Cardinality(Shelf') = Cardinality(Shelf) - 1
      BY <1>0, <1>1, ShelfCounts DEF RegOnly, TypeOK, RegisterTyped
    <2> QED BY <1>0, <2>1 DEF Counted
  <1> QED BY <1>3, <1>4, <1>6, <1>7, <1>8, <1>9, <1>10, <1>11

LEMMA UpsertSound ==
    ASSUME TypeOK, OnceUsed, Sound, NEW w \in Workers, upsertAsset(w)
    PROVE  Sound'
  <1> USE DEF Sound, Records
  <1>0. PICK a \in Assets, s \in Serials :
            /\ Pending(w, a, s) /\ Finished(w)
            /\ asset'[a].status = "DEPLOYED" /\ asset'[a].serial = s /\ AssetOnly({a})
            /\ UNCHANGED <<qoh, reg, cdr, rows>>
    BY UpsertDoes
  <1>1. None \notin Assets /\ None \notin Serials
    BY DevicesAssumption
  <1>2. /\ reg[s].status \in Out /\ asset[a].status = "NONE" /\ ~Credited(a)
        /\ \A b \in Assets : asset[b].serial # s
        /\ \A t \in Serials : cdr[t].tag = a => t = s
        /\ \A v \in Workers, b \in Assets, t \in Serials :
              Pending(v, b, t) /\ v # w => b # a /\ t # s
    BY <1>0 DEF StillUnwritten
  <1>3. \A b \in Assets : Credited(b)' <=> Credited(b)
    BY <1>0 DEF Credited
  <1>4. ActiveIsOut' /\ Counted'
    BY <1>0 DEF ActiveIsOut, Counted, Shelf
  <1>5. TagNames'
    BY <1>0, <1>2 DEF TagNames, Open, AssetOnly
  <1>6. Creditable'
    BY <1>0, <1>2, <1>3 DEF Creditable, AssetOnly
  <1>7. GivenBack'
    BY <1>0, <1>1, <1>3 DEF GivenBack, AssetOnly
  <1>8. StillUnwritten'
    <2>1. \A v \in Workers, b \in Assets, t \in Serials :
              Pending(v, b, t)' => Pending(v, b, t) /\ v # w
      BY <1>0 DEF Pending, Finished, ReqOnly
    <2> QED BY <1>0, <1>2, <1>3, <2>1 DEF StillUnwritten, AssetOnly
  <1>9. NamedOut'
    BY <1>0, <1>2 DEF NamedOut, AssetOnly
  <1>10. NamedOnce'
    BY <1>0, <1>2 DEF NamedOnce, AssetOnly
  <1> QED BY <1>4, <1>5, <1>6, <1>7, <1>8, <1>9, <1>10

LEMMA AssignSound ==
    ASSUME TypeOK, OnceUsed, Sound, NEW a \in Assets, NEW st \in AssetStatuses,
           setAssignment(a, st), Unstruck'
    PROVE  Sound'
  <1> USE DEF Sound, Records
  <1>0. /\ asset[a].status # "NONE" /\ asset'[a].status # "NONE"
        /\ asset'[a].serial = asset[a].serial /\ AssetOnly({a})
        /\ UNCHANGED <<qoh, reg, cdr, rows, req>>
        /\ asset[a].serial = None \/ asset'[a].status = "DEPLOYED"
    BY AssignDoes
  <1>1. \A b \in Assets : /\ asset'[b].serial = asset[b].serial
                          /\ asset'[b].status = "NONE" <=> asset[b].status = "NONE"
    BY <1>0 DEF AssetOnly
  <1>2. (\A b \in Assets : Credited(b)' <=> Credited(b)) /\ None \notin Serials
    BY <1>0, DevicesAssumption DEF Credited
  <1>3. ActiveIsOut' /\ Counted'
    BY <1>0 DEF ActiveIsOut, Counted, Shelf
  <1>4. TagNames' /\ GivenBack'
    BY <1>0, <1>1, <1>2 DEF TagNames, Open, GivenBack
  <1>5. Creditable'
    BY <1>0, <1>1, <1>2 DEF Creditable, AssetOnly
  <1>6. StillUnwritten'
    BY <1>0, <1>1, <1>2 DEF StillUnwritten, Pending
  <1>7. NamedOut' /\ NamedOnce'
    BY <1>0, <1>1 DEF NamedOut, NamedOnce
  <1> QED BY <1>3, <1>4, <1>5, <1>6, <1>7

LEMMA QuietSound ==
    ASSUME Sound, Quiet
    PROVE  Sound'
  <1> USE DEF Sound, Records
  <1>1. \A v \in Workers, b \in Assets, t \in Serials : Pending(v, b, t)' => Pending(v, b, t)
    BY DEF Quiet, Pending
  <1>2. StillUnwritten'
    BY <1>1 DEF StillUnwritten, Quiet, Credited
  <1>3. ActiveIsOut' /\ TagNames' /\ Counted'
    BY DEF ActiveIsOut, TagNames, Open, Counted, Shelf, Quiet
  <1>4. Creditable' /\ GivenBack' /\ NamedOut' /\ NamedOnce'
    BY DEF Creditable, GivenBack, NamedOut, NamedOnce, Credited, Quiet
  <1> QED BY <1>2, <1>3, <1>4

LEMMA DeviceSound ==
    ASSUME TypeOK, TypeOK', OnceUsed, Sound, NEW w \in Workers, post_customerDevices(w), Unstruck'
    PROVE  Sound'
  <1> USE DEF Sound, Records
  <1>0. PICK s \in Serials :
            /\ Finished(w) /\ UNCHANGED asset /\ RowsKept
            /\ cdr'[s].tag \in {cdr[s].tag, None} /\ CdrOnly({s}) /\ RegOnly({s})
            /\ Open(s) /\ ~unwritten(s)
            /\ \A a \in Assets : asset[a].serial # s
            /\ \/ /\ reg[s].status = "IN_STOCK" /\ reg'[s].status = "CUSTOMER_ASSIGNED"
                  /\ cdr'[s].status = "ASSIGNED"
                  /\ cdr[s].status # "ASSIGNED" => qoh' = qoh - 1
               \/ /\ cdr[s].status = "ASSIGNED" /\ cdr'[s].status = "IN_STOCK"
                  /\ reg'[s].status = "IN_STOCK" /\ qoh' = qoh + 1
               \/ /\ cdr'[s].status = "IN_STOCK" /\ reg'[s].status = reg[s].status
                  /\ reg[s].status = "IN_STOCK" /\ UNCHANGED qoh
    BY DeviceDoes
  <1>1. None \notin Assets /\ None \notin Serials
    BY DevicesAssumption
  <1>2. ActiveIsOut'
    BY <1>0 DEF ActiveIsOut, CdrOnly, RegOnly, Out
  <1>3. TagNames'
    BY <1>0, <1>1 DEF TagNames, Open, CdrOnly
  <1>4. Creditable' /\ GivenBack'
    BY <1>0 DEF Creditable, GivenBack, CdrOnly, RowsKept
  <1>5. StillUnwritten'
    <2>1. \A v \in Workers, b \in Assets, t \in Serials :
              Pending(v, b, t)' => Pending(v, b, t) /\ t # s
      BY <1>0 DEF Pending, Finished, ReqOnly, unwritten
    <2>2. \A t \in Serials : t # s => reg'[t] = reg[t]
      BY <1>0 DEF RegOnly
    <2>3. \A t \in Serials, a \in Assets : cdr'[t].tag = a => cdr[t].tag = a
      BY <1>0, <1>1 DEF CdrOnly
    <2>4. UNCHANGED asset /\ \A a \in Assets : Credited(a)' <=> Credited(a)
      BY <1>0 DEF RowsKept
    <2> QED BY <2>1, <2>2, <2>3, <2>4 DEF StillUnwritten
  <1>6. NamedOut' /\ NamedOnce'
    BY <1>0 DEF NamedOut, NamedOnce, RegOnly
  <1>7. Counted'
    <2>1. \A t \in Serials \ {s} : reg'[t].status = reg[t].status
      BY <1>0 DEF RegOnly
    <2>2. cdr[s].status = "ASSIGNED" => reg[s].status # "IN_STOCK"
      BY DEF ActiveIsOut, Out
    <2>3. RegisterTyped /\ RegisterTyped'
      BY DEF TypeOK, RegisterTyped
    <2> QED BY <1>0, <2>1, <2>2, <2>3, ShelfCounts DEF Counted
  <1> QED BY <1>2, <1>3, <1>4, <1>5, <1>6, <1>7

(* An asset's unit comes back and its record u is closed or released.      *)
LEMMA ReturnSound ==
    ASSUME TypeOK, TypeOK', OnceUsed, Sound, NEW a \in Assets, NEW s \in Serials,
           asset[a].serial = s, asset[a].status = "DEPLOYED", ~Credited(a), collectLinked(a),
           reg[s].status \in Out, reg'[s].status = "IN_STOCK", RegOnly({s}),
           NEW u \in Serials, CdrOnly({u}), cdr'[u].tag = cdr[u].tag, u = s \/ cdr[u].tag = a,
           cdr'[u].status = "ASSIGNED" => cdr[u].status = "ASSIGNED",
           cdr'[s].status # "ASSIGNED", Open(u)' => Open(u),
           \A v \in Workers : req'[v].kind = "upsert" => req'[v] = req[v]
    PROVE  Sound'
  <1> USE DEF Sound, Records
  <1>0. /\ AssetOnly({a}) /\ asset'[a].status = "ACTIVE" /\ asset'[a].serial = None
        /\ qoh' = qoh + 1
        /\ \A b \in Assets : /\ Used(b)' <=> Used(b)
                             /\ Credited(b)' <=> Credited(b) \/ b = a
    BY CollectDoes
  <1>1. None \notin Assets /\ None \notin Serials
    BY DevicesAssumption
  <1>2. \A t \in Serials : t # u => cdr'[t] = cdr[t]
    BY DEF CdrOnly
  <1>3. \A b \in Assets : b # a => asset'[b] = asset[b] /\ asset[b].serial # s
    BY <1>0 DEF AssetOnly, NamedOnce
  <1>4. ActiveIsOut'
    BY <1>2 DEF ActiveIsOut, RegOnly
  <1>5. TagNames'
    BY <1>0, <1>2, <1>3 DEF TagNames, Open
  <1>6. Creditable'
    BY <1>0, <1>1, <1>2, <1>3 DEF Creditable
  <1>7. GivenBack'
    BY <1>0, <1>3 DEF GivenBack
  <1>8. StillUnwritten'
    <2>1. \A v \in Workers, b \in Assets, t \in Serials :
              Pending(v, b, t)' => Pending(v, b, t) /\ t # s /\ b # a
      BY DEF Pending, StillUnwritten
    <2>2. \A t \in Serials : t # s => reg'[t] = reg[t]
      BY DEF RegOnly
    <2>3. \A t \in Serials : cdr'[t].tag = cdr[t].tag
      BY <1>2
    <2> QED BY <1>0, <1>1, <1>3, <2>1, <2>2, <2>3 DEF StillUnwritten
  <1>9. NamedOut'
    BY <1>0, <1>1, <1>3 DEF NamedOut, RegOnly
  <1>10. NamedOnce'
    BY <1>0, <1>1, <1>3 DEF NamedOnce
  <1>11. Counted'
    <2>1. \A t \in Serials \ {s} : reg'[t].status = reg[t].status
      BY DEF RegOnly
    <2>2. reg[s].status # "IN_STOCK"
      BY DEF Out
    <2>3. RegisterTyped /\ RegisterTyped'
      BY DEF TypeOK, RegisterTyped
    <2> QED BY <1>0, <2>1, <2>2, <2>3, ShelfCounts DEF Counted
  <1> QED BY <1>4, <1>5, <1>6, <1>7, <1>8, <1>9, <1>10, <1>11

(* A record is closed, and no unit moves.                                  *)
LEMMA CloseSound ==
    ASSUME TypeOK, OnceUsed, Sound, UNCHANGED <<reg, qoh, rows>>,
           \A b \in Assets : /\ asset'[b].serial = asset[b].serial
                             /\ asset'[b].status = "NONE" <=> asset[b].status = "NONE"
                             /\ asset[b].serial \in Serials => asset'[b] = asset[b],
           NEW u \in Serials, CdrOnly({u}), cdr'[u].tag = cdr[u].tag,
           cdr'[u] = cdr[u] \/ cdr'[u].status \in {"COLLECTED", "EXCHANGED"},
           \A v \in Workers : req'[v].kind = "upsert" => req'[v] = req[v]
    PROVE  Sound'
  <1> USE DEF Sound, Records
  <1>1. /\ None \notin Assets /\ None \notin Serials
        /\ \A b \in Assets : Credited(b)' <=> Credited(b)
    BY DevicesAssumption DEF Credited
  <1>2. /\ \A t \in Serials : t # u => cdr'[t] = cdr[t]
        /\ \A t \in Serials : cdr'[t].tag = cdr[t].tag
    BY DEF CdrOnly
  <1>3. ActiveIsOut' /\ Counted'
    BY <1>2 DEF ActiveIsOut, Counted, Shelf
  <1>4. TagNames'
    BY <1>2 DEF TagNames, Open
  <1>5. Creditable'
    BY <1>1, <1>2 DEF Creditable
  <1>6. GivenBack' /\ NamedOut' /\ NamedOnce'
    BY <1>1 DEF GivenBack, NamedOut, NamedOnce
  <1>7. StillUnwritten'
    <2>1. \A v \in Workers, b \in Assets, t \in Serials : Pending(v, b, t)' => Pending(v, b, t)
      BY DEF Pending
    <2> QED BY <1>1, <1>2, <2>1 DEF StillUnwritten
  <1> QED BY <1>3, <1>4, <1>5, <1>6, <1>7

LEMMA UnassignSound ==
    ASSUME TypeOK, TypeOK', OnceUsed, OneTag, Sound, NEW w \in Workers, patch_status(w),
           Unstruck'
    PROVE  Sound'
  <1>0. PICK a \in Assets, s \in Serials \cup {None} :
            /\ collectLinked(a) /\ Finished(w)
            /\ \/ UNCHANGED cdr /\ \A t \in Serials : cdr[t].tag = a => ~Open(t)
               \/ \E t \in Serials : /\ cdr[t].tag = a /\ cdr'[t].tag = a
                                     /\ cdr'[t].status = "COLLECTED" /\ CdrOnly({t})
            /\ \/ /\ s \in Serials /\ reg[s].status \in Out
                  /\ reg'[s].status = "IN_STOCK" /\ RegOnly({s})
               \/ UNCHANGED reg /\ (s \in Serials => reg[s].status \notin Out)
            /\ asset[a].serial # s =>
                  /\ asset[a].status # "DEPLOYED"
                  /\ s \in Serials => reg[s].status \notin Out
            /\ s \in Serials /\ reg[s].status \in Out => ~Credited(a)
            /\ s \in Serials /\ cdr[s].status = "ASSIGNED" => cdr[s].tag = a
    BY UnassignDoes
  <1>1. None \notin Assets /\ None \notin Serials
    BY DevicesAssumption
  <1>2. \A v \in Workers : req'[v].kind = "upsert" => req'[v] = req[v]
    BY <1>0 DEF Finished, ReqOnly
  <1>3. Creditable /\ GivenBack /\ NamedOut
    BY DEF Sound, Records
  <1>4. CASE s \in Serials /\ asset[a].serial = s
    <2>1. reg[s].status \in Out /\ reg'[s].status = "IN_STOCK" /\ RegOnly({s})
      BY <1>0, <1>3, <1>4 DEF NamedOut
    <2>2. asset[a].status = "DEPLOYED" /\ ~Credited(a)
      BY <1>0, <1>3, <1>4, <2>1 DEF Creditable
    <2>3. CASE UNCHANGED cdr /\ \A t \in Serials : cdr[t].tag = a => ~Open(t)
      <3>1. cdr'[s].status # "ASSIGNED" /\ CdrOnly({s})
        BY <1>0, <1>4, <2>3 DEF Open, CdrOnly
      <3> QED BY <1>0, <1>2, <1>4, <2>1, <2>2, <2>3, <3>1, ReturnSound DEF Open
    <2>4. ASSUME NEW u \in Serials, cdr[u].tag = a, cdr'[u].tag = a,
                 cdr'[u].status = "COLLECTED", CdrOnly({u})
          PROVE  Sound'
      <3>1. cdr'[s].status # "ASSIGNED"
        BY <1>0, <1>1, <1>4, <2>4 DEF OneTag, CdrOnly
      <3>2. ~Open(u)'
        BY <2>4 DEF Open
      <3> QED BY <1>0, <1>2, <1>4, <2>1, <2>2, <2>4, <3>1, <3>2, ReturnSound
    <2> QED BY <1>0, <2>3, <2>4
  <1>5. CASE ~(s \in Serials /\ asset[a].serial = s)
    <2>1. UNCHANGED reg
      BY <1>0, <1>5
    <2>2. /\ UNCHANGED <<qoh, rows>>
          /\ \A b \in Assets : /\ asset'[b].serial = asset[b].serial
                               /\ asset'[b].status = "NONE" <=> asset[b].status = "NONE"
                               /\ asset[b].serial \in Serials => asset'[b] = asset[b]
      <3>1. CASE asset[a].serial # s
        BY <1>0, <3>1, CollectDoes
      <3>2. CASE asset[a].serial = s
        <4>1. s = None /\ (asset[a].status = "DEPLOYED" => Credited(a))
          BY <1>3, <1>5, <3>2 DEF GivenBack
        <4>2. \/ UNCHANGED <<asset, qoh, rows>>
              \/ /\ asset[a].status = "DEPLOYED" /\ asset'[a].status = "ACTIVE"
                 /\ asset'[a].serial = None /\ UNCHANGED <<qoh, rows>> /\ AssetOnly({a})
          BY <1>0, <4>1, CollectDoes
        <4> QED BY <1>1, <3>2, <4>1, <4>2 DEF AssetOnly
      <3> QED BY <3>1, <3>2
    <2>3. CASE UNCHANGED cdr
      <3>1. PICK u \in Serials : TRUE
        BY DevicesAssumption
      <3> QED BY <1>2, <2>1, <2>2, <2>3, <3>1, CloseSound DEF CdrOnly
    <2>4. ASSUME NEW u \in Serials, cdr[u].tag = a, cdr'[u].tag = a,
                 cdr'[u].status = "COLLECTED", CdrOnly({u})
          PROVE  Sound'
      BY <1>2, <2>1, <2>2, <2>4, CloseSound
    <2> QED BY <1>0, <2>3, <2>4
  <1> QED BY <1>4, <1>5

LEMMA MenuSound ==
    ASSUME TypeOK, TypeOK', OnceUsed, OneTag, Sound, NEW s \in Serials,
           NEW st \in PatchStatuses, patch_status2(s, st), Unstruck'
    PROVE  Sound'
  <1>0. /\ UNCHANGED req
        /\ cdr'[s].status = st /\ cdr'[s].tag = cdr[s].tag /\ CdrOnly({s})
        /\ IF st = "EXCHANGED" THEN UNCHANGED reg
           ELSE reg'[s].status = serialStatusFor(st) /\ RegOnly({s})
        /\ cdr[s].status = "ASSIGNED" /\ ~unwritten(s)
        /\ \/ st \in {"ASSIGNED", "EXCHANGED"} /\ UNCHANGED <<qoh, rows, asset>>
           \/ /\ Collects(st) /\ UNCHANGED asset /\ RowsKept /\ qoh' = qoh + 1
              /\ \A a \in Assets : asset[a].serial # s
           \/ /\ Collects(st)
              /\ \E a \in findCpeAsset(s) : collectLinked(a) /\ isDeployed(a) /\ ~Credited(a)
    BY MenuDoes
  <1>1. None \notin Assets /\ None \notin Serials
    BY DevicesAssumption
  <1>2. reg[s].status \in Out /\ Open(s)
    BY <1>0 DEF Sound, Records, ActiveIsOut, Open
  <1>10. CASE st = "EXCHANGED"
    <2>1. UNCHANGED <<reg, qoh, rows, asset>>
      BY <1>0, <1>10 DEF Collects
    <2> QED BY <1>0, <1>10, <2>1, CloseSound
  <1> SUFFICES ASSUME st # "EXCHANGED" PROVE Sound'
    BY <1>10
  <1>3. st # "ASSIGNED" => reg'[s].status = "IN_STOCK"
    BY <1>0 DEF serialStatusFor
  <1>4. \A v \in Workers, b \in Assets, t \in Serials :
            Pending(v, b, t)' => Pending(v, b, t) /\ t # s
    BY <1>0 DEF Pending, unwritten
  <1>5. /\ \A t \in Serials : t # s => reg'[t] = reg[t] /\ cdr'[t] = cdr[t]
        /\ \A t \in Serials : cdr'[t].tag = cdr[t].tag
    BY <1>0 DEF RegOnly, CdrOnly
  <1>6. RegisterTyped /\ RegisterTyped' /\ \A t \in Serials \ {s} : reg'[t].status = reg[t].status
    BY <1>5 DEF TypeOK, RegisterTyped
  <1>7. CASE UNCHANGED asset /\ RowsKept /\ (st = "ASSIGNED" \/ \A a \in Assets : asset[a].serial # s)
             /\ qoh' = (IF st = "ASSIGNED" THEN qoh ELSE qoh + 1)
    <2> USE DEF Sound, Records
    <2>1. st = "ASSIGNED" => reg'[s].status = "CUSTOMER_ASSIGNED"
      BY <1>0 DEF serialStatusFor
    <2>2. ActiveIsOut'
      BY <1>0, <1>5, <2>1 DEF ActiveIsOut, Out
    <2>3. TagNames'
      BY <1>2, <1>5, <1>7 DEF TagNames, Open
    <2>4. Creditable' /\ GivenBack'
      BY <1>0, <1>5, <1>7 DEF Creditable, GivenBack, RowsKept
    <2>5. StillUnwritten'
      BY <1>4, <1>5, <1>7 DEF StillUnwritten, RowsKept
    <2>6. NamedOut' /\ NamedOnce'
      BY <1>5, <1>7, <2>1 DEF NamedOut, NamedOnce, Out
    <2>7. Counted'
      <3>1. reg[s].status # "IN_STOCK"
        BY <1>2 DEF Out
      <3> QED BY <1>3, <1>6, <1>7, <2>1, <3>1, ShelfCounts DEF Counted
    <2> QED BY <2>2, <2>3, <2>4, <2>5, <2>6, <2>7
  <1>8. ASSUME st # "ASSIGNED", NEW a \in findCpeAsset(s), collectLinked(a), isDeployed(a),
               ~Credited(a)
        PROVE  Sound'
    <2>1. a \in Assets /\ (asset[a].serial = s \/ cdr[s].tag = a)
      BY DEF findCpeAsset
    <2>2. asset[a].serial = s
      BY <1>2, <1>8, <2>1 DEF Sound, Records, TagNames, GivenBack, isDeployed
    <2>3. \A v \in Workers : req'[v].kind = "upsert" => req'[v] = req[v]
      BY <1>0
    <2> QED BY <1>0, <1>2, <1>3, <1>8, <2>1, <2>2, <2>3, ReturnSound DEF isDeployed
  <1>9. UNCHANGED rows => RowsKept
    BY DEF RowsKept, Used, Credited
  <1> QED BY <1>0, <1>7, <1>8, <1>9 DEF Collects

LEMMA ExchangeSound ==
    ASSUME TypeOK, TypeOK', OnceUsed, OneTag, Sound, NEW w \in Workers, post_exchange(w),
           Unstruck'
    PROVE  Sound'
  <1> USE DEF Sound, Records
  <1>0. PICK s \in Serials, n \in Serials :
            /\ Finished(w) /\ UNCHANGED rows
            /\ reg[n].status = "IN_STOCK"
            /\ \A t \in Serials : cdr'[t].tag \in {cdr[t].tag, None}
            /\ \/ UNCHANGED asset /\ findCpeAsset(s) = {}
               \/ \E a \in findCpeAsset(s) :
                     /\ asset'[a].serial = n /\ asset'[a].status = asset[a].status
                     /\ AssetOnly({a})
            /\ cdr[s].status = "ASSIGNED" /\ ~unwritten(s)
            /\ s # n =>
                  /\ \/ reg'[s].status = "IN_STOCK" /\ qoh' = qoh
                     \/ reg'[s].status = "DAMAGED" /\ qoh' = qoh - 1
                  /\ reg'[n].status = "CUSTOMER_ASSIGNED" /\ RegOnly({s, n})
                  /\ cdr'[s].status = "EXCHANGED" /\ cdr'[s].tag = cdr[s].tag
                  /\ \/ cdr[n].status = "ASSIGNED"
                     \/ cdr'[n].status = "ASSIGNED" /\ cdr'[n].tag = None
                  /\ CdrOnly({s, n})
    BY ExchangeDoes
  <1>1. None \notin Assets /\ None \notin Serials
    BY DevicesAssumption
  <1>2. /\ reg[s].status \in Out /\ reg[s].status # "IN_STOCK" /\ s # n
        /\ cdr[n].status # "ASSIGNED"
    BY <1>0 DEF ActiveIsOut, Out
  <1>3. /\ \/ reg'[s].status = "IN_STOCK" /\ qoh' = qoh
           \/ reg'[s].status = "DAMAGED" /\ qoh' = qoh - 1
        /\ reg'[n].status = "CUSTOMER_ASSIGNED"
        /\ \A t \in Serials : t # s /\ t # n => reg'[t] = reg[t] /\ cdr'[t] = cdr[t]
        /\ cdr'[s].status = "EXCHANGED" /\ cdr'[s].tag = cdr[s].tag
        /\ cdr'[n].status = "ASSIGNED" /\ cdr'[n].tag = None
    BY <1>0, <1>2 DEF RegOnly, CdrOnly
  <1>4. \A b \in Assets : Credited(b)' <=> Credited(b)
    BY <1>0 DEF Credited
  <1>5. \A b \in Assets : asset[b].serial # n
    BY <1>0 DEF NamedOut, Out
  <1>6. \/ UNCHANGED asset /\ \A b \in Assets : asset[b].serial # s
        \/ \E a \in Assets :
              /\ asset[a].serial = s \/ (cdr[s].tag = a /\ asset[a].status # "NONE"
                                          /\ \A b \in Assets : asset[b].serial # s)
              /\ asset'[a].serial = n /\ asset'[a].status = asset[a].status
              /\ asset[a].status # "NONE"
              /\ \A b \in Assets : b # a => asset'[b] = asset[b] /\ asset[b].serial # s
    <2>1. CASE UNCHANGED asset /\ findCpeAsset(s) = {}
      BY <2>1 DEF findCpeAsset
    <2>2. ASSUME NEW a \in findCpeAsset(s), asset'[a].serial = n,
                 asset'[a].status = asset[a].status, AssetOnly({a})
          PROVE  /\ a \in Assets
                 /\ asset[a].serial = s \/ (cdr[s].tag = a /\ asset[a].status # "NONE"
                                             /\ \A b \in Assets : asset[b].serial # s)
                 /\ asset[a].status # "NONE"
                 /\ \A b \in Assets : b # a => asset'[b] = asset[b] /\ asset[b].serial # s
      <3>1. /\ a \in Assets
            /\ asset[a].serial = s \/ (cdr[s].tag = a /\ asset[a].status # "NONE"
                                        /\ \A b \in Assets : asset[b].serial # s)
        BY DEF findCpeAsset
      <3>2. asset[a].status # "NONE"
        BY <1>1, <3>1 DEF OnceUsed
      <3>3. \A b \in Assets : b # a => asset'[b] = asset[b] /\ asset[b].serial # s
        BY <2>2, <3>1 DEF AssetOnly, NamedOnce
      <3> QED BY <3>1, <3>2, <3>3
    <2> QED BY <1>0, <2>1, <2>2
  <1>7. /\ \A b \in Assets, t \in Serials :
              asset'[b].serial = t => t = n \/ (t # s /\ asset[b].serial = t /\ asset'[b] = asset[b])
        /\ \A b \in Assets : asset'[b].status = asset[b].status
        /\ \A b \in Assets : asset'[b].serial = asset[b].serial \/ asset'[b].serial = n
    BY <1>6
  <1>8. ActiveIsOut'
    BY <1>3 DEF ActiveIsOut, Out
  <1>9. TagNames'
    <2> SUFFICES ASSUME NEW t \in Serials, NEW a \in Assets, Open(t)', cdr'[t].tag = a,
                        asset'[a].status # "NONE"
                 PROVE  asset'[a].serial \in {t, None}
      BY DEF TagNames
    <2>1. t # s /\ t # n /\ cdr'[t] = cdr[t]
      BY <1>1, <1>3 DEF Open
    <2>2. asset[a].serial \in {t, None}
      BY <1>7, <2>1 DEF TagNames, Open
    <2>3. asset[a].serial # s /\ cdr[s].tag # a
      BY <1>1, <2>1, <2>2 DEF OneTag
    <2>4. asset'[a] = asset[a]
      BY <1>6, <2>3
    <2> QED BY <2>2, <2>4
  <1>10. Creditable'
    <2>1. \A a \in Assets : asset[a].serial = s => asset[a].status = "DEPLOYED" \/ Credited(a)
      BY DEF Creditable
    <2>2. ASSUME NEW a \in Assets, cdr[s].tag = a, asset[a].status # "NONE", asset[a].serial # s
          PROVE  Credited(a)
      BY <1>0, <2>2 DEF TagNames, GivenBack, Open
    <2>3. \A a \in Assets : asset'[a].serial = n => asset[a].status = "DEPLOYED" \/ Credited(a)
      BY <1>5, <1>6, <2>1, <2>2
    <2> QED BY <1>4, <1>7, <2>3 DEF Creditable
  <1>11. GivenBack'
    BY <1>1, <1>4, <1>7 DEF GivenBack
  <1>12. StillUnwritten'
    <2>1. \A v \in Workers, b \in Assets, t \in Serials :
              Pending(v, b, t)' => Pending(v, b, t) /\ t # s /\ t # n
      <3>1. \A v \in Workers, b \in Assets, t \in Serials :
                Pending(v, b, t)' => Pending(v, b, t) /\ t # s
        BY <1>0 DEF Pending, Finished, ReqOnly, unwritten
      <3> QED BY <1>0, <3>1 DEF StillUnwritten, Out
    <2>2. \A t \in Serials, a \in Assets : cdr'[t].tag = a => cdr[t].tag = a
      BY <1>0, <1>1
    <2>3. \A t \in Serials : t # s /\ t # n => reg'[t] = reg[t]
      BY <1>3
    <2> QED BY <1>4, <1>7, <2>1, <2>2, <2>3 DEF StillUnwritten
  <1>13. NamedOut'
    BY <1>3, <1>7 DEF NamedOut, Out
  <1>14. NamedOnce'
    BY <1>5, <1>6 DEF NamedOnce
  <1>15. Counted'
    <2>1. IsFiniteSet(Shelf) /\ n \in Shelf /\ s \notin Shelf
      <3>1. Shelf \subseteq Serials
        BY DEF Shelf
      <3> QED BY <1>0, <1>2, <3>1, DevicesAssumption, FS_Subset DEF Shelf
    <2> DEFINE Rest == Shelf \ {n}
    <2>2. /\ IsFiniteSet(Rest) /\ Cardinality(Rest) = Cardinality(Shelf) - 1
          /\ Cardinality(Shelf) \in Nat /\ s \notin Rest
      BY <2>1, FS_RemoveElement, FS_CardinalityType
    <2>3. CASE reg'[s].status = "IN_STOCK" /\ qoh' = qoh
      <3>1. Shelf' = Rest \cup {s}
        BY <1>2, <1>3, <2>3 DEF Shelf
      <3>2. Cardinality(Shelf') = Cardinality(Rest) + 1
        BY <2>2, <3>1, FS_AddElement
      <3> QED BY <2>2, <2>3, <3>2 DEF Counted
    <2>4. CASE reg'[s].status = "DAMAGED" /\ qoh' = qoh - 1
      <3>1. Shelf' = Rest
        BY <1>2, <1>3, <2>4 DEF Shelf
      <3> QED BY <2>2, <2>4, <3>1 DEF Counted
    <2> QED BY <1>3, <2>3, <2>4
  <1> QED BY <1>8, <1>9, <1>10, <1>11, <1>12, <1>13, <1>14, <1>15

(* The invariant that carries the two theorems below. *)
UnitsAgree == Unstruck => OnceUsed /\ OneTag /\ Sound

LEMMA UnitsAgreeAlways == Spec => []UnitsAgree
  <1>1. Init => UnitsAgree
    <2> SUFFICES ASSUME Init PROVE UnitsAgree
      OBVIOUS
    <2>1. OnceUsed /\ OneTag
      BY DevicesAssumption DEF Init, OnceUsed, OneTag, Used, Credited, Idle
    <2>2. /\ ActiveIsOut /\ TagNames /\ Creditable /\ GivenBack
          /\ NamedOut /\ NamedOnce
      BY DevicesAssumption
      DEF Init, ActiveIsOut, TagNames, Creditable, GivenBack, NamedOut, NamedOnce
    <2>3. StillUnwritten
      BY DEF Init, StillUnwritten, Pending, Idle
    <2>4. Shelf = Serials /\ qoh = Cardinality(Serials)
      BY DEF Init, Shelf
    <2> QED BY <2>1, <2>2, <2>3, <2>4 DEF UnitsAgree, Sound, Records, Counted
  <1>2. TypeOK /\ TypeOK' /\ UnitsAgree /\ [Next]_vars => UnitsAgree'
    <2> SUFFICES ASSUME TypeOK, TypeOK', UnitsAgree, [Next]_vars PROVE UnitsAgree'
      OBVIOUS
    <2> SUFFICES ASSUME Unstruck' PROVE OnceUsed' /\ OneTag' /\ Sound'
      BY DEF UnitsAgree
    <2>1. OnceUsed /\ OneTag /\ Sound
      <3>1. Unstruck
        BY StruckStays DEF Unstruck
      <3> QED BY <3>1 DEF UnitsAgree
    <2>2. OnceUsed' /\ OneTag'
      BY <2>1, UsedKept
    <2>3. Sound'
      BY <2>1, EveryStep, StruckStays, DeploySound, UpsertSound, UnassignSound,
         DeviceSound, ExchangeSound, AssignSound, MenuSound, QuietSound
    <2> QED BY <2>2, <2>3
  <1> QED BY <1>1, <1>2, TypeCorrect, PTL DEF Spec

(* As many units are IN_STOCK as the stock row has, whatever deployments,  *)
(* assignments, collections, exchanges and crashes overlap, until one of   *)
(* the known defects strikes a unit.                                       *)
THEOREM RegisterFollowsStock == Spec => []RegisterMatchesStock
  <1>1. UnitsAgree => RegisterMatchesStock
    BY DEF UnitsAgree, Sound, Counted, Shelf, Unstruck, RegisterMatchesStock
  <1> QED BY <1>1, UnitsAgreeAlways, PTL

(* A unit that an asset names is out, and no other asset names it: no      *)
(* collection or exchange leaves an asset on a unit that is back on the    *)
(* shelf, until one of the known defects strikes.                          *)
THEOREM AssetsNameUnitsOut == Spec => []AssetNamesUnitOut
  <1>1. TypeOK /\ UnitsAgree => AssetNamesUnitOut
    <2> SUFFICES ASSUME TypeOK, UnitsAgree, known.units = {}, NEW a \in Assets,
                        asset[a].serial # None
                 PROVE  /\ reg[asset[a].serial].status \in Out
                        /\ \A b \in Assets \ {a} : asset[b].serial # asset[a].serial
      BY DEF AssetNamesUnitOut
    <2>1. asset[a].serial \in Serials
      BY DEF TypeOK
    <2>2. NamedOut /\ NamedOnce
      BY DEF UnitsAgree, Unstruck, Sound
    <2> QED BY <2>1, <2>2 DEF NamedOut, NamedOnce
  <1> QED BY <1>1, UnitsAgreeAlways, TypeCorrect, PTL

=============================================================================
