-------------------------- MODULE Addresses_proofs --------------------------
(***************************************************************************)
(* Proofs about Addresses: the state has its type; an address is touched   *)
(* only by requests of its customer; its pincode was approved for it; and  *)
(* a customer whose requests do not overlap has at most one default, and   *)
(* keeps one.                                                              *)
(***************************************************************************)
EXTENDS Addresses, TLAPS

\* What holds between the handlers and the table.
Owner(r) == call[r].user

\* An address is the work of the request it is named after, which is done; a
\* handler that found an address found one of its own customer.
Owned ==
    /\ \A r \in Requests : pc[r] # "idle" /\ call[r].op = "create" => call[r].address = r
    /\ \A a \in DOMAIN addresses :
           /\ pc[a] = "done" /\ call[a].op = "create"
           /\ addresses[a].user = Owner(a)
    /\ \A r \in Requests :
           pc[r] \in {"validate", "clear", "write", "delete"} /\ call[r].op # "create" =>
               pc[call[r].address] = "done" /\ Owner(call[r].address) = Owner(r)
    /\ \A r \in Requests :
           pc[r] = "promote" => pc[next[r]] = "done" /\ Owner(next[r]) = Owner(r)

\* Some request for the address a was told that the pincode is serviceable.
Approved(a, pincode) ==
    \E q \in approved : call[q].address = a /\ call[q].pincode = pincode

\* What a handler is about to write has been approved.
Covered ==
    /\ \A r \in approved : pc[r] # "idle"
    /\ \A r \in Requests :
           pc[r] \in {"clear", "count", "insert", "write"} /\ call[r].pincode # None =>
               Approved(call[r].address, call[r].pincode)
    /\ \A a \in DOMAIN addresses : Approved(a, addresses[a].pincode)

\* Requests of a customer without overlap run alone, and who is about to make
\* an address the default has left none.
Alone ==
    \A u \in Users \ overlapped :
        /\ \A r, q \in InFlight : Owner(r) = u /\ Owner(q) = u => r = q
        /\ \A r \in InFlight : Owner(r) = u =>
              /\ pc[r] \in {"count", "insert", "write"} /\ call[r].isDefault = "true"
                     => Defaults(u) = {}
              /\ pc[r] \in {"choose", "promote"} => Defaults(u) = {}
              /\ pc[r] = "insert" /\ first[r] => AddressesOf(u) = {}

-----------------------------------------------------------------------------
(* Type correctness. *)

LEMMA InitType == Init => TypeOK
  BY DEF Init, TypeOK, ZonesOK, AddressesOK, HandlersOK, NoCall, None, Points

\* A call names a customer and an address, and its kind says what else.
LEMMA CallType ==
  ASSUME NEW c \in Calls
  PROVE  /\ c.op \in {"create", "update", "setDefault", "remove"}
         /\ c.user \in Users /\ c.address \in Requests
         /\ c.pincode \in Pincodes \cup {None}
         /\ c.op = "create" => c.pincode \in Pincodes
         /\ c.op = "setDefault" => c.isDefault = "true" /\ c.pincode = None
  BY DEF Calls, CreateCall, UpdateCall, DefaultCall, RemoveCall

\* A handler that goes to a place of its operation keeps HandlersOK.
LEMMA GotoType ==
  ASSUME HandlersOK, NEW r \in Requests, NEW point, Goto(r, point), call' = call,
         call[r] \in Calls,
         point \in Terminal \cup PointsOf(call[r].op),
         point = "validate" => call[r].pincode \in Pincodes
  PROVE  HandlersOK'
<1>1. point \in Points \cup Terminal
  BY CallType DEF PointsOf, Points
<1>2. point \in Points => point \in PointsOf(call[r].op)
  BY DEF Points, Terminal
<1> QED
  BY <1>1, <1>2 DEF HandlersOK, Goto, Points, Terminal

LEMMA StartType ==
  ASSUME TypeOK, NEW r \in Requests, StartCreate(r) \/ StartOther(r)
  PROVE  TypeOK'
<1>1. PICK c \in Calls, point \in {"find", "validate"} :
          /\ Start(r, c, point)
          /\ point = "validate" => c.op = "create"
          /\ point = "find" => c.op # "create"
  BY DEF StartCreate, StartOther, Calls, CreateCall, UpdateCall, DefaultCall, RemoveCall
<1>2. c.user \in Users /\ c.op \in {"create", "update", "setDefault", "remove"}
      /\ (c.op = "create" => c.pincode \in Pincodes)
  BY CallType
<1>3. point \in PointsOf(c.op)
  BY <1>1, <1>2 DEF PointsOf
<1>4. HandlersOK'
  BY <1>1, <1>2, <1>3 DEF Start, Goto, TypeOK, HandlersOK, Points
<1> QED
  BY <1>1, <1>2, <1>4 DEF Start, TypeOK, ZonesOK, AddressesOK

\* The check that update makes leads where update can be.
LEMMA AfterCheckType ==
  ASSUME HandlersOK, NEW r \in Requests, pc[r] \in {"find", "validate"},
         call[r].op \in {"create", "update"}
  PROVE  AfterCheck(r) \in PointsOf(call[r].op) /\ AfterCheck(r) # "validate"
  BY DEF AfterCheck, PointsOf

\* An UPDATE changes what the request gives, and never whose address it is.
LEMMA ChangedRow ==
  ASSUME NEW row \in Address, NEW c \in Calls
  PROVE  /\ Changed(row, c) \in Address
         /\ Changed(row, c).user = row.user
         /\ Changed(row, c).pincode = IF c.pincode = None THEN row.pincode ELSE c.pincode
         /\ Changed(row, c).isDefault =
                IF c.isDefault = None THEN row.isDefault ELSE c.isDefault = "true"
<1> DEFINE pincode == IF c.pincode = None THEN row.pincode ELSE c.pincode
           isDefault == IF c.isDefault = None THEN row.isDefault ELSE c.isDefault = "true"
<1>1. pincode \in Pincodes
  BY CallType DEF Address
<1>2. isDefault \in BOOLEAN
  BY DEF Address
<1>3. Changed(row, c) = [user |-> row.user, pincode |-> pincode, isDefault |-> isDefault]
  BY Zenon DEF Changed
<1> HIDE DEF pincode, isDefault
<1>4. /\ Changed(row, c) \in Address
      /\ Changed(row, c).user = row.user
      /\ Changed(row, c).pincode = pincode
      /\ Changed(row, c).isDefault = isDefault
  BY <1>1, <1>2, <1>3 DEF Address
<1> QED
  BY <1>4 DEF pincode, isDefault

LEMMA StepType ==
  ASSUME TypeOK, NEW r \in Requests, Step(r) \/ Abort(r)
  PROVE  TypeOK'
<1> USE DEF TypeOK
<1>0. pc[r] \in Points /\ pc[r] \in PointsOf(call[r].op) /\ call[r] \in Calls
      /\ call[r].op \in {"create", "update", "setDefault", "remove"}
  <2>1. pc[r] \in Points
    BY DEF Step, Abort, NotFound, FindAddress, ApprovePincode, RefusePincode, ClearDefaults,
           CountAddresses, InsertAddress, WriteAddress, DeleteFails, DeleteAddress,
           ChooseNext, Promote, Points
  <2> QED
    BY <2>1, CallType DEF HandlersOK, Points
<1>1. CASE NotFound(r) \/ RefusePincode(r) \/ DeleteFails(r) \/ Abort(r)
  <2>1. \E point \in Terminal : Goto(r, point)
    BY <1>1 DEF NotFound, RefusePincode, DeleteFails, Abort, Terminal
  <2>2. UNCHANGED <<zones, addresses, ordered, locals, history>>
    BY <1>1 DEF NotFound, RefusePincode, DeleteFails, Abort
  <2>3. HandlersOK'
    BY <1>0, <2>1, <2>2, GotoType DEF locals, Terminal
  <2> QED
    BY <2>2, <2>3 DEF locals, history, ZonesOK, AddressesOK
<1>2. CASE FindAddress(r)
  <2>1. CASE call[r].op = "update"
    <3>1. NeedsCheck(r) => call[r].pincode \in Pincodes
      BY <1>0, CallType DEF NeedsCheck
    <3>2. HandlersOK'
      BY <1>0, <1>2, <2>1, <3>1, AfterCheckType, GotoType
         DEF FindAddress, PointsOf, locals
    <3> QED
      BY <1>2, <3>2 DEF FindAddress, locals, history, ZonesOK, AddressesOK
  <2>2. CASE call[r].op \in {"setDefault", "remove"}
    <3>1. HandlersOK'
      BY <1>0, <1>2, <2>2, GotoType DEF FindAddress, PointsOf, locals
    <3> QED
      BY <1>2, <3>1 DEF FindAddress, locals, history, ZonesOK, AddressesOK
  <2> QED
    BY <1>0, <1>2, <2>1, <2>2 DEF PointsOf, FindAddress
<1>3. CASE ApprovePincode(r)
  <2>1. call[r].op \in {"create", "update"}
    BY <1>0, <1>3 DEF ApprovePincode, PointsOf
  <2>2. HandlersOK'
    BY <1>0, <1>3, <2>1, AfterCheckType, GotoType DEF ApprovePincode, locals
  <2> QED
    BY <1>3, <2>2 DEF ApprovePincode, locals, ZonesOK, AddressesOK
<1>4. CASE ClearDefaults(r)
  <2>1. call[r].op \in {"create", "update", "setDefault"}
    BY <1>0, <1>4 DEF ClearDefaults, PointsOf
  <2>2. HandlersOK'
    BY <1>0, <1>4, <2>1, GotoType DEF ClearDefaults, PointsOf, locals
  <2>3. AddressesOK'
    BY <1>4 DEF ClearDefaults, AddressesOK, Address
  <2> QED
    BY <1>4, <2>2, <2>3 DEF ClearDefaults, locals, history, ZonesOK
<1>5. CASE CountAddresses(r)
  <2>1. call[r].op = "create"
    BY <1>0, <1>5 DEF CountAddresses, PointsOf
  <2>2. HandlersOK'
    BY <1>0, <1>5, <2>1, GotoType DEF CountAddresses, PointsOf
  <2> QED
    BY <1>5, <2>2 DEF CountAddresses, history, ZonesOK, AddressesOK
<1>6. CASE InsertAddress(r)
  <2>1. call[r].op = "create"
    BY <1>0, <1>6 DEF InsertAddress, PointsOf
  <2>2. HandlersOK'
    BY <1>0, <1>6, GotoType DEF InsertAddress, Terminal, locals
  <2>3. [user |-> call[r].user, pincode |-> call[r].pincode,
         isDefault |-> (call[r].isDefault = "true" \/ first[r])] \in Address
    BY <1>0, <2>1, CallType DEF Address
  <2>4. AddressesOK'
    BY <1>6, <2>3 DEF InsertAddress, AddressesOK
  <2> QED
    BY <1>6, <2>2, <2>4 DEF InsertAddress, locals, history, ZonesOK
<1>7. CASE WriteAddress(r)
  <2>1. HandlersOK'
    BY <1>0, <1>7, GotoType DEF WriteAddress, Terminal, locals
  <2>2. \A a \in DOMAIN addresses : Changed(addresses[a], call[r]) \in Address
    BY <1>0, ChangedRow DEF AddressesOK
  <2>3. AddressesOK'
    BY <1>7, <2>2 DEF WriteAddress, AddressesOK
  <2> QED
    BY <1>7, <2>1, <2>3 DEF WriteAddress, locals, history, ZonesOK
<1>8. CASE DeleteAddress(r)
  <2>1. call[r].op = "remove"
    BY <1>0, <1>8 DEF DeleteAddress, PointsOf
  <2>2. HandlersOK'
    BY <1>0, <1>8, <2>1, GotoType DEF DeleteAddress, PointsOf, Terminal, locals
  <2>3. AddressesOK'
    BY <1>8 DEF DeleteAddress, AddressesOK
  <2> QED
    BY <1>8, <2>2, <2>3 DEF DeleteAddress, locals, history, ZonesOK
<1>9. CASE ChooseNext(r)
  <2>1. call[r].op = "remove"
    BY <1>0, <1>9 DEF ChooseNext, PointsOf
  <2>2. HandlersOK'
    BY <1>0, <1>9, <2>1, GotoType DEF ChooseNext, PointsOf, Terminal
  <2>3. next' \in [Requests -> Requests]
    BY <1>9 DEF ChooseNext, AddressesOf, AddressesOK
  <2> QED
    BY <1>9, <2>2, <2>3 DEF ChooseNext, history, ZonesOK, AddressesOK
<1>10. CASE Promote(r)
  <2>1. HandlersOK'
    BY <1>0, <1>10, GotoType DEF Promote, Terminal, locals
  <2>2. AddressesOK'
    BY <1>10 DEF Promote, AddressesOK, Address
  <2> QED
    BY <1>10, <2>1, <2>2 DEF Promote, locals, history, ZonesOK
<1> QED
  BY <1>1, <1>2, <1>3, <1>4, <1>5, <1>6, <1>7, <1>8, <1>9, <1>10 DEF Step

\* The environment: zones come and go, orders refer to addresses.
LEMMA OtherType ==
  ASSUME TypeOK,
         \/ \E z \in ZoneIds : CreateZone(z) \/ UpdateZone(z) \/ DeleteZone(z)
         \/ \E a \in Requests : PlaceOrder(a)
         \/ UNCHANGED vars
  PROVE  TypeOK'
<1>1. ASSUME NEW z \in ZoneIds, CreateZone(z) \/ UpdateZone(z) \/ DeleteZone(z)
      PROVE  TypeOK'
  <2>1. ZonesOK'
    BY <1>1 DEF CreateZone, UpdateZone, DeleteZone, TypeOK, ZonesOK
  <2> QED
    BY <1>1, <2>1 DEF CreateZone, UpdateZone, DeleteZone, TypeOK, AddressesOK, HandlersOK,
                      locals, history
<1>2. ASSUME NEW a \in Requests, PlaceOrder(a)
      PROVE  TypeOK'
  BY <1>2 DEF PlaceOrder, TypeOK, AddressesOK, HandlersOK, ZonesOK, locals, history
<1>3. CASE UNCHANGED vars
  BY <1>3 DEF vars, TypeOK, AddressesOK, HandlersOK, ZonesOK, locals, history
<1> QED
  BY <1>1, <1>2, <1>3

LEMMA NextType == TypeOK /\ [Next]_vars => TypeOK'
  BY StartType, StepType, OtherType DEF Next

\* Every reachable state has its type, and every handler is suspended at a
\* call that its operation makes, with the parameters this call needs.
THEOREM TypeCorrect == Spec => []TypeOK
<1> QED
  BY InitType, NextType, PTL DEF Spec

-----------------------------------------------------------------------------
(* Whose address it is. *)

\* What one step of the handler of r may do to the places of the handlers.
LEMMA OnlyOneMoves ==
  ASSUME TypeOK, NEW r \in Requests, Step(r) \/ Abort(r)
  PROVE  /\ pc[r] \in Points /\ call[r] \in Calls /\ pc[r] \in PointsOf(call[r].op)
         /\ call' = call /\ overlapped' = overlapped
         /\ pc' \in [Requests -> Points \cup Terminal \cup {"idle"}]
         /\ \A q \in Requests : q # r => pc'[q] = pc[q]
         /\ pc'[r] # "idle"
<1>1. pc[r] \in Points /\ call' = call /\ overlapped' = overlapped
      /\ \E p : Goto(r, p)
  BY DEF Step, Abort, NotFound, FindAddress, ApprovePincode, RefusePincode, ClearDefaults,
         CountAddresses, InsertAddress, WriteAddress, DeleteFails, DeleteAddress,
         ChooseNext, Promote, Points, locals, history
<1>2. TypeOK'
  BY StepType
<1>3. pc' \in [Requests -> Points \cup Terminal \cup {"idle"}] /\ HandlersOK
  BY <1>2 DEF TypeOK, HandlersOK
<1>4. \A q \in Requests : q # r => pc'[q] = pc[q]
  BY <1>1, <1>3 DEF HandlersOK, Goto
<1>5. call[r].op \in {"create", "update", "setDefault", "remove"}
  BY <1>1, CallType DEF TypeOK, HandlersOK, Points
<1>6. \E p \in Points \cup Terminal : Goto(r, p)
  <2>1. CASE FindAddress(r)
    <3>1. CASE call[r].op = "update"
      BY <2>1, <3>1 DEF FindAddress, AfterCheck, Points
    <3>2. CASE call[r].op \in {"setDefault", "remove"}
      BY <2>1, <3>2 DEF FindAddress, Points
    <3>3. CASE call[r].op = "create"
      BY <2>1, <3>3 DEF FindAddress, TypeOK, HandlersOK, Points, PointsOf
    <3> QED
      BY <1>5, <3>1, <3>2, <3>3
  <2>2. CASE ApprovePincode(r)
    BY <2>2 DEF ApprovePincode, AfterCheck, Points
  <2>3. CASE ~FindAddress(r) /\ ~ApprovePincode(r)
    BY <2>3 DEF Step, Abort, NotFound, RefusePincode, ClearDefaults, CountAddresses,
       InsertAddress, WriteAddress, DeleteFails, DeleteAddress, ChooseNext, Promote,
       Points, Terminal
  <2> QED
    BY <2>1, <2>2, <2>3
<1>7. pc'[r] # "idle"
  BY <1>6 DEF TypeOK, HandlersOK, Goto, Points, Terminal
<1> QED
  BY <1>1, <1>3, <1>4, <1>7 DEF HandlersOK, Points

\* A handler inserts its own address or leaves to everybody what was theirs.
LEMMA TableStep ==
  ASSUME TypeOK, NEW r \in Requests, Step(r) \/ Abort(r)
  PROVE  \A a \in DOMAIN addresses' :
             \/ a \in DOMAIN addresses /\ addresses'[a].user = addresses[a].user
             \/ a = r /\ pc[r] = "insert" /\ pc'[r] = "done" /\ addresses'[a].user = Owner(r)
<1>1. CASE UNCHANGED addresses
  BY <1>1
<1>2. CASE ClearDefaults(r)
  BY <1>2 DEF ClearDefaults, TypeOK, AddressesOK, Address
<1>3. CASE InsertAddress(r)
  BY <1>3 DEF InsertAddress, TypeOK, HandlersOK, Goto, Owner
<1>4. CASE WriteAddress(r)
  BY <1>4 DEF WriteAddress, Changed
<1>5. CASE DeleteAddress(r)
  BY <1>5 DEF DeleteAddress
<1>6. CASE Promote(r)
  BY <1>6 DEF Promote, TypeOK, AddressesOK, Address
<1> QED
  BY <1>1, <1>2, <1>3, <1>4, <1>5, <1>6
     DEF Step, Abort, NotFound, FindAddress, ApprovePincode, RefusePincode, CountAddresses,
         DeleteFails, ChooseNext

LEMMA OwnedStep ==
  ASSUME TypeOK, Owned, NEW r \in Requests, Step(r) \/ Abort(r)
  PROVE  Owned'
<1> USE OnlyOneMoves DEF Owner
<1>1. \A q \in Requests : pc'[q] # "idle" /\ call'[q].op = "create" => call'[q].address = q
  BY DEF Owned, Points
<1>2. \A a \in Requests : pc[a] = "done" => pc'[a] = "done"
  BY DEF Points
<1>3. \A a \in DOMAIN addresses' :
          pc'[a] = "done" /\ call'[a].op = "create" /\ addresses'[a].user = Owner(a)'
  <2>1. pc[r] = "insert" => call[r].op = "create"
    BY CallType DEF PointsOf
  <2> QED
    BY <1>2, <2>1, TableStep DEF Owned, TypeOK, AddressesOK
<1>4. ASSUME NEW q \in Requests,
             pc'[q] \in {"validate", "clear", "write", "delete"}, call'[q].op # "create"
      PROVE  pc'[call'[q].address] = "done" /\ Owner(call[q].address)' = Owner(q)'
  <2>1. CASE pc[q] \in {"validate", "clear", "write", "delete"}
    <3>1. call[q].address \in Requests
      BY <2>1, CallType DEF TypeOK, HandlersOK
    <3> QED
      BY <1>2, <1>4, <2>1, <3>1 DEF Owned
  <2>2. CASE pc[q] \notin {"validate", "clear", "write", "delete"}
    <3>1. q = r
      BY <1>4, <2>2
    <3>2. FindAddress(r)
      <4>1. pc[r] \in {"count", "insert", "choose", "promote", "find"}
        BY <2>2, <3>1 DEF Points
      <4>2. pc'[r] \in {"validate", "clear", "write", "delete"}
        BY <1>4, <3>1
      <4> QED
        BY <4>1, <4>2 DEF Step, Abort, NotFound, ApprovePincode, RefusePincode, ClearDefaults,
           CountAddresses, InsertAddress, WriteAddress, DeleteFails, DeleteAddress, ChooseNext,
           Promote, Goto, TypeOK, HandlersOK
    <3>3. call[r].address \in DOMAIN addresses
          /\ addresses[call[r].address].user = call[r].user
      BY <3>2 DEF FindAddress, Visible, AddressesOf
    <3> QED
      BY <1>2, <3>1, <3>3 DEF Owned, TypeOK, AddressesOK
  <2> QED
    BY <2>1, <2>2
<1>5. ASSUME NEW q \in Requests, pc'[q] = "promote"
      PROVE  pc'[next'[q]] = "done" /\ call'[next'[q]].user = call'[q].user
  <2>1. CASE pc[q] = "promote" /\ q # r
    <3>1. next'[q] = next[q] /\ next[q] \in Requests
      BY <2>1 DEF Step, Abort, NotFound, FindAddress, ApprovePincode, RefusePincode,
         ClearDefaults, CountAddresses, InsertAddress, WriteAddress, DeleteFails, DeleteAddress,
         ChooseNext, Promote, locals, TypeOK
    <3> QED
      BY <1>2, <2>1, <3>1 DEF Owned
  <2>2. CASE ~(pc[q] = "promote" /\ q # r)
    <3>1. q = r
      BY <1>5, <2>2
    <3>2. ChooseNext(r)
      <4>1. call[r].op = "remove"
        <5>1. HandlersOK' /\ pc'[r] = "promote" /\ call' = call
          BY <1>5, <3>1, StepType DEF TypeOK
        <5>2. pc[r] # "idle" /\ call[r].op \in {"create", "update", "setDefault", "remove"}
          BY CallType DEF Points
        <5> QED
          BY <5>1, <5>2 DEF HandlersOK, Points, PointsOf
      <4>2. ~FindAddress(r)
        BY <1>5, <3>1, <4>1 DEF FindAddress, Goto, TypeOK, HandlersOK
      <4> QED
        BY <1>5, <3>1, <4>2 DEF Step, Abort, NotFound, AfterCheck, ApprovePincode, RefusePincode,
           ClearDefaults, CountAddresses, InsertAddress, WriteAddress, DeleteFails, DeleteAddress,
           Promote, Goto, TypeOK, HandlersOK
    <3>3. next'[r] \in AddressesOf(call[r].user)
      BY <1>5, <3>1, <3>2 DEF ChooseNext, Goto, TypeOK, HandlersOK
    <3> QED
      BY <1>2, <3>1, <3>3 DEF AddressesOf, Owned, TypeOK, AddressesOK
  <2> QED
    BY <2>1, <2>2
<1> QED
  BY <1>1, <1>3, <1>4, <1>5 DEF Owned

LEMMA OwnedStart ==
  ASSUME TypeOK, Owned, NEW r \in Requests, StartCreate(r) \/ StartOther(r)
  PROVE  Owned'
<1>1. PICK c \in Calls, point \in {"find", "validate"} :
          /\ Start(r, c, point)
          /\ point = "validate" => c.op = "create"
          /\ c.op = "create" => c.address = r
  BY DEF StartCreate, StartOther, Calls, CreateCall, UpdateCall, DefaultCall, RemoveCall
<1>2. /\ pc[r] = "idle" /\ pc'[r] = point /\ call'[r] = c
      /\ \A q \in Requests \ {r} : pc'[q] = pc[q] /\ call'[q] = call[q]
      /\ addresses' = addresses /\ next' = next
  BY <1>1 DEF Start, Goto, TypeOK, HandlersOK
<1>3. \A q \in Requests : pc[q] # "idle" => call[q].address \in Requests
  BY CallType DEF TypeOK, HandlersOK
<1>4. next \in [Requests -> Requests] /\ DOMAIN addresses \subseteq Requests
  BY DEF TypeOK, AddressesOK
<1> QED
  BY <1>1, <1>2, <1>3, <1>4 DEF Owned, Owner

LEMMA OwnedOther ==
  ASSUME Owned,
         \/ \E z \in ZoneIds : CreateZone(z) \/ UpdateZone(z) \/ DeleteZone(z)
         \/ \E a \in Requests : PlaceOrder(a)
         \/ UNCHANGED vars
  PROVE  Owned' /\ UNCHANGED <<addresses, pc, call, first, approved, overlapped>>
<1>1. UNCHANGED <<addresses, pc, call, first, next, approved, overlapped>>
  BY DEF CreateZone, UpdateZone, DeleteZone, PlaceOrder, vars, locals, history
<1> QED
  BY <1>1 DEF Owned, Owner

LEMMA OwnedInductive == TypeOK /\ Owned /\ [Next]_vars => Owned'
  BY OwnedStep, OwnedStart, OwnedOther DEF Next

\* Every address belongs to the customer who created it for ever, and every
\* handler past its SELECT works on an address of its own customer.
THEOREM AlwaysOwned == Spec => []Owned
<1>1. Init => Owned
  BY DEF Init, Owned
<1> QED
  BY <1>1, InitType, NextType, OwnedInductive, PTL DEF Spec

\* A step of a handler leaves the addresses of other customers as they are.
LEMMA OthersUntouched ==
  ASSUME TypeOK, Owned, NEW r \in Requests, Step(r), NEW a \in DOMAIN addresses,
         addresses[a].user # call[r].user
  PROVE  a \in DOMAIN addresses' /\ addresses'[a] = addresses[a]
<1>0. pc[r] \in Points /\ pc[r] \in PointsOf(call[r].op) /\ call[r] \in Calls
      /\ call[r].op \in {"create", "update", "setDefault", "remove"}
  BY OnlyOneMoves, CallType
<1>1. CASE UNCHANGED addresses
  BY <1>1
<1>2. CASE ClearDefaults(r)
  BY <1>2 DEF ClearDefaults
<1>3. CASE InsertAddress(r)
  BY <1>3 DEF InsertAddress, Owned
<1>4. CASE WriteAddress(r)
  <2>1. call[r].op # "create"
    BY <1>0, <1>4 DEF WriteAddress, PointsOf
  <2>2. Owner(call[r].address) = Owner(r)
    BY <1>4, <2>1 DEF WriteAddress, Owned
  <2>3. a # call[r].address
    BY <2>2 DEF Owned, Owner
  <2> QED
    BY <1>4, <2>3 DEF WriteAddress
<1>5. CASE DeleteAddress(r)
  <2>1. call[r].op # "create"
    BY <1>0, <1>5 DEF DeleteAddress, PointsOf
  <2>2. Owner(call[r].address) = Owner(r)
    BY <1>5, <2>1 DEF DeleteAddress, Owned
  <2>3. a # call[r].address
    BY <2>2 DEF Owned, Owner
  <2> QED
    BY <1>5, <2>3 DEF DeleteAddress
<1>6. CASE Promote(r)
  BY <1>6 DEF Promote, Owned, Owner
<1> QED
  BY <1>1, <1>2, <1>3, <1>4, <1>5, <1>6
     DEF Step, NotFound, FindAddress, ApprovePincode, RefusePincode, CountAddresses,
         DeleteFails, ChooseNext

\* No request changes, adds or removes an address of another customer, however
\* the handlers interleave.
THEOREM OthersAreSafe == Spec => OwnershipRespected
<1>1. TypeOK /\ Owned /\ [Next]_vars =>
          [\A r \in Requests : Step(r) =>
             \A a \in DOMAIN addresses :
                 \/ addresses[a].user = call[r].user
                 \/ a \in DOMAIN addresses' /\ addresses'[a] = addresses[a]]_vars
  BY OthersUntouched
<1> QED
  BY <1>1, TypeCorrect, AlwaysOwned, PTL DEF Spec, OwnershipRespected

-----------------------------------------------------------------------------
(* Pincodes. *)

\* An approval is never lost: a request keeps its parameters.
LEMMA ApprovalKept ==
  ASSUME TypeOK, Covered, NEW r \in Requests,
         Step(r) \/ Abort(r) \/ StartCreate(r) \/ StartOther(r),
         NEW a, NEW p, Approved(a, p)
  PROVE  Approved(a, p)'
<1>1. approved \subseteq approved'
  BY DEF Step, Abort, StartCreate, StartOther, Start, NotFound, FindAddress, ApprovePincode,
         RefusePincode, ClearDefaults, CountAddresses, InsertAddress, WriteAddress,
         DeleteFails, DeleteAddress, ChooseNext, Promote, history
<1>2. \A q \in approved : call'[q] = call[q]
  <2>1. CASE Step(r) \/ Abort(r)
    BY <2>1, OnlyOneMoves
  <2>2. CASE StartCreate(r) \/ StartOther(r)
    <3>1. PICK c \in Calls : call' = [call EXCEPT ![r] = c] /\ pc[r] = "idle"
      BY <2>2 DEF StartCreate, StartOther, Start, Calls
    <3> QED
      BY <3>1 DEF Covered, TypeOK, HandlersOK
  <2> QED
    BY <2>1, <2>2
<1> QED
  BY <1>1, <1>2 DEF Approved

LEMMA CoveredStep ==
  ASSUME TypeOK, Owned, Covered, NEW r \in Requests, Step(r) \/ Abort(r)
  PROVE  Covered'
<1>0. /\ pc[r] \in Points /\ pc[r] \in PointsOf(call[r].op) /\ call[r] \in Calls
      /\ call[r].op \in {"create", "update", "setDefault", "remove"}
      /\ call' = call /\ \A q \in Requests : q # r => pc'[q] = pc[q]
      /\ pc'[r] # "idle"
  BY OnlyOneMoves, CallType
<1>1. \A q \in approved' : pc'[q] # "idle"
  <2>1. approved' \subseteq approved \cup {r}
    BY DEF Step, Abort, NotFound, FindAddress, ApprovePincode, RefusePincode, ClearDefaults,
       CountAddresses, InsertAddress, WriteAddress, DeleteFails, DeleteAddress, ChooseNext,
       Promote, history
  <2> QED
    BY <1>0, <2>1 DEF Covered, TypeOK
<1>2. ASSUME NEW q \in Requests, pc'[q] \in {"clear", "count", "insert", "write"},
             call'[q].pincode # None
      PROVE  Approved(call[q].address, call[q].pincode)'
  <2>1. CASE pc[q] \in {"clear", "count", "insert", "write"}
    BY <1>0, <1>2, <2>1, ApprovalKept DEF Covered
  <2>2. CASE pc[q] \notin {"clear", "count", "insert", "write"}
    <3>1. q = r
      BY <1>0, <1>2, <2>2
    <3>2. ApprovePincode(r) \/ FindAddress(r)
      BY <1>2, <2>2, <3>1
         DEF Step, Abort, NotFound, RefusePincode, ClearDefaults, CountAddresses, InsertAddress,
             WriteAddress, DeleteFails, DeleteAddress, ChooseNext, Promote, Goto, TypeOK,
             HandlersOK
    <3>3. CASE ApprovePincode(r)
      BY <1>0, <3>1, <3>3 DEF ApprovePincode, Approved
    <3>4. CASE FindAddress(r)
      <4>1. call[r].op = "update"
        <5>1. call[r].op # "create" /\ call[r].op # "setDefault"
          BY <1>0, <1>2, <3>1, <3>4, CallType DEF FindAddress, PointsOf
        <5>2. call[r].op # "remove"
          BY <1>2, <3>1, <3>4 DEF FindAddress, Goto, TypeOK, HandlersOK
        <5> QED
          BY <1>0, <5>1, <5>2
      <4>2. ~NeedsCheck(r)
        BY <1>2, <3>1, <3>4, <4>1 DEF FindAddress, Goto, TypeOK, HandlersOK
      <4>3. /\ call[r].address \in DOMAIN addresses
            /\ call[r].pincode = addresses[call[r].address].pincode
        BY <1>0, <1>2, <3>1, <3>4, <4>2 DEF FindAddress, Visible, AddressesOf, NeedsCheck
      <4> QED
        BY <1>0, <3>1, <4>3, ApprovalKept DEF Covered
    <3> QED
      BY <3>2, <3>3, <3>4
  <2> QED
    BY <2>1, <2>2
<1>3. ASSUME NEW a \in DOMAIN addresses'
      PROVE  Approved(a, addresses[a].pincode)'
  <2>1. CASE a \in DOMAIN addresses /\ addresses'[a].pincode = addresses[a].pincode
    BY <2>1, ApprovalKept DEF Covered
  <2>2. CASE InsertAddress(r) /\ a = r
    <3>1. call[r].op = "create" /\ call[r].address = r
      BY <1>0, <2>2 DEF InsertAddress, PointsOf, Owned
    <3>2. call[r].pincode # None
      BY <1>0, <3>1, CallType, PincodesAssumption
    <3>3. addresses'[a].pincode = call[r].pincode
      BY <2>2 DEF InsertAddress
    <3> QED
      BY <2>2, <3>1, <3>2, <3>3, ApprovalKept DEF Covered, InsertAddress
  <2>3. CASE WriteAddress(r) /\ a = call[r].address /\ call[r].pincode # None
    <3>1. addresses'[a].pincode = call[r].pincode
      BY <1>3, <2>3 DEF WriteAddress, Changed
    <3> QED
      BY <2>3, <3>1, ApprovalKept DEF Covered, WriteAddress
  <2>4. CASE \/ ClearDefaults(r) \/ Promote(r) \/ DeleteAddress(r)
             \/ InsertAddress(r) /\ a # r
             \/ WriteAddress(r) /\ ~(a = call[r].address /\ call[r].pincode # None)
             \/ UNCHANGED addresses
    <3>1. a \in DOMAIN addresses /\ addresses'[a].pincode = addresses[a].pincode
      BY <1>3, <2>4 DEF ClearDefaults, Promote, DeleteAddress, InsertAddress, WriteAddress,
         Changed, TypeOK, AddressesOK, Address
    <3> QED
      BY <2>1, <3>1
  <2> QED
    BY <2>2, <2>3, <2>4
       DEF Step, Abort, NotFound, FindAddress, ApprovePincode, RefusePincode, CountAddresses,
           DeleteFails, ChooseNext
<1> QED
  BY <1>1, <1>2, <1>3 DEF Covered

LEMMA CoveredStart ==
  ASSUME TypeOK, Covered, NEW r \in Requests, StartCreate(r) \/ StartOther(r)
  PROVE  Covered'
<1>1. PICK c \in Calls, point \in {"find", "validate"} : Start(r, c, point)
  BY DEF StartCreate, StartOther, Calls
<1>2. /\ pc[r] = "idle" /\ pc'[r] = point
      /\ \A q \in Requests \ {r} : pc'[q] = pc[q] /\ call'[q] = call[q]
      /\ addresses' = addresses /\ approved' = approved
  BY <1>1 DEF Start, Goto, TypeOK, HandlersOK
<1>3. approved \subseteq Requests
  BY DEF TypeOK
<1>4. \A q \in approved' : pc'[q] # "idle"
  BY <1>2, <1>3 DEF Covered
<1>5. ASSUME NEW q \in Requests, pc'[q] \in {"clear", "count", "insert", "write"},
             call'[q].pincode # None
      PROVE  Approved(call[q].address, call[q].pincode)'
  <2>1. q # r
    BY <1>2, <1>5
  <2> QED
    BY <1>2, <1>5, <2>1, ApprovalKept DEF Covered
<1>6. \A a \in DOMAIN addresses' : Approved(a, addresses[a].pincode)'
  BY <1>2, ApprovalKept DEF Covered
<1> QED
  BY <1>4, <1>5, <1>6 DEF Covered

LEMMA CoveredInductive == TypeOK /\ Owned /\ Covered /\ [Next]_vars => Covered'
<1>1. ASSUME Covered, UNCHANGED <<addresses, pc, call, first, approved, overlapped>>
      PROVE  Covered'
  BY <1>1 DEF Covered, Approved
<1> QED
  BY <1>1, CoveredStep, CoveredStart, OwnedOther DEF Next

\* The pincode of every address has been found serviceable on behalf of that
\* address, for any number of overlapping requests and changing zones.
THEOREM PincodesAreApproved == Spec => []PincodesWereApproved
<1>1. Init => Covered
  BY DEF Init, Covered
<1>2. Covered => PincodesWereApproved
  BY DEF Covered, Approved, PincodesWereApproved
<1> QED
  BY <1>1, <1>2, TypeCorrect, AlwaysOwned, CoveredInductive, PTL DEF Spec

-----------------------------------------------------------------------------
(* One default. *)

\* The book of a customer is unmoved by the requests of the others.
LEMMA OtherBooks ==
  ASSUME TypeOK, Owned, NEW r \in Requests, Step(r) \/ Abort(r),
         NEW u \in Users, u # Owner(r)
  PROVE  AddressesOf(u)' = AddressesOf(u) /\ Defaults(u)' = Defaults(u)
<1>1. \A a \in DOMAIN addresses : addresses[a].user = u =>
          a \in DOMAIN addresses' /\ addresses'[a] = addresses[a]
  BY OthersUntouched DEF Abort, Owner
<1>2. \A a \in DOMAIN addresses' : addresses'[a].user = u =>
          a \in DOMAIN addresses /\ addresses[a].user = u
  BY TableStep
<1> QED
  BY <1>1, <1>2 DEF AddressesOf, Defaults

\* What the running request of a customer leaves of the customer's book.
LEMMA OwnBook ==
  ASSUME TypeOK, Owned, NEW r \in Requests, Step(r) \/ Abort(r),
         NEW u \in Users \ overlapped, u = Owner(r),
         \A a, b \in Defaults(u) : a = b,
         pc[r] \in {"count", "insert", "write"} /\ call[r].isDefault = "true" => Defaults(u) = {},
         pc[r] \in {"choose", "promote"} => Defaults(u) = {},
         pc[r] = "insert" /\ first[r] => AddressesOf(u) = {}
  PROVE  /\ \A a, b \in Defaults(u)' : a = b
         /\ pc'[r] \in {"count", "insert", "write"} /\ call[r].isDefault = "true" => Defaults(u)' = {}
         /\ pc'[r] \in {"choose", "promote"} => Defaults(u)' = {}
         /\ pc'[r] = "insert" /\ first'[r] => AddressesOf(u)' = {}
<1>0. /\ pc[r] \in Points /\ pc[r] \in PointsOf(call[r].op) /\ call[r] \in Calls
      /\ call[r].op \in {"create", "update", "setDefault", "remove"}
  BY OnlyOneMoves, CallType
<1>1. CASE NotFound(r) \/ RefusePincode(r) \/ DeleteFails(r) \/ Abort(r)
  BY <1>1 DEF NotFound, RefusePincode, DeleteFails, Abort, Goto, TypeOK, HandlersOK,
     AddressesOf, Defaults
<1>2. CASE FindAddress(r) \/ ApprovePincode(r)
  <2>1. UNCHANGED addresses
    BY <1>2 DEF FindAddress, ApprovePincode
  <2>2. pc'[r] \in {"write", "count"} => call[r].isDefault # "true"
    <3>1. CASE ApprovePincode(r)
      BY <3>1 DEF ApprovePincode, AfterCheck, Goto, TypeOK, HandlersOK
    <3>2. CASE FindAddress(r) /\ call[r].op = "update"
      BY <3>2 DEF FindAddress, AfterCheck, Goto, TypeOK, HandlersOK
    <3>3. CASE FindAddress(r) /\ call[r].op \in {"setDefault", "remove"}
      BY <3>3 DEF FindAddress, Goto, TypeOK, HandlersOK
    <3>4. CASE FindAddress(r) /\ call[r].op = "create"
      BY <1>0, <3>4 DEF FindAddress, PointsOf
    <3> QED
      BY <1>0, <1>2, <3>1, <3>2, <3>3, <3>4
  <2>3. pc'[r] \in {"validate", "clear", "write", "count", "delete"}
    <3>1. CASE ApprovePincode(r)
      BY <3>1 DEF ApprovePincode, AfterCheck, Goto, TypeOK, HandlersOK
    <3>2. CASE FindAddress(r) /\ call[r].op = "update"
      BY <3>2 DEF FindAddress, AfterCheck, Goto, TypeOK, HandlersOK
    <3>3. CASE FindAddress(r) /\ call[r].op \in {"setDefault", "remove"}
      BY <3>3 DEF FindAddress, Goto, TypeOK, HandlersOK
    <3>4. CASE FindAddress(r) /\ call[r].op = "create"
      BY <1>0, <3>4 DEF FindAddress, PointsOf
    <3> QED
      BY <1>0, <1>2, <3>1, <3>2, <3>3, <3>4
  <2> QED
    BY <2>1, <2>2, <2>3 DEF AddressesOf, Defaults
<1>3. CASE ClearDefaults(r)
  <2>1. Defaults(u)' = {}
    BY <1>3 DEF ClearDefaults, Defaults, AddressesOf, TypeOK, AddressesOK, Address, Owner
  <2>2. pc'[r] \in {"count", "write"}
    BY <1>3 DEF ClearDefaults, Goto, TypeOK, HandlersOK
  <2> QED
    BY <2>1, <2>2
<1>4. CASE CountAddresses(r)
  <2>1. pc'[r] = "insert" /\ pc[r] = "count" /\ addresses' = addresses
        /\ (first'[r] => AddressesOf(u) = {})
    BY <1>4 DEF CountAddresses, Goto, TypeOK, HandlersOK, Owner
  <2>2. AddressesOf(u)' = AddressesOf(u) /\ Defaults(u)' = Defaults(u)
    BY <2>1 DEF AddressesOf, Defaults
  <2>3. first'[r] => AddressesOf(u)' = {}
    BY <2>1, <2>2
  <2>4. call[r].isDefault = "true" => Defaults(u)' = {}
    BY <2>1, <2>2
  <2> QED
    BY <2>1, <2>2, <2>3, <2>4
<1>5. CASE InsertAddress(r)
  <2>1. pc'[r] = "done" /\ pc[r] = "insert"
    BY <1>5 DEF InsertAddress, Goto, TypeOK, HandlersOK
  <2>2. CASE call[r].isDefault = "true" \/ first[r]
    <3>1. Defaults(u) = {}
      BY <2>1, <2>2 DEF Defaults
    <3>2. Defaults(u)' \subseteq Defaults(u) \cup {r}
      BY <1>5 DEF InsertAddress, Defaults, AddressesOf
    <3> QED
      BY <2>1, <3>1, <3>2
  <2>3. CASE ~(call[r].isDefault = "true" \/ first[r])
    <3>1. Defaults(u)' \subseteq Defaults(u)
      BY <1>5, <2>3 DEF InsertAddress, Defaults, AddressesOf
    <3> QED
      BY <2>1, <3>1
  <2> QED
    BY <2>2, <2>3
<1>6. CASE WriteAddress(r)
  <2>1. pc'[r] = "done" /\ pc[r] = "write"
    BY <1>6 DEF WriteAddress, Goto, TypeOK, HandlersOK
  <2>2. \A a \in DOMAIN addresses :
           addresses'[a] = IF a = call[r].address THEN Changed(addresses[a], call[r])
                           ELSE addresses[a]
    BY <1>6 DEF WriteAddress
  <2>3. DOMAIN addresses' = DOMAIN addresses
    BY <1>6 DEF WriteAddress
  <2>4. \A a \in DOMAIN addresses : addresses'[a].user = addresses[a].user
    BY <1>0, <2>2, ChangedRow DEF TypeOK, AddressesOK
  <2>5. CASE call[r].isDefault = "true"
    <3>1. Defaults(u)' \subseteq Defaults(u) \cup {call[r].address}
      BY <2>2, <2>3, <2>4 DEF Defaults, AddressesOf
    <3> QED
      BY <2>1, <2>5, <3>1
  <2>6. CASE call[r].isDefault # "true"
    <3>1. \A a \in DOMAIN addresses : addresses'[a].isDefault => addresses[a].isDefault
      <4> SUFFICES ASSUME NEW a \in DOMAIN addresses, addresses'[a].isDefault,
                          ~addresses[a].isDefault
                   PROVE  FALSE
        OBVIOUS
      <4>1. addresses[a] \in Address
        BY DEF TypeOK, AddressesOK
      <4>2. CASE a = call[r].address /\ call[r].isDefault # None
        <5>1. addresses'[a].isDefault = (call[r].isDefault = "true")
          BY <1>0, <2>2, <4>1, <4>2, ChangedRow
        <5> QED
          BY <2>6, <5>1
      <4>3. CASE ~(a = call[r].address /\ call[r].isDefault # None)
        <5>1. addresses'[a].isDefault = addresses[a].isDefault
          BY <1>0, <2>2, <4>1, <4>3, ChangedRow
        <5> QED
          BY <5>1
      <4> QED
        BY <4>2, <4>3
    <3>2. Defaults(u)' \subseteq Defaults(u)
      BY <2>3, <2>4, <3>1 DEF Defaults, AddressesOf
    <3> QED
      BY <2>1, <3>2
  <2> QED
    BY <2>5, <2>6
<1>7. CASE DeleteAddress(r)
  <2>1. Defaults(u)' = Defaults(u) \ {call[r].address}
    BY <1>7 DEF DeleteAddress, Defaults, AddressesOf
  <2>2. pc'[r] = IF addresses[call[r].address].isDefault THEN "choose" ELSE "done"
    BY <1>7 DEF DeleteAddress, Goto, TypeOK, HandlersOK
  <2>3. addresses[call[r].address].user = u
    <3>1. call[r].op # "create"
      BY <1>0, <1>7 DEF DeleteAddress, PointsOf
    <3> QED
      BY <1>7, <3>1 DEF DeleteAddress, Owned
  <2>4. addresses[call[r].address].isDefault => call[r].address \in Defaults(u)
    BY <1>7, <2>3 DEF DeleteAddress, Defaults, AddressesOf
  <2> QED
    BY <2>1, <2>2, <2>4
<1>8. CASE ChooseNext(r)
  <2>1. pc'[r] \in {"promote", "done"} /\ pc[r] = "choose" /\ addresses' = addresses
    BY <1>8 DEF ChooseNext, Goto, TypeOK, HandlersOK
  <2> QED
    BY <2>1 DEF AddressesOf, Defaults
<1>9. CASE Promote(r)
  <2>1. pc'[r] = "done" /\ pc[r] = "promote"
    BY <1>9 DEF Promote, Goto, TypeOK, HandlersOK
  <2>2. Defaults(u)' \subseteq Defaults(u) \cup {next[r]}
    BY <1>9 DEF Promote, Defaults, AddressesOf, TypeOK, AddressesOK, Address
  <2> QED
    BY <2>1, <2>2
<1> QED
  BY <1>1, <1>2, <1>3, <1>4, <1>5, <1>6, <1>7, <1>8, <1>9 DEF Step

LEMMA AloneStep ==
  ASSUME TypeOK, Owned, OneDefault, Alone, NEW r \in Requests, Step(r) \/ Abort(r)
  PROVE  OneDefault' /\ Alone'
<1>1. /\ pc[r] \in Points /\ call' = call /\ overlapped' = overlapped
      /\ \A q \in Requests : q # r => pc'[q] = pc[q]
  BY OnlyOneMoves
<1>2. \A q \in Requests : q # r => first'[q] = first[q]
  BY DEF Step, Abort, NotFound, FindAddress, ApprovePincode, RefusePincode, ClearDefaults,
     CountAddresses, InsertAddress, WriteAddress, DeleteFails, DeleteAddress, ChooseNext,
     Promote, locals, TypeOK
<1>3. InFlight' \subseteq InFlight /\ r \in InFlight
  BY <1>1 DEF InFlight
<1> SUFFICES ASSUME NEW u \in Users \ overlapped'
             PROVE  /\ \A a, b \in Defaults(u)' : a = b
                    /\ \A q, t \in InFlight' : Owner(q)' = u /\ Owner(t)' = u => q = t
                    /\ \A q \in InFlight' : Owner(q)' = u =>
                         /\ pc'[q] \in {"count", "insert", "write"} /\ call'[q].isDefault = "true"
                                => Defaults(u)' = {}
                         /\ pc'[q] \in {"choose", "promote"} => Defaults(u)' = {}
                         /\ pc'[q] = "insert" /\ first'[q] => AddressesOf(u)' = {}
  BY DEF OneDefault, Alone
<1>4. u \in Users \ overlapped
  BY <1>1
<1>5. \A q, t \in InFlight' : Owner(q)' = u /\ Owner(t)' = u => q = t
  BY <1>1, <1>3, <1>4 DEF Alone, Owner
<1>6. CASE u = Owner(r)
  <2>1. \A q \in InFlight' : Owner(q)' = u => q = r
    BY <1>1, <1>3, <1>4, <1>6 DEF Alone, Owner
  <2>2. /\ \A a, b \in Defaults(u) : a = b
        /\ pc[r] \in {"count", "insert", "write"} /\ call[r].isDefault = "true" => Defaults(u) = {}
        /\ pc[r] \in {"choose", "promote"} => Defaults(u) = {}
        /\ pc[r] = "insert" /\ first[r] => AddressesOf(u) = {}
    BY <1>3, <1>4, <1>6 DEF OneDefault, Alone
  <2>3. /\ \A a, b \in Defaults(u)' : a = b
        /\ pc'[r] \in {"count", "insert", "write"} /\ call[r].isDefault = "true" => Defaults(u)' = {}
        /\ pc'[r] \in {"choose", "promote"} => Defaults(u)' = {}
        /\ pc'[r] = "insert" /\ first'[r] => AddressesOf(u)' = {}
    BY <1>4, <1>6, <2>2, OwnBook
  <2> QED
    BY <1>1, <1>5, <2>1, <2>3
<1>7. CASE u # Owner(r)
  <2>1. AddressesOf(u)' = AddressesOf(u) /\ Defaults(u)' = Defaults(u)
    BY <1>4, <1>7, OtherBooks
  <2>2. \A a, b \in Defaults(u)' : a = b
    BY <1>4, <2>1 DEF OneDefault
  <2>3. ASSUME NEW q \in InFlight', Owner(q)' = u
        PROVE  /\ q \in InFlight /\ Owner(q) = u /\ call'[q] = call[q]
               /\ pc'[q] = pc[q] /\ first'[q] = first[q]
    BY <1>1, <1>2, <1>3, <1>7, <2>3 DEF Owner, InFlight
  <2> QED
    BY <1>4, <1>5, <2>1, <2>2, <2>3 DEF Alone
<1> QED
  BY <1>6, <1>7

LEMMA AloneStart ==
  ASSUME TypeOK, OneDefault, Alone, NEW r \in Requests, StartCreate(r) \/ StartOther(r)
  PROVE  OneDefault' /\ Alone'
<1>1. PICK c \in Calls, point \in {"find", "validate"} : Start(r, c, point)
  BY DEF StartCreate, StartOther, Calls
<1>2. /\ pc[r] = "idle" /\ pc'[r] = point /\ call'[r] = c
      /\ \A q \in Requests \ {r} : pc'[q] = pc[q] /\ call'[q] = call[q]
      /\ addresses' = addresses /\ first' = first
      /\ overlapped' = overlapped \cup {u \in {c.user} : \E q \in InFlight : call[q].user = u}
  BY <1>1 DEF Start, Goto, TypeOK, HandlersOK
<1>3. InFlight' = InFlight \cup {r} /\ r \notin InFlight /\ InFlight \subseteq Requests
  BY <1>2 DEF InFlight, Points
<1> SUFFICES ASSUME NEW u \in Users \ overlapped'
             PROVE  /\ \A a, b \in Defaults(u)' : a = b
                    /\ \A q, t \in InFlight' : Owner(q)' = u /\ Owner(t)' = u => q = t
                    /\ \A q \in InFlight' : Owner(q)' = u =>
                         /\ pc'[q] \in {"count", "insert", "write"} /\ call'[q].isDefault = "true"
                                => Defaults(u)' = {}
                         /\ pc'[q] \in {"choose", "promote"} => Defaults(u)' = {}
                         /\ pc'[q] = "insert" /\ first'[q] => AddressesOf(u)' = {}
  BY DEF OneDefault, Alone
<1>4. u \in Users \ overlapped
  BY <1>2
<1>5. AddressesOf(u)' = AddressesOf(u) /\ Defaults(u)' = Defaults(u)
  BY <1>2 DEF AddressesOf, Defaults
<1>6. c.user = u => \A q \in InFlight : Owner(q) # u
  BY <1>2 DEF Owner
<1>7. \A q \in InFlight : Owner(q)' = Owner(q) /\ call'[q] = call[q] /\ pc'[q] = pc[q]
  BY <1>2, <1>3 DEF Owner
<1>8. \A q, t \in InFlight' : Owner(q)' = u /\ Owner(t)' = u => q = t
  BY <1>2, <1>3, <1>4, <1>6, <1>7 DEF Alone, Owner
<1>9. pc'[r] \in {"find", "validate"}
  BY <1>2
<1> QED
  BY <1>2, <1>3, <1>4, <1>5, <1>7, <1>8, <1>9 DEF OneDefault, Alone

LEMMA AloneInductive ==
    TypeOK /\ Owned /\ OneDefault /\ Alone /\ [Next]_vars => OneDefault' /\ Alone'
<1>1. ASSUME OneDefault, Alone, UNCHANGED <<addresses, pc, call, first, approved, overlapped>>
      PROVE  OneDefault' /\ Alone'
  BY <1>1 DEF OneDefault, Alone, Defaults, AddressesOf, InFlight, Owner
<1> QED
  BY <1>1, AloneStep, AloneStart, OwnedOther DEF Next

\* A customer whose requests never overlapped has at most one default address,
\* for any number of customers, requests and faults.
THEOREM AtMostOneDefault == Spec => []OneDefault
<1>1. Init => OneDefault /\ Alone
  BY DEF Init, OneDefault, Alone, Defaults, AddressesOf, InFlight, Points
<1> QED
  BY <1>1, TypeCorrect, AlwaysOwned, AloneInductive, PTL DEF Spec

-----------------------------------------------------------------------------
(* The default is kept. *)

\* Nothing of the customer overlapped, failed, or asked for no default.
Wholesome(u) ==
    /\ u \notin overlapped
    /\ \A r \in Requests : pc[r] # "idle" /\ Owner(r) = u =>
           pc[r] # "failed" /\ ~(call[r].op = "update" /\ call[r].isDefault = "false")

\* A handler whose customer sends nothing else still finds what it has read.
FoundAt(r) ==
    /\ pc[r] = "clear" => call[r].isDefault = "true"
    /\ pc[r] \in {"validate", "clear", "write", "delete"} /\ call[r].op # "create" =>
           call[r].address \in AddressesOf(Owner(r))
    /\ pc[r] = "promote" => next[r] \in AddressesOf(Owner(r))
    /\ pc[r] = "insert" /\ ~first[r] => AddressesOf(Owner(r)) # {}

Found == \A r \in InFlight : Owner(r) \notin overlapped => FoundAt(r)

\* The handler is about to make an address the default.
MakesDefault(r) ==
    \/ pc[r] \in {"count", "insert", "write"} /\ call[r].isDefault = "true"
    \/ pc[r] \in {"choose", "promote"}

Kept ==
    \A u \in Users : Wholesome(u) /\ AddressesOf(u) # {} =>
        Defaults(u) # {} \/ \E r \in InFlight : Owner(r) = u /\ MakesDefault(r)

\* Where the SELECT and the check lead.
LEMMA AfterFind ==
  ASSUME TypeOK, NEW r \in Requests, FindAddress(r) \/ ApprovePincode(r)
  PROVE  /\ pc[r] \in {"find", "validate"} /\ addresses' = addresses
         /\ pc'[r] \in {"validate", "clear", "count", "write", "delete"}
         /\ pc'[r] = "clear" => call[r].isDefault = "true"
         /\ pc'[r] # "validate" \/ pc[r] = "find"
         /\ pc[r] = "find" => call[r].address \in AddressesOf(call[r].user)
<1>0. call[r].op \in {"create", "update", "setDefault", "remove"}
      /\ (call[r].op = "setDefault" => call[r].isDefault = "true")
      /\ (pc[r] = "find" => call[r].op # "create")
  BY OnlyOneMoves, CallType DEF Step, PointsOf
<1>1. CASE ApprovePincode(r)
  BY <1>1 DEF ApprovePincode, AfterCheck, Goto, TypeOK, HandlersOK
<1>2. CASE FindAddress(r) /\ call[r].op = "update"
  BY <1>2 DEF FindAddress, Visible, AfterCheck, Goto, TypeOK, HandlersOK
<1>3. CASE FindAddress(r) /\ call[r].op \in {"setDefault", "remove"}
  BY <1>0, <1>3 DEF FindAddress, Visible, Goto, TypeOK, HandlersOK
<1>4. CASE FindAddress(r) /\ call[r].op = "create"
  BY <1>0, <1>4 DEF FindAddress
<1> QED
  BY <1>0, <1>1, <1>2, <1>3, <1>4

\* The row that a handler inserts is its customer's, and no row was there.
LEMMA Inserted ==
  ASSUME TypeOK, Owned, NEW r \in Requests, InsertAddress(r),
         NEW u, u = Owner(r)
  PROVE  /\ r \notin DOMAIN addresses
         /\ AddressesOf(u)' = AddressesOf(u) \cup {r}
         /\ call[r].isDefault = "true" \/ first[r] => r \in Defaults(u)'
         /\ Defaults(u) \subseteq Defaults(u)'
<1>1. r \notin DOMAIN addresses
  BY DEF InsertAddress, Owned
<1>2. /\ DOMAIN addresses' = DOMAIN addresses \cup {r}
      /\ addresses'[r].user = u
      /\ addresses'[r].isDefault = (call[r].isDefault = "true" \/ first[r])
      /\ \A a \in DOMAIN addresses : addresses'[a] = addresses[a]
  BY <1>1 DEF InsertAddress, Owner
<1> QED
  BY <1>1, <1>2 DEF AddressesOf, Defaults

\* A handler leaves itself able to find what its next call needs.
LEMMA FoundOwn ==
  ASSUME TypeOK, Owned, NEW r \in Requests, Step(r) \/ Abort(r), FoundAt(r)
  PROVE  FoundAt(r)'
<1>0. /\ pc[r] \in Points /\ pc[r] \in PointsOf(call[r].op) /\ call' = call
      /\ call[r].op \in {"create", "update", "setDefault", "remove"} /\ Owner(r)' = Owner(r)
  BY OnlyOneMoves, CallType DEF Owner
<1>1. CASE ~(FindAddress(r) \/ ApprovePincode(r) \/ ClearDefaults(r) \/ CountAddresses(r)
             \/ ChooseNext(r))
  <2>1. pc'[r] \in Terminal \cup {"choose"}
    BY <1>1 DEF Step, Abort, NotFound, RefusePincode, InsertAddress, WriteAddress, DeleteFails,
       DeleteAddress, Promote, Goto, TypeOK, HandlersOK, Terminal
  <2> QED
    BY <2>1 DEF FoundAt, Terminal
<1>2. CASE FindAddress(r) \/ ApprovePincode(r)
  <2>1. AddressesOf(Owner(r))' = AddressesOf(Owner(r))
    BY <1>0, <1>2, AfterFind DEF AddressesOf
  <2> QED
    BY <1>0, <1>2, <2>1, AfterFind DEF FoundAt, Owner
<1>3. CASE ClearDefaults(r)
  <2>1. AddressesOf(Owner(r))' = AddressesOf(Owner(r))
    BY <1>0, <1>3 DEF ClearDefaults, AddressesOf, TypeOK, AddressesOK, Address
  <2>2. pc[r] = "clear" /\ pc'[r] \in {"count", "write"}
    BY <1>3 DEF ClearDefaults, Goto, TypeOK, HandlersOK
  <2> QED
    BY <1>0, <2>1, <2>2 DEF FoundAt
<1>4. CASE CountAddresses(r)
  <2>1. AddressesOf(Owner(r))' = AddressesOf(Owner(r))
    BY <1>0, <1>4 DEF CountAddresses, AddressesOf
  <2>2. pc'[r] = "insert" /\ (first'[r] = (AddressesOf(Owner(r)) = {}))
    BY <1>4 DEF CountAddresses, Goto, TypeOK, HandlersOK, Owner
  <2> QED
    BY <1>0, <2>1, <2>2 DEF FoundAt
<1>5. CASE ChooseNext(r)
  <2>1. AddressesOf(Owner(r))' = AddressesOf(Owner(r))
    BY <1>0, <1>5 DEF ChooseNext, AddressesOf
  <2>2. pc'[r] = "done" \/ (pc'[r] = "promote" /\ next'[r] \in AddressesOf(Owner(r)))
    BY <1>5 DEF ChooseNext, Goto, TypeOK, HandlersOK, Owner
  <2> QED
    BY <1>0, <2>1, <2>2 DEF FoundAt
<1> QED
  BY <1>1, <1>2, <1>3, <1>4, <1>5

\* The handler of a customer's only request leaves a default, or will make one.
LEMMA KeptOwn ==
  ASSUME TypeOK, Owned, NEW r \in Requests, Step(r) \/ Abort(r), FoundAt(r),
         NEW u \in Users, u = Owner(r), pc'[r] # "failed",
         ~(call[r].op = "update" /\ call[r].isDefault = "false"),
         AddressesOf(u) # {} => Defaults(u) # {} \/ MakesDefault(r),
         AddressesOf(u)' # {}
  PROVE  Defaults(u)' # {} \/ MakesDefault(r)'
<1>0. /\ pc[r] \in Points /\ pc[r] \in PointsOf(call[r].op) /\ call' = call /\ call[r] \in Calls
      /\ call[r].op \in {"create", "update", "setDefault", "remove"}
  BY OnlyOneMoves, CallType
<1>1. CASE NotFound(r) \/ RefusePincode(r) \/ DeleteFails(r) \/ Abort(r)
  <2>1. pc[r] \in {"find", "validate"} /\ addresses' = addresses
    BY <1>1 DEF NotFound, RefusePincode, DeleteFails, Abort, Goto, TypeOK, HandlersOK
  <2> QED
    BY <2>1 DEF AddressesOf, Defaults, MakesDefault
<1>2. CASE FindAddress(r) \/ ApprovePincode(r)
  BY <1>2, AfterFind DEF AddressesOf, Defaults, MakesDefault
<1>3. CASE ClearDefaults(r)
  <2>1. pc[r] = "clear" /\ pc'[r] \in {"count", "write"}
    BY <1>3 DEF ClearDefaults, Goto, TypeOK, HandlersOK
  <2> QED
    BY <1>0, <2>1 DEF FoundAt, MakesDefault
<1>4. CASE CountAddresses(r)
  <2>1. pc[r] = "count" /\ pc'[r] = "insert" /\ addresses' = addresses
    BY <1>4 DEF CountAddresses, Goto, TypeOK, HandlersOK
  <2> QED
    BY <1>0, <2>1 DEF AddressesOf, Defaults, MakesDefault
<1>5. CASE InsertAddress(r)
  <2>1. pc[r] = "insert"
    BY <1>5 DEF InsertAddress
  <2>2. CASE call[r].isDefault = "true" \/ first[r]
    BY <1>5, <2>2, Inserted
  <2>3. CASE ~(call[r].isDefault = "true" \/ first[r])
    <3>1. Defaults(u) # {}
      BY <2>1, <2>3 DEF FoundAt, MakesDefault
    <3> QED
      BY <1>5, <3>1, Inserted
  <2> QED
    BY <2>2, <2>3
<1>6. CASE WriteAddress(r)
  <2>1. pc[r] = "write" /\ call[r].op \in {"update", "setDefault"}
        /\ (call[r].op = "setDefault" => call[r].isDefault = "true")
    BY <1>0, <1>6, CallType DEF WriteAddress, PointsOf
  <2>2. call[r].isDefault \in Given
    BY <1>0, <2>1 DEF Calls, CreateCall, UpdateCall, DefaultCall, RemoveCall, Given
  <2>3. /\ DOMAIN addresses' = DOMAIN addresses
        /\ \A a \in DOMAIN addresses :
              addresses'[a] = IF a = call[r].address THEN Changed(addresses[a], call[r])
                              ELSE addresses[a]
    BY <1>6 DEF WriteAddress
  <2>4. \A a \in DOMAIN addresses : addresses'[a].user = addresses[a].user
    BY <1>0, <2>3, ChangedRow DEF TypeOK, AddressesOK
  <2>5. AddressesOf(u)' = AddressesOf(u)
    BY <2>3, <2>4 DEF AddressesOf
  <2>6. CASE call[r].isDefault = "true"
    <3>1. call[r].address \in AddressesOf(u)
      BY <2>1 DEF FoundAt
    <3>2. call[r].address \in DOMAIN addresses /\ addresses[call[r].address] \in Address
      BY <3>1 DEF AddressesOf, TypeOK, AddressesOK
    <3>3. Changed(addresses[call[r].address], call[r]).isDefault
      BY <1>0, <2>6, <3>2, ChangedRow DEF None
    <3>4. addresses'[call[r].address].isDefault
      BY <2>3, <3>2, <3>3
    <3> QED
      BY <2>5, <3>1, <3>4 DEF Defaults
  <2>7. CASE call[r].isDefault = None
    <3>1. \A a \in DOMAIN addresses : addresses'[a].isDefault = addresses[a].isDefault
      BY <1>0, <2>3, <2>7, ChangedRow DEF TypeOK, AddressesOK
    <3>2. Defaults(u)' = Defaults(u)
      BY <2>3, <2>5, <3>1 DEF Defaults, AddressesOf
    <3> QED
      BY <2>5, <2>7, <2>1, <3>2 DEF MakesDefault, None
  <2> QED
    BY <2>1, <2>2, <2>6, <2>7 DEF Given
<1>7. CASE DeleteAddress(r)
  <2>1. /\ pc[r] = "delete"
        /\ pc'[r] = IF addresses[call[r].address].isDefault THEN "choose" ELSE "done"
    BY <1>7 DEF DeleteAddress, Goto, TypeOK, HandlersOK
  <2>2. CASE addresses[call[r].address].isDefault
    BY <2>1, <2>2 DEF MakesDefault
  <2>3. CASE ~addresses[call[r].address].isDefault
    <3>1. AddressesOf(u)' \subseteq AddressesOf(u) /\ Defaults(u) \subseteq Defaults(u)'
      BY <1>7, <2>3 DEF DeleteAddress, Defaults, AddressesOf
    <3> QED
      BY <2>1, <3>1 DEF MakesDefault
  <2> QED
    BY <2>2, <2>3
<1>8. CASE ChooseNext(r)
  <2>1. AddressesOf(u)' = AddressesOf(u)
    BY <1>8 DEF ChooseNext, AddressesOf
  <2>2. pc'[r] = "promote"
    BY <1>8, <2>1 DEF ChooseNext, Goto, TypeOK, HandlersOK, Owner
  <2> QED
    BY <2>2 DEF MakesDefault
<1>9. CASE Promote(r)
  <2>1. next[r] \in AddressesOf(u)
    BY <1>9 DEF Promote, FoundAt
  <2>2. next[r] \in DOMAIN addresses' /\ addresses'[next[r]] = [addresses[next[r]] EXCEPT !.isDefault = TRUE]
    BY <1>9, <2>1 DEF Promote, AddressesOf
  <2>3. addresses[next[r]] \in Address /\ addresses[next[r]].user = u
    BY <2>1 DEF AddressesOf, TypeOK, AddressesOK
  <2>4. next[r] \in Defaults(u)'
    BY <2>2, <2>3 DEF Defaults, AddressesOf, Address
  <2> QED
    BY <2>4
<1> QED
  BY <1>1, <1>2, <1>3, <1>4, <1>5, <1>6, <1>7, <1>8, <1>9 DEF Step

LEMMA KeptStep ==
  ASSUME TypeOK, Owned, Alone, Found, Kept, NEW r \in Requests, Step(r) \/ Abort(r)
  PROVE  Found' /\ Kept'
<1>1. /\ pc[r] \in Points /\ call' = call /\ overlapped' = overlapped /\ pc'[r] # "idle"
      /\ \A q \in Requests : q # r => pc'[q] = pc[q]
  BY OnlyOneMoves
<1>2. \A q \in Requests : q # r => first'[q] = first[q] /\ next'[q] = next[q]
  BY DEF Step, Abort, NotFound, FindAddress, ApprovePincode, RefusePincode, ClearDefaults,
     CountAddresses, InsertAddress, WriteAddress, DeleteFails, DeleteAddress, ChooseNext,
     Promote, locals, TypeOK
<1>3. /\ InFlight' \subseteq InFlight /\ r \in InFlight /\ InFlight \subseteq Requests
      /\ \A q \in InFlight : q # r => q \in InFlight'
  BY <1>1 DEF InFlight
<1>4. \A q \in Requests : Owner(q)' = Owner(q)
  BY <1>1 DEF Owner
<1>5. \A q \in InFlight : Owner(q) \in Users
  BY CallType DEF InFlight, Owner, TypeOK, HandlersOK, Points
<1>6. \A q \in InFlight : q # r /\ Owner(q) \notin overlapped => Owner(q) # Owner(r)
  BY <1>3, <1>5 DEF Alone
<1>7. ASSUME NEW q \in InFlight', Owner(q)' \notin overlapped'
      PROVE  FoundAt(q)'
  <2>1. q \in InFlight /\ q \in Requests /\ Owner(q) \notin overlapped /\ FoundAt(q)
    BY <1>1, <1>3, <1>4, <1>7 DEF Found
  <2>2. CASE q = r
    BY <2>1, <2>2, FoundOwn
  <2>3. CASE q # r
    <3>1. \A u \in Users : u = Owner(q) => AddressesOf(u)' = AddressesOf(u)
      BY <1>6, <2>1, <2>3, OtherBooks
    <3>2. AddressesOf(Owner(q))' = AddressesOf(Owner(q))
      BY <1>4, <1>5, <2>1, <3>1 DEF AddressesOf
    <3> QED
      BY <1>1, <1>2, <1>4, <2>1, <2>3, <3>2 DEF FoundAt
  <2> QED
    BY <2>2, <2>3
<1>8. ASSUME NEW u \in Users, Wholesome(u)', AddressesOf(u)' # {}
      PROVE  Defaults(u)' # {} \/ \E q \in InFlight' : Owner(q)' = u /\ MakesDefault(q)'
  <2>1. /\ Wholesome(u)
        /\ u = Owner(r) => /\ pc'[r] # "failed"
                           /\ ~(call[r].op = "update" /\ call[r].isDefault = "false")
    BY <1>1, <1>4, <1>8 DEF Wholesome, Points
  <2>2. CASE u = Owner(r)
    <3>1. \A q \in InFlight : Owner(q) = u => q = r
      BY <1>6, <2>1, <2>2 DEF Wholesome
    <3>2. AddressesOf(u) # {} => Defaults(u) # {} \/ MakesDefault(r)
      BY <2>1, <3>1 DEF Kept
    <3>3. FoundAt(r)
      BY <1>3, <2>1, <2>2 DEF Found, Wholesome
    <3>4. Defaults(u)' # {} \/ MakesDefault(r)'
      BY <1>8, <2>1, <2>2, <3>2, <3>3, KeptOwn
    <3>5. MakesDefault(r)' => r \in InFlight'
      BY DEF MakesDefault, InFlight, Points
    <3> QED
      BY <1>4, <2>2, <3>4, <3>5
  <2>3. CASE u # Owner(r)
    <3>1. AddressesOf(u)' = AddressesOf(u) /\ Defaults(u)' = Defaults(u)
      BY <2>3, OtherBooks
    <3>2. Defaults(u) # {} \/ \E q \in InFlight : Owner(q) = u /\ MakesDefault(q)
      BY <1>8, <2>1, <3>1 DEF Kept
    <3>3. \A q \in InFlight : Owner(q) = u /\ MakesDefault(q) =>
              q \in InFlight' /\ Owner(q)' = u /\ MakesDefault(q)'
      BY <1>1, <1>3, <1>4, <2>3 DEF MakesDefault
    <3> QED
      BY <3>1, <3>2, <3>3
  <2> QED
    BY <2>2, <2>3
<1> QED
  BY <1>7, <1>8 DEF Found, Kept

LEMMA KeptStart ==
  ASSUME TypeOK, Found, Kept, NEW r \in Requests, StartCreate(r) \/ StartOther(r)
  PROVE  Found' /\ Kept'
<1>1. PICK c \in Calls, point \in {"find", "validate"} :
          /\ Start(r, c, point)
          /\ point = "validate" => c.op = "create"
  BY DEF StartCreate, StartOther, Calls, CreateCall, UpdateCall, DefaultCall, RemoveCall
<1>2. /\ pc[r] = "idle" /\ pc'[r] = point /\ call'[r] = c
      /\ \A q \in Requests \ {r} : pc'[q] = pc[q] /\ call'[q] = call[q]
      /\ addresses' = addresses /\ first' = first /\ next' = next
      /\ overlapped \subseteq overlapped'
  BY <1>1 DEF Start, Goto, TypeOK, HandlersOK
<1>3. InFlight' = InFlight \cup {r} /\ r \notin InFlight /\ InFlight \subseteq Requests
  BY <1>2 DEF InFlight, Points
<1>4. ASSUME NEW q \in InFlight', Owner(q)' \notin overlapped'
      PROVE  FoundAt(q)'
  <2>1. CASE q = r
    BY <1>1, <1>2, <2>1 DEF FoundAt
  <2>2. CASE q # r
    <3>1. /\ q \in InFlight /\ pc'[q] = pc[q] /\ call'[q] = call[q]
          /\ Owner(q)' = Owner(q) /\ Owner(q) \notin overlapped
      BY <1>2, <1>3, <1>4, <2>2 DEF Owner
    <3>2. FoundAt(q) /\ AddressesOf(Owner(q))' = AddressesOf(Owner(q))
      BY <1>2, <3>1 DEF Found, AddressesOf
    <3> QED
      BY <1>2, <3>1, <3>2 DEF FoundAt
  <2> QED
    BY <2>1, <2>2
<1>5. ASSUME NEW u \in Users, Wholesome(u)', AddressesOf(u)' # {}
      PROVE  Defaults(u)' # {} \/ \E q \in InFlight' : Owner(q)' = u /\ MakesDefault(q)'
  <2>1. Wholesome(u)
    BY <1>2, <1>5 DEF Wholesome, Owner
  <2>2. AddressesOf(u)' = AddressesOf(u) /\ Defaults(u)' = Defaults(u)
    BY <1>2 DEF AddressesOf, Defaults
  <2>3. \A q \in InFlight : Owner(q) = u /\ MakesDefault(q) =>
            q \in InFlight' /\ Owner(q)' = u /\ MakesDefault(q)'
    BY <1>2, <1>3 DEF MakesDefault, Owner
  <2> QED
    BY <1>5, <2>1, <2>2, <2>3 DEF Kept
<1> QED
  BY <1>4, <1>5 DEF Found, Kept

LEMMA KeptInductive ==
    TypeOK /\ Owned /\ Alone /\ Found /\ Kept /\ [Next]_vars => Found' /\ Kept'
<1>1. ASSUME Found, Kept, UNCHANGED <<addresses, pc, call, first, next, overlapped>>
      PROVE  Found' /\ Kept'
  BY <1>1 DEF Found, Kept, FoundAt, Wholesome, MakesDefault, Defaults, AddressesOf, InFlight, Owner
<1>2. ASSUME \/ \E z \in ZoneIds : CreateZone(z) \/ UpdateZone(z) \/ DeleteZone(z)
             \/ \E a \in Requests : PlaceOrder(a)
             \/ UNCHANGED vars
      PROVE  UNCHANGED <<addresses, pc, call, first, next, overlapped>>
  BY <1>2 DEF CreateZone, UpdateZone, DeleteZone, PlaceOrder, vars, locals, history
<1> QED
  BY <1>1, <1>2, KeptStep, KeptStart DEF Next

\* A customer who has addresses and whose requests are over, none of them
\* overlapped, failed or meant to leave no default, has a default address.
THEOREM DefaultStays == Spec => []DefaultIsKept
<1>1. Init => Found /\ Kept /\ OneDefault /\ Alone
  BY DEF Init, Found, Kept, OneDefault, Alone, Defaults, AddressesOf, InFlight, Points
<1>2. TypeOK /\ Kept => DefaultIsKept
  <2> SUFFICES ASSUME TypeOK, Kept, NEW u \in Users, Settled(u), AddressesOf(u) # {}
               PROVE  Defaults(u) # {}
    BY DEF DefaultIsKept
  <2>1. ASSUME NEW r \in Requests, pc[r] # "idle", Owner(r) = u
        PROVE  /\ pc[r] \in {"done", "rejected"}
               /\ ~(call[r].op = "update" /\ call[r].isDefault = "false")
    <3>1. call[r] # NoCall
      BY <2>1, CallType DEF TypeOK, HandlersOK, NoCall, None
    <3> QED
      BY <2>1, <3>1 DEF Settled, Owner
  <2>2. Wholesome(u)
    BY <2>1 DEF Wholesome, Settled
  <2>3. \A r \in InFlight : Owner(r) # u
    BY <2>1 DEF InFlight, Points
  <2> QED
    BY <2>2, <2>3 DEF Kept
<1> QED
  BY <1>1, <1>2, TypeCorrect, AlwaysOwned, AloneInductive, KeptInductive, PTL DEF Spec

=============================================================================
