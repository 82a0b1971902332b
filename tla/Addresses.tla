----------------------------- MODULE Addresses -----------------------------
(***************************************************************************)
(* The address book of the NestJS service (addresses.service.ts) and the   *)
(* delivery zones of the Go service it asks about pincodes                 *)
(* (delivery_zone_service.go).                                             *)
(*                                                                         *)
(* As in Orders, no handler opens a transaction: every awaited call is a   *)
(* step, and handlers of two replicas overlap.  The uuid of the address a  *)
(* POST /addresses inserts is identified with the request.  Names, phones  *)
(* and streets are left out.                                               *)
(***************************************************************************)
EXTENDS Integers, FiniteSets

CONSTANTS
    Users,        \* customers
    Requests,     \* HTTP requests, each used once: bounds the number of calls
    Pincodes,     \* pincodes
    ZoneIds,      \* ids a delivery zone may get: bounds their number
    MaxInFlight,  \* handlers that may be suspended at the same time
    Faults        \* whether an awaited call may throw, or the pod die

None == "none"

ASSUME PincodesAssumption == None \notin Pincodes
ASSUME MaxInFlightAssumption == MaxInFlight \in Nat
ASSUME FaultsAssumption == Faults \in BOOLEAN

VARIABLES
    zones,       \* delivery_zones: id -> [pincode, serviceable]
    addresses,   \* addresses: id -> [user, pincode, isDefault]
    ordered,     \* the addresses that a row of orders refers to
    pc,          \* where the handler of a request is suspended
    call,        \* the request's parameters
    first,       \* create: its SELECT found no address of the user
    next,        \* remove: the address its SELECT chose as the next default
    approved,    \* history: the requests whose pincode was found serviceable
    overlapped   \* history: the users two of whose requests were in flight at once

locals  == <<call, first, next>>
history == <<approved, overlapped>>
vars == <<zones, addresses, ordered, pc, locals, history>>


\* isDefault of a request body; create treats false like none.
Given == {"true", "false", None}

CreateCall  == [op : {"create"}, user : Users, address : Requests,
                pincode : Pincodes, isDefault : {"true", None}]
UpdateCall  == [op : {"update"}, user : Users, address : Requests,
                pincode : Pincodes \cup {None}, isDefault : Given]
DefaultCall == [op : {"setDefault"}, user : Users, address : Requests,
                pincode : {None}, isDefault : {"true"}]
RemoveCall  == [op : {"remove"}, user : Users, address : Requests,
                pincode : {None}, isDefault : {None}]
NoCall      == [op |-> None]
Calls       == CreateCall \cup UpdateCall \cup DefaultCall \cup RemoveCall

Zone    == [pincode : Pincodes, serviceable : BOOLEAN]
Address == [user : Users, pincode : Pincodes, isDefault : BOOLEAN]

Terminal == {"done", "rejected", "failed"}
Points   == {"find", "validate", "clear", "count", "insert", "write",
             "delete", "choose", "promote"}

\* Where each handler awaits something.
PointsOf(op) ==
    CASE op = "create"     -> {"validate", "clear", "count", "insert"}
      [] op = "update"     -> {"find", "validate", "clear", "write"}
      [] op = "setDefault" -> {"find", "clear", "write"}
      [] op = "remove"     -> {"find", "delete", "choose", "promote"}

\* A handler is suspended only where its operation can be.
HandlersOK ==
    /\ pc \in [Requests -> Points \cup Terminal \cup {"idle"}]
    /\ call \in [Requests -> Calls \cup {NoCall}]
    /\ \A r \in Requests :
           /\ pc[r] # "idle" => call[r] \in Calls
           /\ pc[r] \in Points => pc[r] \in PointsOf(call[r].op)
           /\ pc[r] = "validate" => call[r].pincode \in Pincodes

AddressesOK ==
    /\ DOMAIN addresses \subseteq Requests
    /\ addresses \in [DOMAIN addresses -> Address]

ZonesOK ==
    /\ DOMAIN zones \subseteq ZoneIds
    /\ zones \in [DOMAIN zones -> Zone]

\* The state has its type, and the handlers are where they can be.
TypeOK ==
    /\ ZonesOK
    /\ AddressesOK
    /\ ordered \subseteq Requests
    /\ HandlersOK
    /\ first \in [Requests -> BOOLEAN]
    /\ next \in [Requests -> Requests]
    /\ approved \subseteq Requests
    /\ overlapped \subseteq Users

Init ==
    /\ zones = [z \in {} |-> None]
    /\ addresses = [a \in {} |-> None]
    /\ ordered = {}
    /\ pc = [r \in Requests |-> "idle"]
    /\ call = [r \in Requests |-> NoCall]
    /\ first = [r \in Requests |-> FALSE]
    /\ next = [r \in Requests |-> r]
    /\ approved = {} /\ overlapped = {}

AddressesOf(u) == {a \in DOMAIN addresses : addresses[a].user = u}
InFlight == {r \in Requests : pc[r] \in Points}
Goto(r, point) == pc' = [pc EXCEPT ![r] = point]

-----------------------------------------------------------------------------
(* delivery_zone_service.go.  No index makes the pincode of a zone unique.  *)

CreateZone(z) ==
    /\ z \notin DOMAIN zones
    /\ \E zone \in Zone :
           zones' = [y \in DOMAIN zones \cup {z} |-> IF y = z THEN zone ELSE zones[y]]
    /\ UNCHANGED <<addresses, ordered, pc, locals, history>>

UpdateZone(z) ==
    /\ z \in DOMAIN zones
    /\ \E zone \in Zone : zones' = [zones EXCEPT ![z] = zone]
    /\ UNCHANGED <<addresses, ordered, pc, locals, history>>

DeleteZone(z) ==
    /\ z \in DOMAIN zones
    /\ zones' = [y \in DOMAIN zones \ {z} |-> zones[y]]
    /\ UNCHANGED <<addresses, ordered, pc, locals, history>>

-----------------------------------------------------------------------------
(* Requests. *)

Start(r, c, point) ==
    /\ pc[r] = "idle"
    /\ Cardinality(InFlight) < MaxInFlight
    /\ call' = [call EXCEPT ![r] = c]
    /\ Goto(r, point)
    /\ overlapped' = overlapped \cup {u \in {c.user} : \E q \in InFlight : call[q].user = u}
    /\ UNCHANGED <<zones, addresses, ordered, first, next, approved>>

StartCreate(r) ==
    \E c \in CreateCall : c.address = r /\ Start(r, c, "validate")

\* The other handlers are asked about addresses that exist.
StartOther(r) ==
    \E c \in UpdateCall \cup DefaultCall \cup RemoveCall :
        c.address \in DOMAIN addresses /\ Start(r, c, "find")

-----------------------------------------------------------------------------
(* The SELECT that opens update, setDefault and remove. *)

Visible(r) == call[r].address \in AddressesOf(call[r].user)

\* Mutant: update validates the pincode also when none is given.
NeedsCheckAlways(r) == call[r].pincode # addresses[call[r].address].pincode

\* update validates a pincode that differs from the one it read.
NeedsCheck(r) ==
    /\ call[r].pincode # None
    /\ call[r].pincode # addresses[call[r].address].pincode

\* Mutant: update sets its address without clearing the others.
AfterCheckNoClear(r) ==
    IF call[r].op = "create" THEN (IF call[r].isDefault = "true" THEN "clear" ELSE "count")
    ELSE "write"

\* A request for the default clears the other defaults first.
AfterCheck(r) ==
    IF call[r].isDefault = "true" THEN "clear"
    ELSE IF call[r].op = "create" THEN "count" ELSE "write"

NotFound(r) ==
    /\ pc[r] = "find"
    /\ ~Visible(r)
    /\ Goto(r, "rejected")
    /\ UNCHANGED <<zones, addresses, ordered, locals, history>>

FindAddress(r) ==
    /\ pc[r] = "find"
    /\ Visible(r)
    /\ Goto(r, CASE call[r].op = "update" ->
                        IF NeedsCheck(r) THEN "validate" ELSE AfterCheck(r)
                 [] call[r].op = "setDefault" -> "clear"
                 [] call[r].op = "remove" -> "delete")
    /\ UNCHANGED <<zones, addresses, ordered, locals, history>>

-----------------------------------------------------------------------------
(* validatePincode, asked by create and update. *)

ZonesOf(pincode) == {z \in DOMAIN zones : zones[z].pincode = pincode}

\* FindOne returns one of the zones with the pincode, and it is serviceable.
ApprovePincode(r) ==
    /\ pc[r] = "validate"
    /\ \E z \in ZonesOf(call[r].pincode) : zones[z].serviceable
    /\ approved' = approved \cup {r}
    /\ Goto(r, AfterCheck(r))
    /\ UNCHANGED <<zones, addresses, ordered, locals, overlapped>>

\* There is none, or it is not serviceable, or the call failed.
RefusePincode(r) ==
    /\ pc[r] = "validate"
    /\ \/ ZonesOf(call[r].pincode) = {}
       \/ \E z \in ZonesOf(call[r].pincode) : ~zones[z].serviceable
       \/ Faults
    /\ Goto(r, "rejected")
    /\ UNCHANGED <<zones, addresses, ordered, locals, history>>

-----------------------------------------------------------------------------
(* The writes. *)

ClearDefaults(r) ==
    /\ pc[r] = "clear"
    /\ addresses' = [a \in DOMAIN addresses |->
                        IF addresses[a].user = call[r].user
                        THEN [addresses[a] EXCEPT !.isDefault = FALSE]
                        ELSE addresses[a]]
    /\ Goto(r, IF call[r].op = "create" THEN "count" ELSE "write")
    /\ UNCHANGED <<zones, ordered, locals, history>>

CountAddresses(r) ==
    /\ pc[r] = "count"
    /\ first' = [first EXCEPT ![r] = (AddressesOf(call[r].user) = {})]
    /\ Goto(r, "insert")
    /\ UNCHANGED <<zones, addresses, ordered, call, next, history>>

InsertAddress(r) ==
    /\ pc[r] = "insert"
    /\ addresses' = [a \in DOMAIN addresses \cup {r} |->
                        IF a = r THEN [user      |-> call[r].user,
                                       pincode   |-> call[r].pincode,
                                       isDefault |-> (call[r].isDefault = "true" \/ first[r])]
                        ELSE addresses[a]]
    /\ Goto(r, "done")
    /\ UNCHANGED <<zones, ordered, locals, history>>

\* The row as the fields given in the request leave it.
Changed(row, c) ==
    [user      |-> row.user,
     pincode   |-> IF c.pincode = None THEN row.pincode ELSE c.pincode,
     isDefault |-> IF c.isDefault = None THEN row.isDefault ELSE c.isDefault = "true"]

\* UPDATE addresses WHERE id: no effect when the address has been deleted.
WriteAddress(r) ==
    /\ pc[r] = "write"
    /\ addresses' = [a \in DOMAIN addresses |->
                        IF a = call[r].address THEN Changed(addresses[a], call[r])
                        ELSE addresses[a]]
    /\ Goto(r, "done")
    /\ UNCHANGED <<zones, ordered, locals, history>>

\* DELETE, which the foreign key of orders refuses, and whose empty answer
\* the handler does not expect.
DeleteFails(r) ==
    /\ pc[r] = "delete"
    /\ call[r].address \in ordered \/ call[r].address \notin DOMAIN addresses
    /\ Goto(r, "failed")
    /\ UNCHANGED <<zones, addresses, ordered, locals, history>>

\* Mutant: no other address takes the place of a deleted default.
DeleteAddressOnly(r) ==
    /\ pc[r] = "delete"
    /\ call[r].address \in DOMAIN addresses \ ordered
    /\ addresses' = [a \in DOMAIN addresses \ {call[r].address} |-> addresses[a]]
    /\ Goto(r, "done")
    /\ UNCHANGED <<zones, ordered, locals, history>>

DeleteAddress(r) ==
    /\ pc[r] = "delete"
    /\ call[r].address \in DOMAIN addresses \ ordered
    /\ addresses' = [a \in DOMAIN addresses \ {call[r].address} |-> addresses[a]]
    /\ Goto(r, IF addresses[call[r].address].isDefault THEN "choose" ELSE "done")
    /\ UNCHANGED <<zones, ordered, locals, history>>

ChooseNext(r) ==
    /\ pc[r] = "choose"
    /\ \/ /\ AddressesOf(call[r].user) = {}
          /\ Goto(r, "done")
          /\ UNCHANGED next
       \/ \E a \in AddressesOf(call[r].user) :
              /\ next' = [next EXCEPT ![r] = a]
              /\ Goto(r, "promote")
    /\ UNCHANGED <<zones, addresses, ordered, call, first, history>>

Promote(r) ==
    /\ pc[r] = "promote"
    /\ addresses' = [a \in DOMAIN addresses |->
                        IF a = next[r] THEN [addresses[a] EXCEPT !.isDefault = TRUE]
                        ELSE addresses[a]]
    /\ Goto(r, "done")
    /\ UNCHANGED <<zones, ordered, locals, history>>

-----------------------------------------------------------------------------
\* An order is placed to an address (orders.service.ts).
PlaceOrder(a) ==
    /\ a \in DOMAIN addresses
    /\ ordered' = ordered \cup {a}
    /\ UNCHANGED <<zones, addresses, pc, locals, history>>

\* The call a handler awaits throws, or its pod is killed.
Abort(r) ==
    /\ Faults
    /\ pc[r] \in Points
    /\ Goto(r, "failed")
    /\ UNCHANGED <<zones, addresses, ordered, locals, history>>

Step(r) ==
    \/ NotFound(r) \/ FindAddress(r) \/ ApprovePincode(r) \/ RefusePincode(r)
    \/ ClearDefaults(r) \/ CountAddresses(r) \/ InsertAddress(r) \/ WriteAddress(r)
    \/ DeleteFails(r) \/ DeleteAddress(r) \/ ChooseNext(r) \/ Promote(r)

Next ==
    \/ \E r \in Requests : StartCreate(r) \/ StartOther(r) \/ Step(r) \/ Abort(r)
    \/ \E z \in ZoneIds : CreateZone(z) \/ UpdateZone(z) \/ DeleteZone(z)
    \/ \E a \in Requests : PlaceOrder(a)

Spec == Init /\ [][Next]_vars

-----------------------------------------------------------------------------
(* Properties. *)

Defaults(u) == {a \in AddressesOf(u) : addresses[a].isDefault}

\* A customer has at most one default address as long as no two of their
\* requests overlap, whatever the other customers do and whichever handler
\* dies on the way (create, update and setDefault clear before they set,
\* remove chooses a new default only when it deleted the old one).
OneDefault ==
    \A u \in Users \ overlapped : \A a, b \in Defaults(u) : a = b

\* The customer has left the book as it is: nothing of theirs is running,
\* has failed, or has asked that an address not be the default.
Settled(u) ==
    /\ u \notin overlapped
    /\ \A r \in Requests : call[r] # NoCall /\ call[r].user = u =>
           /\ pc[r] \in {"done", "rejected"}
           /\ ~(call[r].op = "update" /\ call[r].isDefault = "false")

\* A customer who has addresses has a default among them: the first address
\* becomes the default, and deleting the default passes it on.
DefaultIsKept ==
    \A u \in Users : Settled(u) /\ AddressesOf(u) # {} => Defaults(u) # {}

\* Every address has a pincode that some request for this very address was
\* told is serviceable, although zones come and go, handlers overlap, and an
\* update does not check a pincode that it believes unchanged.
PincodesWereApproved ==
    \A a \in DOMAIN addresses : \E r \in approved :
        call[r].address = a /\ call[r].pincode = addresses[a].pincode

\* An address changes, comes and goes only by a request of its customer.
OwnershipRespected ==
    [][\A r \in Requests : Step(r) =>
         \A a \in DOMAIN addresses :
             \/ addresses[a].user = call[r].user
             \/ a \in DOMAIN addresses' /\ addresses'[a] = addresses[a]]_vars

=============================================================================
