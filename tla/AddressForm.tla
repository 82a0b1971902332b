------------------------------ MODULE AddressForm ------------------------------
(***************************************************************************)
(* The customer's page of addresses (dashboard/addresses/page.tsx) and its *)
(* form (AddressModal.tsx), which asks after a pause whether a pincode is  *)
(* delivered to.  A handler of the service that moves the default mark is  *)
(* two steps, so that two of them may overlap; the others are single steps *)
(* here, and every interleaving of theirs is the matter of Addresses.  Of  *)
(* an address its pincode and its default mark are kept, the other fields  *)
(* are taken as filled.                                                    *)
(***************************************************************************)
EXTENDS Integers, Sequences, FiniteSets, SequencesExt, Listing

CONSTANTS
    Pins,         \* pincodes of four characters and more
    Serviceable,  \* those that are delivered to
    Stored,       \* number of addresses there are at first
    FirstDefaults,\* those that may be the default at first
    MaxTyped,     \* bound: changes of the pincode
    MaxCalls,     \* bound: requests of the page besides those of the pincode
    MaxMoves      \* bound: both together

\* Any pincode that is too short to be asked about.
Short == "short"

ASSUME PinsAssumption ==
    /\ Serviceable \subseteq Pins /\ Short \notin Pins
    /\ Stored \in Nat \ {0} /\ FirstDefaults \subseteq 1 .. Stored
    /\ MaxTyped \in Nat /\ MaxCalls \in Nat /\ MaxMoves \in Nat

NoVerdict == [pin |-> Short, serviceable |-> TRUE]

VARIABLES
    book,       \* the user's rows: id -> [pin, isDefault]
    ids,        \* number of addresses created so far
    \* the page
    addresses, status, modalOpen, editing, modalLoading, deletingId,
    \* the form
    pincode, isDefault, touched, timeout, validation, validating,
    \* requests and answers under way
    checks, asked, replies,
    begun,      \* those of asked whose handler has cleared the marks and not yet set its own
    typed, calls,
    \* history
    retyped,  \* the pincode changed while it was asked about
    crossed,  \* a load ran beside a write, or an answer was lost or overtaken
    unmarked, \* a form or a deletion moved the default mark
    overlapped \* a handler cleared the marks while another had not set its own

form_vars == <<pincode, isDefault, touched, timeout, validation>>
page_of_addresses == <<addresses, status, modalOpen, editing, modalLoading, deletingId>>
addressForm_vars == <<book, ids, page_of_addresses, form_vars, validating, checks, asked, replies,
                      begun, typed, calls, retyped, crossed, unmarked, overlapped>>

Request(op, id, pin, mark, n) == [op |-> op, id |-> id, pin |-> pin, mark |-> mark, n |-> n]
Line(id, row) == [id |-> id, pin |-> row.pin, isDefault |-> row.isDefault]

AddressFormTypeOK ==
    /\ DOMAIN book \subseteq 1 .. ids
    /\ \A id \in DOMAIN book : book[id] \in [pin : Serviceable, isDefault : BOOLEAN]
    /\ addresses \in Seq([id : 1 .. ids, pin : Pins, isDefault : BOOLEAN])
    /\ status \in {"loading", "error", "shown"} /\ editing \in 0 .. ids /\ deletingId \in 0 .. ids
    /\ {modalOpen, modalLoading, isDefault, touched, timeout, validating,
        retyped, crossed, unmarked, overlapped} \subseteq BOOLEAN
    /\ pincode \in Pins \cup {Short}
    /\ validation \in [pin : Pins, serviceable : BOOLEAN] \cup {NoVerdict}
    /\ \A c \in checks : c.pin \in Pins
    /\ begun \subseteq asked
    /\ \A r \in begun : r.mark /\ r.op \in {"create", "update", "setDefault"}
    /\ typed \in 0 .. MaxTyped /\ calls \in 1 .. MaxCalls + 1

\* The page has just asked for the addresses; one of them is the default.
AddressFormInit ==
    /\ \E d \in FirstDefaults, pins \in [1 .. Stored -> Serviceable] :
          book = [id \in 1 .. Stored |-> [pin |-> pins[id], isDefault |-> id = d]]
    /\ ids = Stored
    /\ addresses = <<>> /\ status = "loading" /\ modalOpen = FALSE /\ editing = 0
    /\ modalLoading = FALSE /\ deletingId = 0
    /\ pincode = Short /\ isDefault = FALSE /\ touched = FALSE /\ timeout = FALSE
    /\ validation = NoVerdict /\ validating = FALSE
    /\ checks = {} /\ asked = {Request("load", 0, Short, FALSE, 0)} /\ replies = <<>>
    /\ begun = {}
    /\ typed = 0 /\ calls = 1
    /\ retyped = FALSE /\ crossed = FALSE /\ unmarked = FALSE /\ overlapped = FALSE

----------------------------------------------------------------------------
(* The service: addresses.service.ts.                                      *)

\* The first address is a default.
PutAddress(id, pin, mark) ==
    book' = [x \in DOMAIN book \cup {id} |->
                IF x = id THEN [pin |-> pin, isDefault |-> mark \/ (id > ids /\ DOMAIN book = {})]
                ELSE book[x]]

\* The default is followed by the oldest of the others.
DropAddress(id) ==
    LET rest == DOMAIN book \ {id}
    IN  book' = [x \in rest |->
                    [book[x] EXCEPT !.isDefault =
                        @ \/ (book[id].isDefault /\ \A y \in rest : x <= y)]]

Answered(r, ok, rows) ==
    /\ asked' = asked \ {r} /\ begun' = begun \ {r}
    /\ replies' = Append(replies, [r |-> r, ok |-> ok, rows |-> rows])

ServeLoadOf(r) ==
    /\ r.op = "load"
    /\ LET order == Ascending(DOMAIN book)
       IN  Answered(r, TRUE, [i \in 1 .. Len(order) |-> Line(order[i], book[order[i]])])
    /\ UNCHANGED <<book, ids, crossed, overlapped>>

\* A pincode that is not delivered to is refused, unless the address has it already.
MayBeSaved(r) ==
    \/ r.pin \in Serviceable
    \/ r.op = "update" /\ r.pin = book[r.id].pin

Accepted(r) ==
    /\ r.op \in {"create", "update", "setDefault"}
    /\ r.op # "create" => r.id \in DOMAIN book
    /\ r.op # "setDefault" => MayBeSaved(r)

\* A new default first takes the mark from every row, in a statement of its own.
ClearDefaultAddress(r) ==
    /\ r \notin begun /\ r.mark /\ Accepted(r)
    /\ book' = [x \in DOMAIN book |-> [book[x] EXCEPT !.isDefault = FALSE]]
    /\ begun' = begun \cup {r}
    /\ overlapped' = (overlapped \/ begun # {})
    /\ UNCHANGED <<ids, asked, replies, crossed>>

\* A request without a mark is accepted and written, one with a mark has been accepted.
WriteAddress(r, id) ==
    /\ r \in begun \/ (~r.mark /\ Accepted(r))
    /\ PutAddress(id, IF r.op = "setDefault" THEN book[id].pin ELSE r.pin, r.mark)
    /\ \/ Answered(r, TRUE, <<Line(id, book'[id])>>) /\ UNCHANGED crossed
       \/ Answered(r, FALSE, <<>>) /\ crossed' = TRUE
    /\ UNCHANGED overlapped

ServeCreate(r) == r.op = "create" /\ WriteAddress(r, ids + 1) /\ ids' = ids + 1

ServeUpdate(r) ==
    r.op \in {"update", "setDefault"} /\ r.id \in DOMAIN book /\ WriteAddress(r, r.id) /\ UNCHANGED ids

\* The row was deleted after it was found: the UPDATE returns none, and the answer has no id.
ServeGone(r) ==
    /\ r \in begun /\ r.op \in {"update", "setDefault"} /\ r.id \notin DOMAIN book
    /\ Answered(r, TRUE, <<>>) /\ UNCHANGED <<book, ids, crossed, overlapped>>

\* The UPDATE or the INSERT fails, and the marks stay cleared.
ServeBroken(r) ==
    /\ r \in begun /\ Answered(r, FALSE, <<>>) /\ crossed' = TRUE
    /\ UNCHANGED <<book, ids, overlapped>>

ServeRemove(r) ==
    /\ r.op = "delete" /\ r.id \in DOMAIN book
    /\ DropAddress(r.id) /\ UNCHANGED <<ids, overlapped>>
    /\ \/ Answered(r, TRUE, <<>>) /\ UNCHANGED crossed
       \/ Answered(r, FALSE, <<>>) /\ crossed' = TRUE

\* Not found, refused or not reached.
ServeNothing(r) ==
    r \notin begun /\ Answered(r, FALSE, <<>>) /\ UNCHANGED <<book, ids, crossed, overlapped>>

ServeAddresses ==
    /\ \E r \in asked :
          \/ ServeLoadOf(r) \/ ClearDefaultAddress(r) \/ ServeCreate(r) \/ ServeUpdate(r)
          \/ ServeGone(r) \/ ServeBroken(r) \/ ServeRemove(r) \/ ServeNothing(r)
    /\ UNCHANGED <<page_of_addresses, form_vars, validating, checks, typed, calls, retyped,
                   unmarked>>

----------------------------------------------------------------------------
(* The form.                                                               *)

\* Opening, closing and another address fill the form anew and forget what was found out about
\* the pincode; a timer that runs is cleared, a question under way is not taken back.
ResetForm(pin, mark) ==
    /\ pincode' = pin /\ isDefault' = mark /\ touched' = FALSE
    /\ timeout' = FALSE /\ validation' = NoVerdict
    /\ retyped' = (retyped \/ checks # {})

SetModalOf(shown, id, pin, mark) ==
    /\ modalOpen' = shown /\ editing' = id /\ ResetForm(pin, mark)

HandleOpenCreate ==
    /\ ~modalOpen /\ SetModalOf(TRUE, 0, Short, FALSE)
    /\ UNCHANGED <<book, ids, addresses, status, modalLoading, deletingId, validating, checks,
                   asked, replies, begun, typed, calls, crossed, unmarked,
                   overlapped>>

LinesShown == IF status = "shown" /\ ~modalOpen THEN ToSet(addresses) ELSE {}

HandleOpenEdit ==
    /\ \E a \in LinesShown : SetModalOf(TRUE, a.id, a.pin, a.isDefault)
    /\ UNCHANGED <<book, ids, addresses, status, modalLoading, deletingId, validating, checks,
                   asked, replies, begun, typed, calls, crossed, unmarked,
                   overlapped>>

\* A click beside the form closes it, even while it is being saved.
OnClose ==
    /\ modalOpen /\ SetModalOf(FALSE, 0, Short, FALSE)
    /\ UNCHANGED <<book, ids, addresses, status, modalLoading, deletingId, validating, checks,
                   asked, replies, begun, typed, calls, crossed, unmarked,
                   overlapped>>

\* Mutant: a pincode that is too short leaves the verdict of the one before.
ChangePincodeKeepsVerdict ==
    /\ modalOpen /\ ~modalLoading /\ typed < MaxTyped /\ typed' = typed + 1
    /\ typed + calls <= MaxMoves
    /\ \E p \in (Pins \cup {Short}) \ {pincode} :
          pincode' = p /\ touched' = TRUE /\ timeout' = (p # Short)
    /\ retyped' = (retyped \/ checks # {})
    /\ UNCHANGED <<book, ids, page_of_addresses, isDefault, validation, validating, checks, asked,
                   replies, begun, calls, crossed, unmarked, overlapped>>

\* The timer of the pincode before is cleared and one of half a second begun.
ChangePincode ==
    /\ modalOpen /\ ~modalLoading /\ typed < MaxTyped /\ typed' = typed + 1
    /\ typed + calls <= MaxMoves
    /\ \E p \in (Pins \cup {Short}) \ {pincode} :
          /\ pincode' = p /\ touched' = TRUE
          /\ timeout' = (p # Short)
          /\ validation' = IF p = Short THEN NoVerdict ELSE validation
    /\ retyped' = (retyped \/ checks # {})
    /\ UNCHANGED <<book, ids, page_of_addresses, isDefault, validating, checks, asked, replies,
                   begun, calls, crossed, unmarked, overlapped>>

ChangeDefault ==
    /\ modalOpen /\ ~modalLoading /\ isDefault' = ~isDefault
    /\ UNCHANGED <<book, ids, page_of_addresses, pincode, touched, timeout, validation, validating,
                   checks, asked, replies, begun, typed, calls, retyped, crossed, unmarked,
                   overlapped>>

ValidatePincode ==
    /\ timeout /\ timeout' = FALSE
    /\ validating' = TRUE
    /\ checks' = checks \cup {[pin |-> pincode, n |-> typed]}
    /\ retyped' = (checks # {})
    /\ UNCHANGED <<book, ids, page_of_addresses, pincode, isDefault, touched, validation, asked,
                   replies, begun, typed, calls, crossed, unmarked, overlapped>>

\* An answer is taken for the pincode of the form, whichever that is; an error says no.
PincodeValidated ==
    /\ \E c \in checks : \E ok \in {c.pin \in Serviceable, FALSE} :
          /\ checks' = checks \ {c}
          /\ validation' = [pin |-> c.pin, serviceable |-> ok]
    /\ validating' = FALSE
    /\ UNCHANGED <<book, ids, page_of_addresses, pincode, isDefault, touched, timeout, asked,
                   replies, begun, typed, calls, retyped, crossed, unmarked, overlapped>>

----------------------------------------------------------------------------
(* Requests of the page.                                                   *)

UnderWay == asked \cup {replies[i].r : i \in 1 .. Len(replies)}

Call(r) ==
    /\ calls <= MaxCalls /\ calls' = calls + 1
    /\ typed + calls <= MaxMoves
    /\ asked' = asked \cup {r}
    /\ crossed' = (crossed \/ \E q \in UnderWay : "load" \in {q.op, r.op})
    /\ UNCHANGED <<book, ids, addresses, form_vars, validating, checks, replies, begun, typed,
                   retyped, overlapped>>

\* "Try Again"
LoadAddresses ==
    /\ status = "error" /\ ~modalOpen /\ status' = "loading"
    /\ Call(Request("load", 0, Short, FALSE, calls))
    /\ UNCHANGED <<modalOpen, editing, modalLoading, deletingId, unmarked>>

\* The button waits for a question under way and is disabled by a verdict against the pincode
\* typed; validate() refuses one that is too short and a verdict about an untouched one too.
SubmitAccepted ==
    /\ modalOpen /\ ~modalLoading /\ ~validating
    /\ pincode # Short /\ validation.serviceable

HandleSubmitOf ==
    /\ SubmitAccepted /\ modalLoading' = TRUE
    /\ Call(Request(IF editing = 0 THEN "create" ELSE "update", editing, pincode, isDefault, calls))
    /\ unmarked' = (unmarked \/ isDefault)
    /\ UNCHANGED <<status, modalOpen, editing, deletingId>>

HandleSetDefault ==
    /\ \E a \in LinesShown :
          ~a.isDefault /\ Call(Request("setDefault", a.id, Short, TRUE, calls))
    /\ UNCHANGED <<status, modalOpen, editing, modalLoading, deletingId, unmarked>>

\* A default that is deleted is followed by another, which the page is not told of.
HandleDeleteOf ==
    /\ \E a \in LinesShown :
          /\ deletingId # a.id /\ deletingId' = a.id
          /\ Call(Request("delete", a.id, Short, FALSE, calls))
    /\ unmarked' = TRUE
    /\ UNCHANGED <<status, modalOpen, editing, modalLoading>>

AddressesLoaded(a) ==
    /\ a.r.op = "load"
    /\ addresses' = IF a.ok THEN a.rows ELSE addresses
    /\ status' = IF a.ok THEN "shown" ELSE "error"
    /\ UNCHANGED <<modalOpen, editing, modalLoading, deletingId, form_vars, retyped>>

\* The id in an answer, 0 when it has none.
IdIn(a) == IF a.rows = <<>> THEN 0 ELSE a.rows[1].id

\* The answer closes the form, whatever it is open for by now.
AddressSaved(a) ==
    /\ a.r.op \in {"create", "update"}
    /\ modalLoading' = FALSE
    /\ IF a.ok
       THEN /\ addresses' = IF a.r.op = "create" THEN addresses \o a.rows
                            ELSE [i \in 1 .. Len(addresses) |->
                                     IF addresses[i].id = IdIn(a) THEN a.rows[1] ELSE addresses[i]]
            /\ SetModalOf(FALSE, 0, Short, FALSE)
       ELSE UNCHANGED <<addresses, modalOpen, editing, form_vars, retyped>>
    /\ UNCHANGED <<status, deletingId>>

\* Mutant: the other rows keep their mark.
MarkToo(lines, id) ==
    [i \in 1 .. Len(lines) |-> [lines[i] EXCEPT !.isDefault = @ \/ lines[i].id = id]]

\* The one default takes the mark from every other row.
MarkOnly(lines, id) == [i \in 1 .. Len(lines) |-> [lines[i] EXCEPT !.isDefault = lines[i].id = id]]

DefaultSet(a) ==
    /\ a.r.op = "setDefault"
    /\ addresses' = IF a.ok THEN MarkOnly(addresses, IdIn(a)) ELSE addresses
    /\ UNCHANGED <<status, modalOpen, editing, modalLoading, deletingId, form_vars, retyped>>

AddressDeleted(a) ==
    /\ a.r.op = "delete"
    /\ addresses' = IF a.ok THEN Without(addresses, a.r.id) ELSE addresses
    /\ deletingId' = 0
    /\ UNCHANGED <<status, modalOpen, editing, modalLoading, form_vars, retyped>>

ReceiveReply ==
    /\ \E i \in 1 .. Len(replies) :
          LET a == replies[i]
          IN  /\ replies' = RemoveAt(replies, i)
              /\ AddressesLoaded(a) \/ AddressSaved(a) \/ DefaultSet(a) \/ AddressDeleted(a)
              /\ crossed' = (crossed \/ i > 1)
    /\ UNCHANGED <<book, ids, validating, checks, asked, begun, typed, calls, unmarked, overlapped>>

AddressFormNext ==
    \/ ServeAddresses \/ ReceiveReply
    \/ HandleOpenCreate \/ HandleOpenEdit \/ OnClose
    \/ ChangePincode \/ ChangeDefault \/ ValidatePincode \/ PincodeValidated
    \/ LoadAddresses \/ HandleSubmitOf \/ HandleSetDefault \/ HandleDeleteOf

AddressFormSpec == AddressFormInit /\ [][AddressFormNext]_addressForm_vars

----------------------------------------------------------------------------
\* Unless the pincode changed while it was asked about, what the form says about delivery once
\* its timer and its question are through is about the pincode in it, and for one typed it says
\* something.
VerdictIsOfThePincode ==
    ~timeout /\ checks = {} =>
        /\ touched /\ pincode # Short => validation # NoVerdict
        /\ validation # NoVerdict /\ ~retyped => validation.pin = pincode

\* Once nothing is under way the page of a customer who works in one tab lists the addresses that
\* are stored with their pincodes, and marks the one that is the default.  Nothing is said after a
\* load ran beside another request or an answer was lost or taken out of order (crossed), and
\* nothing about the mark after a form or a deletion moved it (unmarked) or after two requests that
\* move it overlapped in the service, which leaves two defaults there (overlapped).
PageIsTheBook ==
    UnderWay = {} /\ status = "shown" /\ ~crossed =>
        /\ {a.id : a \in ToSet(addresses)} = DOMAIN book
        /\ \A a \in ToSet(addresses) :
              /\ a.pin = book[a.id].pin
              /\ unmarked \/ overlapped \/ a.isDefault = book[a.id].isDefault

================================================================================
