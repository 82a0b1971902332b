------------------------------ MODULE AdminTables ------------------------------
(***************************************************************************)
(* The admin's pages of products and of delivery zones: a list that was    *)
(* loaded once, a form that creates and edits, a delete button and the     *)
(* switches of a row.  Several requests may be under way; an answer is     *)
(* worked into the list as it is when the answer comes.  Both pages are    *)
(* written alike and are one module: a desk works on one of the tables.    *)
(* A service handler is one step; a search narrows the list and sends      *)
(* nothing, it is left out.                                                *)
(***************************************************************************)
EXTENDS Integers, Sequences, FiniteSets, SequencesExt, Listing

CONSTANTS
    Desks,       \* the admins' browser tabs
    OldRows,     \* number of rows at the start
    ZonesPerPage,\* rows of a page of zones
    MaxClicks    \* bound: requests a desk sends

ASSUME TablesAssumption ==
    /\ OldRows \in Nat /\ MaxClicks \in Nat \ {0}
    /\ ZonesPerPage \in Nat \ {0}

Tables == {"products", "zones"}

\* What can be switched: isActive and isFeatured of a product, isServiceable of a zone and,
\* with the form, everything else.
Fields == {"on", "other"}
Row == [Fields -> BOOLEAN]
FreshRow == [f \in Fields |-> f = "on"]

VARIABLES
    kind,     \* desk -> the table it works on
    rows,     \* table -> its rows, numbered in the order in which they are created
    born,     \* table -> how many rows it ever had
    list,     \* desk -> the rows the page holds, in their order
    page,     \* desk -> page of the zones
    total,    \* desk -> number of zones shown
    view,     \* desk -> "loading", "error" or "shown"
    modal,    \* desk -> what the form is open for: a row, 0 for a new one, -1 closed
    form,     \* desk -> the fields of the form
    saving,   \* desk -> whether the form waits
    deleting, \* desk -> the row whose button is disabled
    sent,     \* desk -> requests under way
    answers,  \* desk -> answers under way, in the order in which they were made
    clicks,   \* desk -> requests sent so far
    blurred   \* history: desk -> a load ran beside a write, an answer was lost or overtaken by
              \* another one about its row

tables_form == <<modal, form, saving, deleting>>
tables_vars == <<kind, rows, born, list, page, total, view, modal, form, saving, deleting,
                 sent, answers, clicks, blurred>>

\* A request: n tells two alike apart, a load carries its page.
Ask(op, id, patch, n) == [op |-> op, id |-> id, patch |-> patch, n |-> n]
NoPatch == [f \in {} |-> TRUE]
Load(p, n) == Ask("load", p, NoPatch, n)
Entry(id, row) == [id |-> id, row |-> row]

TablesTypeOK ==
    /\ kind \in [Desks -> Tables]
    /\ \A t \in Tables :
          /\ born[t] \in Nat /\ DOMAIN rows[t] \subseteq 1 .. born[t]
          /\ \A id \in DOMAIN rows[t] : rows[t][id] \in Row
    /\ list \in [Desks -> Seq([id : Nat \ {0}, row : Row])]
    /\ page \in [Desks -> Nat \ {0}] /\ total \in [Desks -> Int]
    /\ view \in [Desks -> {"loading", "error", "shown"}]
    /\ modal \in [Desks -> Nat \cup {-1}] /\ form \in [Desks -> Row]
    /\ saving \in [Desks -> BOOLEAN] /\ deleting \in [Desks -> Nat]
    /\ \A d \in Desks : \A r \in sent[d] : r.op \in {"load", "create", "save", "switch", "delete"}
    /\ clicks \in [Desks -> 1 .. MaxClicks] /\ blurred \in [Desks -> BOOLEAN]

\* A page that opens asks for its first rows.
TablesInit ==
    /\ kind \in [Desks -> Tables]
    /\ rows = [t \in Tables |-> [id \in 1 .. OldRows |-> FreshRow]]
    /\ born = [t \in Tables |-> OldRows]
    /\ list = [d \in Desks |-> <<>>]
    /\ page = [d \in Desks |-> 1] /\ total = [d \in Desks |-> 0]
    /\ view = [d \in Desks |-> "loading"]
    /\ modal = [d \in Desks |-> -1] /\ form = [d \in Desks |-> FreshRow]
    /\ saving = [d \in Desks |-> FALSE] /\ deleting = [d \in Desks |-> 0]
    /\ sent = [d \in Desks |-> {Load(1, 0)}] /\ answers = [d \in Desks |-> <<>>]
    /\ clicks = [d \in Desks |-> 1] /\ blurred = [d \in Desks |-> FALSE]

----------------------------------------------------------------------------
(* What the service does.                                                  *)

Table(d) == rows[kind[d]]

\* GET /products: the active ones, newest first; the page asks for a hundred.
ActiveProducts ==
    LET active == {id \in DOMAIN rows["products"] : rows["products"][id]["on"]}
    IN  Reverse(Ascending(active))

\* GET /admin/delivery-zones: a page of the collection in its own order.
ZonesOfPage(p) ==
    LET all == Ascending(DOMAIN rows["zones"])
        last == p * ZonesPerPage
    IN  SubSeq(all, last - ZonesPerPage + 1, IF last < Len(all) THEN last ELSE Len(all))

Listed(d, p) ==
    LET ids == IF kind[d] = "products" THEN ActiveProducts ELSE ZonesOfPage(p)
    IN  [i \in 1 .. Len(ids) |-> Entry(ids[i], Table(d)[ids[i]])]

\* Only the fields that were sent are written.
Patched(row, patch) == [f \in Fields |-> IF f \in DOMAIN patch THEN patch[f] ELSE row[f]]

SetTable(d, t) == rows' = [rows EXCEPT ![kind[d]] = t]

CreateRow(d, id, patch) ==
    /\ born' = [born EXCEPT ![kind[d]] = id]
    /\ SetTable(d, [x \in DOMAIN Table(d) \cup {id} |->
                        IF x = id THEN Patched(FreshRow, patch) ELSE Table(d)[x]])

UpdateRow(d, id, patch) ==
    /\ id \in DOMAIN Table(d)
    /\ SetTable(d, [Table(d) EXCEPT ![id] = Patched(@, patch)])
    /\ UNCHANGED born

RemoveRow(d, id) ==
    /\ id \in DOMAIN Table(d)
    /\ SetTable(d, [x \in DOMAIN Table(d) \ {id} |-> Table(d)[x]])
    /\ UNCHANGED born

\* An answer: the rows of a load, or the row that was written.
Reply(d, r, ok, got, n) ==
    /\ sent' = [sent EXCEPT ![d] = @ \ {r}]
    /\ answers' = [answers EXCEPT ![d] = Append(@, [r |-> r, ok |-> ok, got |-> got, total |-> n])]

ServeList(d, r) ==
    /\ r.op = "load"
    /\ Reply(d, r, TRUE, Listed(d, r.id), Cardinality(DOMAIN Table(d)))
    /\ UNCHANGED <<rows, born, blurred>>

\* The row as it is now is answered, unless the answer is lost.
ServeChange(d, r) ==
    LET id == IF r.op = "create" THEN born[kind[d]] + 1 ELSE r.id
    IN  /\ \/ r.op = "create" /\ CreateRow(d, id, r.patch)
           \/ r.op \in {"save", "switch"} /\ UpdateRow(d, id, r.patch)
           \/ r.op = "delete" /\ RemoveRow(d, id)
        /\ LET after == rows'[kind[d]]
               got == IF id \in DOMAIN after THEN <<Entry(id, after[id])>> ELSE <<>>
           IN  \/ Reply(d, r, TRUE, got, 0) /\ UNCHANGED blurred
               \/ Reply(d, r, FALSE, <<>>, 0) /\ blurred' = [blurred EXCEPT ![d] = TRUE]

\* The row is gone, or the database cannot be asked.
ServeError(d, r) ==
    /\ Reply(d, r, FALSE, <<>>, 0)
    /\ UNCHANGED <<rows, born, blurred>>

\* The product was there for the SELECT of an update and is gone for its UPDATE.
ServeVanished(d, r) ==
    /\ kind[d] = "products" /\ r.op \in {"save", "switch"} /\ r.id \notin DOMAIN Table(d)
    /\ Reply(d, r, TRUE, <<>>, 0)
    /\ UNCHANGED <<rows, born, blurred>>

ServeDesk(d) ==
    /\ \E r \in sent[d] :
          ServeList(d, r) \/ ServeChange(d, r) \/ ServeError(d, r) \/ ServeVanished(d, r)
    /\ UNCHANGED <<kind, list, page, total, view, tables_form, clicks>>

----------------------------------------------------------------------------
(* What the admin does.                                                    *)

\* Every request of the desk that is not answered yet.
Pending(d) == sent[d] \cup {answers[d][i].r : i \in 1 .. Len(answers[d])}

Send(d, r) ==
    /\ clicks[d] < MaxClicks /\ clicks' = [clicks EXCEPT ![d] = @ + 1]
    /\ sent' = [sent EXCEPT ![d] = @ \cup {r}]
    /\ blurred' = [blurred EXCEPT ![d] = @ \/ \E q \in Pending(d) : "load" \in {q.op, r.op}]

Write(d, op, id, patch) ==
    /\ Send(d, Ask(op, id, patch, clicks[d]))
    /\ UNCHANGED <<kind, rows, born, list, page, total, view, modal, form, answers>>

AskPage(d, p) ==
    /\ page' = [page EXCEPT ![d] = p]
    /\ view' = [view EXCEPT ![d] = "loading"]
    /\ Send(d, Load(p, clicks[d]))
    /\ UNCHANGED <<kind, rows, born, list, total, tables_form, answers>>

\* "Try Again"
LoadAgain(d) == view[d] = "error" /\ modal[d] = -1 /\ AskPage(d, page[d])

\* The pager of the zones: there are more than a page holds; a full page can be gone on from.
TurnPage(d) ==
    /\ kind[d] = "zones" /\ total[d] > ZonesPerPage /\ modal[d] = -1
    /\ \/ page[d] > 1 /\ AskPage(d, page[d] - 1)
       \/ Len(list[d]) >= ZonesPerPage /\ AskPage(d, page[d] + 1)

\* The form lies over the page: nothing behind it can be clicked.
RowsShown(d) == view[d] = "shown" /\ modal[d] = -1
Rows(d) == {list[d][i] : i \in 1 .. Len(list[d])}

SetModal(d, m, fields) ==
    /\ modal' = [modal EXCEPT ![d] = m] /\ form' = [form EXCEPT ![d] = fields]
    /\ UNCHANGED <<kind, rows, born, list, page, total, view, saving, deleting, sent, answers,
                   clicks, blurred>>

OpenCreate(d) == modal[d] = -1 /\ SetModal(d, 0, FreshRow)
OpenEdit(d) == RowsShown(d) /\ \E e \in Rows(d) : SetModal(d, e.id, e.row)

\* A click beside the form closes it, even while it waits.
CloseModal(d) == modal[d] # -1 /\ SetModal(d, -1, FreshRow)

\* What the inputs of the form make of its fields.
FilledIn(d) == {form[d], [form[d] EXCEPT !["other"] = ~@]}

\* The form sends all its fields, changed or not.
HandleSubmit(d) ==
    /\ modal[d] # -1 /\ ~saving[d]
    /\ \E fields \in FilledIn(d) :
          IF modal[d] = 0 THEN Write(d, "create", 0, fields)
                          ELSE Write(d, "save", modal[d], fields)
    /\ saving' = [saving EXCEPT ![d] = TRUE]
    /\ UNCHANGED deleting

\* The button of a row is disabled for the row whose deletion was asked for last.
HandleDelete(d) ==
    /\ RowsShown(d)
    /\ \E e \in Rows(d) :
          /\ deleting[d] # e.id
          /\ deleting' = [deleting EXCEPT ![d] = e.id]
          /\ Write(d, "delete", e.id, NoPatch)
    /\ UNCHANGED saving

\* A switch sends the opposite of what the list shows, and stays enabled.
Toggle(d, field) ==
    /\ RowsShown(d)
    /\ \E e \in Rows(d) : Write(d, "switch", e.id, [f \in {field} |-> ~e.row[f]])
    /\ UNCHANGED <<saving, deleting>>

ToggleActive(d) == kind[d] = "products" /\ Toggle(d, "on")
ToggleFeatured(d) == kind[d] = "products" /\ Toggle(d, "other")
ToggleServiceable(d) == kind[d] = "zones" /\ Toggle(d, "on")

----------------------------------------------------------------------------
(* What the page does with an answer, in whatever order they come.         *)

WithRow(entries, got) ==
    [i \in 1 .. Len(entries) |->
        IF got # <<>> /\ entries[i].id = got[1].id THEN got[1] ELSE entries[i]]

Loaded(d, a) ==
    /\ a.r.op = "load"
    /\ IF a.ok THEN /\ list' = [list EXCEPT ![d] = a.got]
                    /\ total' = [total EXCEPT ![d] = a.total]
               ELSE UNCHANGED <<list, total>>
    /\ view' = [view EXCEPT ![d] = IF a.ok THEN "shown" ELSE "error"]
    /\ UNCHANGED tables_form

\* The answer of the form closes it, whatever it is open for by now; an error keeps it.
Submitted(d, a) ==
    /\ a.r.op \in {"create", "save"}
    /\ list' = [list EXCEPT ![d] =
                  IF ~a.ok THEN @ ELSE IF a.r.op = "create" THEN a.got \o @ ELSE WithRow(@, a.got)]
    /\ total' = [total EXCEPT ![d] = IF a.ok /\ a.r.op = "create" THEN @ + 1 ELSE @]
    /\ modal' = [modal EXCEPT ![d] = IF a.ok THEN -1 ELSE @]
    /\ saving' = [saving EXCEPT ![d] = FALSE]
    /\ UNCHANGED <<view, form, deleting>>

Switched(d, a) ==
    /\ a.r.op = "switch"
    /\ list' = [list EXCEPT ![d] = IF a.ok THEN WithRow(@, a.got) ELSE @]
    /\ UNCHANGED <<total, view, tables_form>>

\* Mutant: the row and the count go whatever the answer.
DeletedAnyway(d, a) ==
    /\ a.r.op = "delete"
    /\ list' = [list EXCEPT ![d] = Without(@, a.r.id)]
    /\ total' = [total EXCEPT ![d] = @ - 1]
    /\ deleting' = [deleting EXCEPT ![d] = 0]
    /\ UNCHANGED <<view, modal, form, saving>>

Deleted(d, a) ==
    /\ a.r.op = "delete"
    /\ list' = [list EXCEPT ![d] = IF a.ok THEN Without(@, a.r.id) ELSE @]
    /\ total' = [total EXCEPT ![d] = IF a.ok THEN @ - 1 ELSE @]
    /\ deleting' = [deleting EXCEPT ![d] = 0]
    /\ UNCHANGED <<view, modal, form, saving>>

ReceiveDesk(d) ==
    /\ \E i \in 1 .. Len(answers[d]) :
          LET a == answers[d][i]
          IN  /\ answers' = [answers EXCEPT ![d] = RemoveAt(@, i)]
              /\ Loaded(d, a) \/ Submitted(d, a) \/ Switched(d, a) \/ Deleted(d, a)
              /\ blurred' = [blurred EXCEPT ![d] =
                               @ \/ \E j \in 1 .. i - 1 : answers[d][j].r.id = a.r.id]
    /\ UNCHANGED <<kind, rows, born, page, sent, clicks>>

TablesNext ==
    \E d \in Desks :
        \/ ServeDesk(d) \/ ReceiveDesk(d) \/ LoadAgain(d) \/ TurnPage(d)
        \/ OpenCreate(d) \/ OpenEdit(d) \/ CloseModal(d) \/ HandleSubmit(d)
        \/ HandleDelete(d) \/ ToggleActive(d) \/ ToggleFeatured(d) \/ ToggleServiceable(d)

TablesSpec == TablesInit /\ [][TablesNext]_tables_vars

----------------------------------------------------------------------------
Undisturbed(d) ==
    /\ ~blurred[d]
    /\ \A e \in Desks \ {d} : kind[e] = kind[d] => clicks[e] = 1

\* A desk that works alone sees its table: whatever switches, forms and deletions overlap, each
\* row it lists is listed once and is the row as it is stored, unless a request about it is
\* under way.  Answers about different rows may come in any order, two about one row only in the
\* order in which they were made: the other way round the page works the older row in and keeps
\* it.  Nothing is said after that, after a lost answer and after a load beside a write (blurred).
ListIsTable ==
    \A d \in Desks : Undisturbed(d) =>
        /\ \A i, j \in 1 .. Len(list[d]) : list[d][i].id = list[d][j].id => i = j
        /\ \A e \in Rows(d) : e.id \notin {r.id : r \in Pending(d)} =>
              e.id \in DOMAIN Table(d) /\ Table(d)[e.id] = e.row

\* The number of zones on the page, counted up and down since the last load, is the number of
\* zones there are once nothing is under way.
TotalIsExact ==
    \A d \in Desks :
        Undisturbed(d) /\ kind[d] = "zones" /\ Pending(d) = {} /\ view[d] = "shown" =>
            total[d] = Cardinality(DOMAIN Table(d))

\* What the desk shows of its table, rows and number, is true.
TableIsShown == ListIsTable /\ TotalIsExact

================================================================================
