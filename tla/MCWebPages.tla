------------------------------ MODULE MCWebPages ------------------------------
(***************************************************************************)
(* A browser is on one of the pages.  The pages share no state, so that    *)
(* each is explored with the others at rest.                               *)
(***************************************************************************)
EXTENDS AdminTables, ProductShelf, AddressForm, LogTerminal, TLC

VARIABLE at  \* the page the browser is on

PagesInit ==
    /\ at \in {"tables", "shelf", "addresses", "terminal"}
    /\ TablesInit /\ ShelfInit /\ AddressFormInit /\ TerminalInit
    /\ at # "tables" => \A d \in Desks : kind[d] = "zones"

PagesNext ==
    /\ \/ at = "tables" /\ TablesNext /\ UNCHANGED <<shelf_vars, addressForm_vars, terminal_vars>>
       \/ at = "shelf" /\ ShelfNext /\ UNCHANGED <<tables_vars, addressForm_vars, terminal_vars>>
       \/ at = "addresses" /\ AddressFormNext /\ UNCHANGED <<tables_vars, shelf_vars, terminal_vars>>
       \/ at = "terminal" /\ TerminalNext /\ UNCHANGED <<tables_vars, shelf_vars, addressForm_vars>>
    /\ UNCHANGED at

PagesSpec == PagesInit /\ [][PagesNext]_<<at, tables_vars, shelf_vars, addressForm_vars, terminal_vars>>

PagesTypeOK == TablesTypeOK /\ ShelfTypeOK /\ AddressFormTypeOK /\ TerminalTypeOK

===============================================================================
