------------------------------ MODULE ImageRows ------------------------------
(***************************************************************************)
(* The table catalog_product_images, as the image review and the automated *)
(* pipeline share it: its rows, its partial unique index, and how an ORM   *)
(* session writes a row it loaded earlier.                                 *)
(***************************************************************************)
EXTENDS Integers, Sequences

CONSTANTS
    Products,       \* catalog products
    Sums,           \* image checksums; an equal source URL is an equal checksum
    InitialTables   \* the tables an import may have left

VARIABLES
    rows,   \* the committed rows, in the order of their ids
    locked  \* ids of the rows a transaction has updated and not yet committed

rowVars == <<rows, locked>>

-----------------------------------------------------------------------------
\* What URL, host, size, format, source and freshness checks make of a row.
Metadata == {"fine", "review", "reject"}
Rights == {"approved", "pending", "rejected", "expired"}
Quality == {"acceptable", "accepted", "pending", "rejected"}
Review == {"pending", "approved", "rejected"}

Row == [product : Products, sum : Sums, metadata : Metadata, rights : Rights,
        quality : Quality, review : Review, primary : BOOLEAN]

\* The primary, approved image(s) of product p: what uq_catalog_approved_primary indexes.
Published(table, p) ==
    {i \in DOMAIN table : /\ table[i].product = p
                          /\ table[i].primary
                          /\ table[i].review = "approved"}

UniqueIndex(table) ==
    \A p \in Products : \A i, j \in Published(table, p) : i = j

\* A flush writes the columns that differ from the row as it was loaded; a
\* column set to the value it was loaded with is not part of the UPDATE.
WriteBack(current, loaded, new) ==
    [f \in DOMAIN current |-> IF new[f] = loaded[f] THEN current[f] ELSE new[f]]

Demoted(table, ids) ==
    [i \in DOMAIN table |-> [table[i] EXCEPT !.primary = @ /\ i \notin ids]]

ASSUME InitialTablesAssumption == \A t \in InitialTables : t \in Seq(Row) /\ UniqueIndex(t)

RowsInit ==
    /\ rows \in InitialTables
    /\ locked = {}

RowsTypeOK ==
    /\ rows \in Seq(Row)
    /\ locked \subseteq DOMAIN rows
=============================================================================
