------------------------------- MODULE Tables -------------------------------
(***************************************************************************)
(* The three SQL statements the repository layer builds every write from,  *)
(* over a table held as a function from its UNIQUE key to the row.  A      *)
(* Repository method opens its own connection, runs its statements and     *)
(* commits (db/repository.py, Repository.connect), so each use of these    *)
(* operators inside one action is one transaction.                         *)
(***************************************************************************)
EXTENDS Naturals, FiniteSets

\* A table before its first insert.
EmptyTable == [k \in {} |-> {}]

\* INSERT OR IGNORE: a row whose key is taken is dropped, the old one stays.
InsertOrIgnore(table, new) ==
    [k \in DOMAIN table \cup DOMAIN new |->
        IF k \in DOMAIN table THEN table[k] ELSE new[k]]

\* The cursor.rowcount of that statement, summed over the new rows.
\* Broken variant: rows the statement ignored are counted too.
InsertedOrIgnored(table, new) == Cardinality(DOMAIN new)

Inserted(table, new) == Cardinality(DOMAIN new \ DOMAIN table)

\* INSERT ... ON CONFLICT DO UPDATE: Merge(old, new) is the SET clause.
Upsert(table, new, Merge(_, _)) ==
    [k \in DOMAIN table \cup DOMAIN new |->
        IF k \notin DOMAIN new THEN table[k]
        ELSE IF k \in DOMAIN table THEN Merge(table[k], new[k])
        ELSE new[k]]
=============================================================================
