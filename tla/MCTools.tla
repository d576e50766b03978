------------------------------ MODULE MCTools ------------------------------
(***************************************************************************)
(* An instance of Tools for TLC.                                           *)
(***************************************************************************)
EXTENDS Tools

(* The tokens of these names, in the order of DuckDB's collation. *)
TwoToFive == <<"2", "3", "4", "5">>
FourWords == <<"airtable", "id", "t", "w">>

(* Names with every kind of token at every place where it matters, among   *)
(* them what the others are turned into.                                   *)
MixedNames ==
  { <<"w">>, <<"w", "-">>, <<"-", "w">>, <<"w", "2">>, <<"w", "_", "2">>,
    <<"w", "-", "2">>, <<"w", "_", "3">>, <<"w", "_", "2", "_", "2">>,
    <<"2">>, <<"2", "w">>, <<"t">>, <<"t", "_", "2">>, <<"t", "_", "2", "w">>,
    <<"t", "-">>, <<"t", "_">>, <<"non-ascii">>, <<"non-ascii", "2">>,
    <<"non-ascii", "non-ascii">>, <<"id">>, <<"id", "-">>,
    <<"airtable", "_", "id">>, <<"airtable", "_", "id", "_", "2">>,
    <<"_", "airtable", "_", "id">>, <<" ">>, <<" ", "w">>,
    <<" ", "w", "_", "2">>, <<"t", "_", " ">> }

(* Two tables of one and of two pages; the DuckDB name of the second has a *)
(* suffix.                                                                 *)
TwoTables == <<<<"w">>, <<"w", "-">>>>
TwoFields == <<<<"id">>, <<"t", "-", "w">>>>
TwoPages == <<1, 2>>
OfEach == {<<1, 1>>, <<2, 2>>}

Statement(table, limit) == [table |-> table, limit |-> limit]
SomeBatches == {<<Statement(2, "none"), Statement(1, "none")>>,
                <<Statement(2, "own"), Statement(2, "comment")>>}

Change(table, page, fields) == [table |-> table, page |-> page, fields |-> fields]
OwnId == <<"_", "airtable", "_", "id">>
SomeRequests ==
  { <<Change(<<"w">>, 1, {OwnId}), Change(<<"w", "_", "2">>, 2, {})>>,
    <<Change(<<"w", "-">>, 2, {OwnId, <<"id">>})>>,
    <<Change(<<"w">>, 0, {OwnId, <<"t", "_", "w">>}), Change(<<"t">>, 1, {})>>,
    <<Change(<<"w", " ">>, 0, {<<"2">>, <<"t", "-", "w">>})>> }

SchemaOp(type, table, field, name) == [type |-> type, table |-> table, field |-> field, name |-> name]
SomeSchemaRequests ==
  { <<SchemaOp("create_table", <<>>, <<>>, <<"t">>),
      SchemaOp("create_field", <<"t">>, <<>>, <<"2">>)>>,
    <<SchemaOp("update_field", <<"w", "_", "2">>, OwnId, <<"2">>),
      SchemaOp("create_field", <<"w">>, <<>>, <<"t", "_", "w">>)>>,
    <<SchemaOp("create_table", <<>>, <<>>, <<"w", "_", "2">>)>>,
    <<SchemaOp("update_table", <<"w", "-">>, <<>>, <<"w">>),
      SchemaOp("update_field", <<"w">>, <<"w">>, <<"t">>)>> }
=============================================================================
