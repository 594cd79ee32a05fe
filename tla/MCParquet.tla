------------------------------- MODULE MCParquet -------------------------------
(* Instances of Parquet for TLC.                                              *)
EXTENDS Parquet

Column(kind, cells, nullable) == [kind |-> kind, nullable |-> nullable, cells |-> cells]

Cells(n) == UNION {[1 .. k -> 0 .. 2] : k \in 0 .. n}
Nullable(column) == 0 \in ToSet(column.cells) => column.nullable

\* Tables of one column, with up to four cells, or six categories.
OneColumn ==
  {<<c>> : c \in {d \in {Column("plain", cells, n) : cells \in Cells(4), n \in BOOLEAN}
                        \cup {Column("categorical", cells, n) : cells \in Cells(6), n \in BOOLEAN} :
                    Nullable(d)}}

\* Tables of three columns and two pages.
ThreeColumns ==
  {<<Column("categorical", first, TRUE), Column("plain", <<1, 2, 0, 1, 1, 2, 0>>, TRUE),
     Column("categorical", <<3, 2, 1, 1, 1, 1, 3>>, TRUE)>> :
     first \in {<<1, 2, 0, 1, 1, 2, 2>>, <<0, 0, 0, 0, 0, 0, 1>>}}

MCPqTables == OneColumn \cup ThreeColumns \cup {<<>>}
==============================================================================
