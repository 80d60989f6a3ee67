---------------------------- MODULE MCPagination ----------------------------
(* Pagination for TLC. *)
EXTENDS Pagination

Row(i, d, g) == [id |-> i, date |-> d, tag |-> g]

\* Tables with ties, without ties, with both tags, short ones and none.
MCSeeds ==
    { {},
      {Row(1, 1, "x"), Row(2, 1, "y")},
      {Row(1, 1, "x"), Row(2, 2, "x"), Row(3, 1, "x")},
      {Row(1, 2, "x"), Row(2, 1, "y"), Row(3, 2, "y"), Row(4, 1, "x")} }

MCFilters ==
    { [tag |-> "x", after |-> -1, before |-> IntMax],
      [tag |-> AnyTag, after |-> 1, before |-> IntMax],
      [tag |-> AnyTag, after |-> 0, before |-> 2] }

\* The first page, a page further on, and what clients make up.
MCFirstTokens ==
    {NoToken, Garbage, Number(1), Number(-1), Number(IntMax + 1)}

MCPageSizes == {-1, 1, 9}

=============================================================================
