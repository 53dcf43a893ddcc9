---------------------------- MODULE MCPagination ----------------------------
(* Small instances of Pagination for TLC. *)
EXTENDS Pagination

CONSTANTS a, b, c, d

ToolsMC == {a, b, c, d}

Deployment(tools, denied, size) == [tools |-> tools, denied |-> denied, pageSize |-> size]

(* Lists of none to four visible tools, a denied one in the middle of a    *)
(* page, page sizes that divide the list and that do not.                  *)
Paginated ==
  {Deployment(<<a, b, c, d>>, {}, n) : n \in 1..4}
    \cup {Deployment(<<a, b, c, d>>, {b}, n) : n \in 1..2}
    \cup {Deployment(<<b, c, d, a>>, {}, 2), Deployment(<<a>>, {a}, 1)}

Unpaginated == {Deployment(<<a, b, c, d>>, {b}, 0)}

FirstMC == Paginated \cup Unpaginated
=============================================================================
