------------------------------ MODULE Endpoint ------------------------------
(***************************************************************************)
(* Api/Endpoint.cpp: which handler serves which route and method, and what *)
(* reaches it of the ids in the URL.                                       *)
(***************************************************************************)
EXTENDS Integers

CONSTANT IntHalf  \* half the range of an int: 2^31 in the code

ASSUME IntHalfAssumption == IntHalf \in Nat \ {0}

\* registerRoutes: <<route, method, the BoardManager call of its case>>
registerRoutes ==
  { <<"/api/board", "GET", "getBoard">>,
    <<"/api/board/columns", "GET", "getColumns">>,
    <<"/api/board/columns", "POST", "postColumn">>,
    <<"/api/board/columns/<int>", "GET", "getColumn">>,
    <<"/api/board/columns/<int>", "PUT", "putColumn">>,
    <<"/api/board/columns/<int>", "DELETE", "deleteColumn">>,
    <<"/api/board/columns/<int>/items", "GET", "getItems">>,
    <<"/api/board/columns/<int>/items", "POST", "postItem">>,
    <<"/api/board/columns/<int>/items/<int>", "GET", "getItem">>,
    <<"/api/board/columns/<int>/items/<int>", "PUT", "putItem">>,
    <<"/api/board/columns/<int>/items/<int>", "DELETE", "deleteItem">> }

\* Empty for a route and method that no handler is registered for: Crow
\* answers it by itself and no handler runs.
HandlersOf(route, method) ==
  {h[3] : h \in {r \in registerRoutes : r[1] = route /\ r[2] = method}}

\* Crow parses <int> as a 64-bit number and the handlers take an int.
Narrow(id) == ((id + IntHalf) % (2 * IntHalf)) - IntHalf
=============================================================================
