--------------------------- MODULE MCEdgeExchange ---------------------------
(* Layouts for EdgeExchange: two by two processes on a doubly periodic plane *)
(* and on a globe, where one has a single row; a parallel divided in three;  *)
(* a process that is its own neighbour.  The rows at the poles are filtered; *)
(* row 0 only on the H-grid, since on the V-grid it is the pole itself.      *)
EXTENDS EdgeExchange

Layout(geometry, ni, nj, pi, pj, polar) ==
  [geometry |-> geometry, ni |-> ni, nj |-> nj, pi |-> pi, pj |-> pj, polar |-> polar]

MCLayouts == {
  Layout("f-plane cartesian", 2, 3, 2, 2, {}),
  Layout("globe", 2, 2, 2, 2, {0, 2}),
  Layout("f-plane polar", 4, 1, 3, 1, {0, 1}),
  Layout("globe", 2, 3, 1, 3, {0, 3}),
  Layout("f-plane cartesian", 1, 1, 1, 1, {})}

=============================================================================
