--------------------------- MODULE MCTrackerManager ---------------------------
(* An instance of TrackerManager for TLC. *)
EXTENDS TrackerManager

\* One tracker, as in main.rs, and two in either order.
MCLists == {<<"udp">>, <<"http">>, <<"http", "udp">>, <<"udp", "http">>}
=============================================================================
