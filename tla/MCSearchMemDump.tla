-------------------------- MODULE MCSearchMemDump --------------------------
(* All dumps of DumpSize bytes over the letters of the marker. *)
EXTENDS SearchMemDump

MCPattern == <<"L", "E", "A", "K">>
MCByte == {"L", "E", "A", "K"}
=============================================================================
