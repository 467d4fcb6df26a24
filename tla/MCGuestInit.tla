---------------------------- MODULE MCGuestInit ----------------------------
(* Three inittabs with four commands that change their type and order. *)
EXTENDS GuestInit

Line(key, type) == [key |-> key, type |-> type]

MCInittabs ==
  {<<Line("rc", "SYSINIT"), Line("sh", "RESPAWN"), Line("um", "SHUTDOWN"), Line("sw", "SHUTDOWN")>>,
   <<Line("sw", "SHUTDOWN"), Line("um", "SHUTDOWN"), Line("rc", "WAIT")>>,
   <<Line("sh", "ONCE"), Line("um", "CTRLALTDEL"), Line("rc", "RESTART"), Line("sh", "ASKFIRST"),
     Line("sw", "ONCE")>>}
=============================================================================
