--------------------------- MODULE MCCycleFanout ---------------------------
(***************************************************************************)
(* Two cycles over two targets, each its own device behind its own         *)
(* address.                                                                *)
(***************************************************************************)
EXTENDS CycleFanout

MCIpOf == <<1, 2>>
MCIdOf == <<1, 2>>
MCProfilesFor == << <<1>>, <<1>> >>
MCModulesFor == << {"lldp"}, {"lldp"} >>
=============================================================================
