-------------------------- MODULE MCDeviceRegistry --------------------------
(* Two USB places with macOS aliases, or two plain ports; a board with a    *)
(* serial number, which may be there twice, and one without.                *)
EXTENDS DeviceRegistry

Aliased == {[group |-> g, kind |-> k] : g \in {"g1", "g2"}, k \in {"callout", "dialin"}}
InOrder == <<"g1", "g2">>
Plain == {[group |-> g, kind |-> "plain"] : g \in {"g1", "g2"}}

Board(key, product, strong) == [key |-> key, product |-> product, strong |-> strong, usb |-> TRUE]
Boards == {Board("k1", "a", TRUE), Board("k2", "a", FALSE)}
Clones == {Board("k1", "a", TRUE)}
None == {}

(* One board at each place.                                                 *)
Starts ==
  {[p \in Aliased |-> IF p.group = "g1" THEN Board("k1", "a", TRUE) ELSE Board("k2", "a", FALSE)]}
BothClones == {[p \in Plain |-> Board("k1", "a", TRUE)]}
=============================================================================
