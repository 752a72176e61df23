-------------------------- MODULE MCOneWayAdoption --------------------------
(* Adoption with three remotes: a Somfy one that signs its key, a VELUX    *)
(* one that does not and that no entity names, and one of an unknown make  *)
(* that wraps its key differently.                                         *)
EXTENDS OneWayAdoption

Somfy == [addr |-> <<157, 96, 133>>, key |-> "home", class |-> 2, manufacturer |-> 2,
          with_mac |-> TRUE, wrap |-> "standard", add_len |-> 20]
Kli == [addr |-> <<170, 187, 204>>, key |-> "velux", class |-> 3, manufacturer |-> 1,
        with_mac |-> FALSE, wrap |-> "standard", add_len |-> 20]
Foreign == [addr |-> <<18, 52, 86>>, key |-> "foreign", class |-> 24, manufacturer |-> 9,
            with_mac |-> TRUE, wrap |-> "unknown", add_len |-> 20]

MCRemotes == {Somfy, Kli, Foreign}
MCHubNode == <<1, 2, 3>>
MCDeclared == {Somfy.addr}
MCAddresses == {MCHubNode, Somfy.addr, <<9, 9, 9>>, <<9, 9, 10>>}
=============================================================================
