-------------------------------- MODULE MCHub --------------------------------
(* The hub with time scaled down: one tick is about a second, the window   *)
(* and the back-off steps keep their order.                                *)
EXTENDS Hub

MCSilent == <<1, 3>>
MCAuth == <<4>>
MCInterval == [d \in Devices |-> IF d = 1 THEN 2 ELSE 0]

Binding(entity, type) == [entity |-> entity, type |-> type, optimistic |-> TRUE]
MCBindings ==
    {Binding("cover", "VENETIAN_BLIND"), Binding("cover", "LIGHT"), Binding("light", "LIGHT"),
     Binding("lock", "LOCK"), Binding("switch", "UNKNOWN")}
=============================================================================
