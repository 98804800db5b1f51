------------------------------ MODULE MCDiscovery ------------------------------
(* A legacy station with its prefix and a serial number; a newer one whose *)
(* identifier starts with the value of that prefix; another device that    *)
(* advertises the same UUID.                                               *)
EXTENDS Discovery

Serial  == [i \in 1 .. SerialLength |-> 64 + i]
Legacy  == [address |-> "A", name |-> "POWER-0504", ours |-> TRUE, uuid |-> "a002", prefixed |-> TRUE,
            id |-> <<10, 11, 12, 13, 14, 15>>, status |-> 1, serial |-> Serial]
Newer   == [address |-> "B", name |-> "POWER-V1-B20A", ours |-> TRUE, uuid |-> "0ab2", prefixed |-> FALSE,
            id |-> <<153, 21, 22, 23, 24, 25>>, status |-> 2, serial |-> None]
Another == [address |-> "C", name |-> "Lamp", ours |-> FALSE, uuid |-> "a002", prefixed |-> FALSE,
            id |-> <<1, 2, 3, 4, 5, 6>>, status |-> 0, serial |-> None]
MCStations == {Legacy, Newer, Another}

MCKnown == {[key |-> <<"a002", "POWER-0504">>,
             params |-> [modbus_address |-> 17, modbus_count |-> 80, protocol_version |-> 0]],
            [key |-> <<"0ab2", "POWER-V1-B20A">>,
             params |-> [modbus_address |-> 17, modbus_count |-> 100, protocol_version |-> 1]]}

\* Whole advertisements of two strengths and of none, and some with a part missing.
MCHeard == {Advertisement(s, rssi, TRUE, TRUE, carrier) :
              s \in {Legacy, Newer}, rssi \in {-90, -60, 0}, carrier \in {"service", "manufacturer"}}
           \cup {Advertisement(s, -40, FALSE, TRUE, "service") : s \in MCStations}
           \cup {Advertisement(Legacy, -40, TRUE, FALSE, "service"),
                 Advertisement(Newer, -40, TRUE, TRUE, "none"),
                 Advertisement(Another, -40, TRUE, TRUE, "service")}
===============================================================================
