---------------------------- MODULE MCSnmpClient ----------------------------
(* SnmpClient on a projector with a PDU of one generation, and on a PDU of *)
(* the other with a projector at its address and a device of a class two   *)
(* factories could claim: three hosts for the permits of two clients.  In  *)
(* each table some column lacks a row; only the first sensor of the PDU    *)
(* with scales of its own is in Fahrenheit.  The order of v, m and q in    *)
(* the configuration puts v and q, which share an address, into one chunk. *)
EXTENDS SnmpClient, TLC

CONSTANTS p, w, v, q, m, ipProjector, ipSentry3, ipSentry4, ipMatrix

Target(class, avpro, brand, model) ==
    [eqClass |-> class, avpro |-> avpro, brand |-> brand, model |-> model]

Routes ==
    p :> Target("AVD", TRUE, "epson", "other")
    @@ w :> Target("AVS", FALSE, "stech", "CW")
    @@ v :> Target("AVS", FALSE, "blank", "SERVERTECH AA")
    @@ q :> Target("AVDX", TRUE, "epson", "other")
    @@ m :> Target("AVVS", FALSE, "cisco", "other")

Places ==
    p :> ipProjector @@ w :> ipSentry4 @@ v :> ipSentry3 @@ q :> ipSentry3 @@ m :> ipMatrix

FiveDevices == DOMAIN Places
FourAddresses == {ipProjector, ipSentry3, ipSentry4, ipMatrix}

NoTables == [column \in Columns |-> <<>>]
Ports == [NoTables EXCEPT !["ifOper"] = <<1, 2>>, !["ifType"] = <<softwareLoopback, 6>>,
                          !["ifCounter"] = <<10, 20>>, !["ifDescr"] = 2 :> 22]
Outlets == [NoTables EXCEPT !["state"] = <<1, 7>>, !["current"] = 2 :> 12, !["power"] = <<5>>]
Sentry3Tables == [Outlets EXCEPT !["temp"] = <<500, 200>>, !["tempScale"] = <<1, 0>>,
                                 !["humid"] = <<40>>]
Sentry4Tables == [NoTables EXCEPT !["temp"] = 2 :> 500, !["humid"] = 2 :> 40]

Values == [uptime |-> 7, lamp |-> 300, status |-> 1, load_status |-> 3, balance_status |-> 14,
           line_current |-> 800, capacity |-> 16, utilized |-> 50]

AnAgent(mib, scale, tables) == [mib |-> mib, get |-> Values, scale |-> scale, table |-> tables]

TheAgents ==
    ipProjector :> AnAgent("EpsonProjector", 0, Ports)
    @@ ipSentry3 :> AnAgent("Sentry3Pdu", 0, Sentry3Tables)
    @@ ipSentry4 :> AnAgent("Sentry4Pdu", 1, Sentry4Tables)
    @@ ipMatrix :> AnAgent("Codec", 0, NoTables)

TwoFleets == {{p, w}, {v, q, m}}
=============================================================================
