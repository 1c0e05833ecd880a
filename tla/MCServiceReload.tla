---------------------------- MODULE MCServiceReload ----------------------------
(* Small instances of ServiceReload for TLC. *)
EXTENDS ServiceReload, TLC

Gauge(name, help, labels, enabled, conn) ==
    [name |-> name, type |-> "gauge", help |-> help, labels |-> labels,
     enabled |-> enabled, conn |-> conn]

Counter(name, conn) ==
    [name |-> name, type |-> "counter", help |-> 1, labels |-> 1,
     enabled |-> TRUE, conn |-> conn]

Server(compared, rest) == [compared |-> compared, rest |-> rest]

(* From one to the other: a gauge comes, goes and is switched off and on,   *)
(* labels and help change, a counter comes and goes, and so do servers, and *)
(* the counter is a gauge elsewhere.                                        *)
Base == [metrics |-> <<Gauge("b", 1, 1, TRUE, "iotdb"), Gauge("a", 1, 1, TRUE, "x")>>,
         servers |-> [x |-> Server(1, 1), iotdb |-> Server(1, 1)]]
Moved == [metrics |-> <<Gauge("a", 1, 1, FALSE, "x"), Gauge("b", 1, 2, TRUE, "x")>>,
          servers |-> [x |-> Server(2, 1)]]
Helped == [metrics |-> <<Gauge("a", 1, 1, FALSE, "x"), Gauge("b", 2, 1, TRUE, "x"),
                         Counter("c", "x")>>,
           servers |-> [x |-> Server(2, 2)]]
Relabelled == [metrics |-> <<Gauge("b", 2, 1, FALSE, "x"), Gauge("a", 1, 2, TRUE, "x"),
                             Gauge("c", 1, 1, TRUE, "x")>>,
               servers |-> [x |-> Server(1, 1)]]

AllConfigs == {Base, Moved, Helped, Relabelled}

(* One of them, alone. *)
OnlyCounter == {[metrics |-> <<Counter("c", "x")>>, servers |-> [x |-> Server(1, 1)]]}
HelpOnly == {[metrics |-> <<Gauge("a", help, 1, TRUE, "x")>>, servers |-> [x |-> Server(1, 1)]] :
                help \in {1, 2}}

===============================================================================
