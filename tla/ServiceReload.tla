----------------------------- MODULE ServiceReload -----------------------------
(***************************************************************************)
(* collectors.Service: collection cycles and hot reloads of the            *)
(* configuration.                                                          *)
(*                                                                         *)
(* ReloadConfig holds Service.mu and works in steps, any of which may fail *)
(* and leave the earlier ones done: it unregisters the removed gauges and  *)
(* closes the connections that are no longer needed, builds connections,   *)
(* goes through the metrics, changing holders in place and the registries, *)
(* and at last replaces the list of holders.  A cycle walks the holders    *)
(* and looks connections up without the lock.                              *)
(*                                                                         *)
(* A process starts with empty registries, so a restart is a new behaviour.*)
(*                                                                         *)
(* A configuration is what a reload got.  Handlers of metrics edit the     *)
(* shared object in place, but only its metrics, of which ReloadConfig     *)
(* reads nothing in the old one; that they edit the new one while a reload *)
(* walks it, a data race, is left out.                                     *)
(***************************************************************************)
EXTENDS Naturals, Sequences, SequencesExt

CONSTANTS
    Configs,    \* configurations that pass Validate
    Iotdb,      \* the one IoTDB connection; the others are of one kind
    MaxTwins    \* gauges of one name and labels that are in use at a time

(* help stands for the help string and the label names; labels for the      *)
(* values of the labels.                                                    *)
IsSpec(s) ==
    /\ DOMAIN s = {"name", "type", "help", "labels", "enabled", "conn"}
    /\ s.type \in {"gauge", "counter"}
    /\ s.enabled \in BOOLEAN

(* metrics is the list of specs, servers the settings of each connection:   *)
(* those that a reload compares, and the rest, such as the headers of a     *)
(* REST connection.  Validate wants one metric, distinct names and          *)
(* configured connections.                                                  *)
ASSUME ReloadAssumption ==
    /\ MaxTwins \in Nat \ {0}
    /\ \A c \in Configs :
        /\ \A conn \in DOMAIN c.servers : DOMAIN c.servers[conn] = {"compared", "rest"}
        /\ c.metrics \in Seq(ToSet(c.metrics)) \ {<<>>}
        /\ \A i, j \in DOMAIN c.metrics :
            /\ IsSpec(c.metrics[i])
            /\ c.metrics[i].name = c.metrics[j].name => i = j
            /\ c.metrics[i].conn \in DOMAIN c.servers

VARIABLES
    cfg,        \* Service.cfg
    metrics,    \* Service.metrics, the holders: a spec and a collector
    clients,    \* the connections, with the settings they were built from
    own,        \* the collectors of Service.registry
    exposed,    \* the collectors of the default registry, which /metrics shows
    helps,      \* the help each name had when Service.registry first saw it
    collected,  \* the gauges in it that a cycle has set
    reload,     \* the ReloadConfig under way
    cycle,      \* the collection cycle under way
    healthy     \* no reload has failed so far

vars == <<cfg, metrics, clients, own, exposed, helps, collected, reload, cycle, healthy>>
registryVars == <<own, exposed, helps>>

NoReload == [at |-> "idle"]
NoCycle == [at |-> "idle"]
NoCollector == [name |-> "none"]

NamesOf(c) == { c.metrics[i].name : i \in DOMAIN c.metrics }

(* mysqlConnectionsNeeded and its siblings: disabled metrics count too. *)
Needed(c) == { c.metrics[i].conn : i \in DOMAIN c.metrics }

Connections == UNION { DOMAIN c.servers : c \in Configs }

Wanted(spec) == spec.enabled /\ spec.type = "gauge"

-------------------------------------------------------------------------------
(* The registries of the Prometheus client library. *)

(* A collector is known by its name and the values of its labels. *)
Same(c, d) == c.name = d.name /\ c.labels = d.labels

Has(registry, c) == \E d \in registry : Same(c, d)

(* Faulty: nothing is unregistered. *)
UnregisteredNone(registry, gone) == registry

(* Registry.Unregister removes whatever has the collector's identity. *)
Unregistered(registry, gone) == { c \in registry : ~Has(gone, c) }

(* Registry.Register refuses another help for a name it has ever seen,      *)
(* because Unregister does not forget it.                                   *)
Conflicts(spec) == spec.name \in DOMAIN helps /\ helps[spec.name] # spec.help

Seen(spec) ==
    [name \in DOMAIN helps \cup {spec.name} |->
        IF name \in DOMAIN helps THEN helps[name] ELSE spec.help]

(* The gauges that something still refers to. *)
InUse ==
    LET held(list) == { list[i].gauge : i \in DOMAIN list }
    IN  UNION { own, exposed, held(metrics),
                IF reload = NoReload THEN {} ELSE held(reload.updated),
                IF cycle = NoCycle THEN {} ELSE {cycle.gauge} \cup held(cycle.list) }

(* A collector that is not a gauge is no object that a cycle can set. *)
Labelled(spec, twin) == [name |-> spec.name, labels |-> spec.labels, twin |-> twin]
NoTwin == 0
IsGauge(c) == c.twin # NoTwin

(* A new collector for the spec. *)
Collector(spec) ==
    Labelled(spec, IF spec.type # "gauge" THEN NoTwin
                   ELSE CHOOSE twin \in 1 .. MaxTwins : Labelled(spec, twin) \notin InUse)

(* Bound: one of the MaxTwins is free. *)
HasSpare(spec) == \E twin \in 1 .. MaxTwins : Labelled(spec, twin) \notin InUse

Holder(spec, c) == [spec |-> spec, gauge |-> c]

-------------------------------------------------------------------------------
(* ReloadConfig: the removed metrics and the connections. *)

NeededClients(new) == [conn \in DOMAIN clients \cap Needed(new) |-> clients[conn]]

(* A gauge that is no longer exposed never is again. *)
Forget == collected' = collected \cap exposed'

(* The removed gauges leave both registries, unneeded connections close. *)
BeginReload(new) ==
    /\ reload = NoReload
    /\ LET gone == { metrics[i].gauge : i \in
                       { j \in DOMAIN metrics : metrics[j].spec.name \notin NamesOf(new) } }
       IN  /\ own' = Unregistered(own, gone)
           /\ exposed' = Unregistered(exposed, gone)
    /\ clients' = NeededClients(new)
    /\ reload' = [at |-> "connections", cfg |-> new, conns |-> Needed(new),
                  next |-> 1, updated |-> <<>>]
    /\ Forget
    /\ UNCHANGED <<cfg, metrics, helps, cycle, healthy>>

(* Faulty: settings are not compared. *)
KeepsAlways(conn) == conn \in DOMAIN clients

(* A connection stays if what is compared of its settings is as in the old  *)
(* configuration; IoTDB's stays in any case.                                *)
Keeps(conn) ==
    /\ conn \in DOMAIN clients
    /\ \/ conn = Iotdb
       \/ /\ conn \in DOMAIN cfg.servers
          /\ cfg.servers[conn].compared = reload.cfg.servers[conn].compared

(* IoTDB comes first, the others in any order. *)
IsNext(conn) ==
    /\ reload.at = "connections"
    /\ conn \in reload.conns
    /\ Iotdb \in reload.conns => conn = Iotdb

Connect(conn) ==
    /\ IsNext(conn)
    /\ clients' = [c \in DOMAIN clients \cup {conn} |->
                     IF c = conn /\ ~Keeps(conn) THEN reload.cfg.servers[conn]
                     ELSE clients[c]]
    /\ reload' = [reload EXCEPT !.conns = @ \ {conn},
                                !.at = IF reload.conns = {conn} THEN "metrics" ELSE @]
    /\ UNCHANGED <<cfg, metrics, registryVars, collected, cycle, healthy>>

(* A ReloadConfig that returns early, or panics, keeps what it has done. *)
Fail ==
    /\ reload' = NoReload
    /\ healthy' = FALSE
    /\ UNCHANGED <<cfg, cycle>>

(* The old connection is closed before the new one fails. *)
ConnectFails(conn) ==
    /\ IsNext(conn)
    /\ ~Keeps(conn)
    /\ clients' = [c \in DOMAIN clients \ {conn} |-> clients[c]]
    /\ Fail
    /\ UNCHANGED <<metrics, registryVars, collected>>

-------------------------------------------------------------------------------
(* ReloadConfig: one metric after the other. *)

(* The metric whose turn it is. *)
Metric == reload.cfg.metrics[reload.next]

AtMetric ==
    /\ reload.at = "metrics"
    /\ reload.next <= Len(reload.cfg.metrics)
    /\ HasSpare(Metric)

(* Where the holder of that name is in the list. *)
Existing == { i \in DOMAIN metrics : metrics[i].spec.name = Metric.name }

(* Faulty: the new list is overwritten in place of extended. *)
AdvanceOver(holders) ==
    /\ reload' = [reload EXCEPT !.next = @ + 1, !.updated = holders]
    /\ UNCHANGED <<cfg, cycle, healthy>>

(* On to the next metric, with these holders for the new list. *)
Advance(holders) ==
    /\ reload' = [reload EXCEPT !.next = @ + 1, !.updated = @ \o holders]
    /\ UNCHANGED <<cfg, cycle, healthy>>

(* An existing metric is disabled: it is unregistered, and its holder keeps *)
(* its place in the old list only.                                          *)
DisableMetric ==
    /\ AtMetric
    /\ \E i \in Existing :
        /\ metrics[i].spec.enabled /\ ~Metric.enabled
        /\ own' = Unregistered(own, {metrics[i].gauge})
        /\ exposed' = Unregistered(exposed, {metrics[i].gauge})
        /\ metrics' = [metrics EXCEPT ![i].spec = Metric]
    /\ Advance(<<>>)
    /\ Forget
    /\ UNCHANGED <<clients, helps>>

(* A disabled holder is enabled, but its help is refused: only logged. *)
EnableRefused ==
    /\ AtMetric
    /\ \E i \in Existing : ~metrics[i].spec.enabled /\ Metric.enabled
    /\ Conflicts(Metric)
    /\ Advance(<<>>)
    /\ UNCHANGED <<metrics, clients, registryVars, collected>>

(* A disabled holder, which a failed reload left, is enabled.  A collector  *)
(* of the same identity gives way in the own registry; in the default one   *)
(* it makes MustRegister panic.                                             *)
EnableMetric ==
    /\ AtMetric
    /\ ~Conflicts(Metric)
    /\ \E i \in Existing :
        LET c == Collector(Metric)
            panics == Metric.type = "gauge" /\ Has(exposed, c)
            holder == IF Metric.type = "gauge" THEN Holder(Metric, c) ELSE metrics[i]
        IN  /\ ~metrics[i].spec.enabled /\ Metric.enabled
            /\ own' = Unregistered(own, {c}) \cup {c}
            /\ helps' = Seen(Metric)
            /\ metrics' = [metrics EXCEPT ![i] = holder]
            /\ IF panics THEN Fail /\ UNCHANGED exposed
               ELSE /\ exposed' = exposed \cup (IF Metric.type = "gauge" THEN {c} ELSE {})
                    /\ Advance(<<holder>>)
    /\ UNCHANGED <<clients, collected>>

(* The descriptor of an existing metric is another one now. *)
Changed(i) ==
    /\ metrics[i].spec.enabled = Metric.enabled
    /\ \/ metrics[i].spec.type # Metric.type
       \/ metrics[i].spec.help # Metric.help
       \/ metrics[i].spec.labels # Metric.labels

(* Faulty: the old gauge stays in the default registry. *)
ExposedStill(old, c) == exposed \cup {c}

(* The default registry after a change of a metric to c. *)
ExposedInstead(old, c) ==
    LET rest == Unregistered(exposed, {old})
    IN  IF ~IsGauge(c) THEN rest ELSE Unregistered(rest, {c}) \cup {c}

(* It gets a new collector.  If that is not a gauge, the holder goes on     *)
(* with the old gauge and the old spec.                                     *)
RecreateMetric ==
    /\ AtMetric
    /\ ~Conflicts(Metric)
    /\ \E i \in Existing :
        LET c == Collector(Metric)
            old == metrics[i].gauge
            holder == IF Metric.type = "gauge" THEN Holder(Metric, c) ELSE metrics[i]
        IN  /\ Changed(i)
            /\ own' = Unregistered(own, {old, c}) \cup {c}
            /\ exposed' = ExposedInstead(old, c)
            /\ helps' = Seen(Metric)
            /\ metrics' = [metrics EXCEPT ![i] = holder]
            /\ Advance(<<holder>>)
    /\ Forget
    /\ UNCHANGED clients

(* The new help is refused after the old gauge has left the registries. *)
RecreateFails ==
    /\ AtMetric
    /\ Conflicts(Metric)
    /\ \E i \in Existing :
        /\ Changed(i)
        /\ own' = Unregistered(own, {metrics[i].gauge})
        /\ exposed' = Unregistered(exposed, {metrics[i].gauge})
    /\ Fail
    /\ Forget
    /\ UNCHANGED <<metrics, clients, helps>>

(* Nothing that the registries know of has changed. *)
KeepMetric ==
    /\ AtMetric
    /\ \E i \in Existing :
        /\ metrics[i].spec.enabled = Metric.enabled /\ ~Changed(i)
        /\ metrics' = [metrics EXCEPT ![i].spec = Metric]
        /\ Advance(<<Holder(Metric, metrics[i].gauge)>>)
    /\ UNCHANGED <<clients, registryVars, collected>>

(* A metric without a holder is registered, unless it is disabled. *)
AddMetric ==
    /\ AtMetric
    /\ Existing = {}
    /\ IF ~Metric.enabled THEN Advance(<<>>) /\ UNCHANGED registryVars
       ELSE LET c == Collector(Metric)
            IN  /\ ~Conflicts(Metric) /\ ~Has(own, c)
                /\ own' = own \cup {c}
                /\ helps' = Seen(Metric)
                /\ IF Metric.type # "gauge" THEN Advance(<<>>) /\ UNCHANGED exposed
                   ELSE IF Has(exposed, c) THEN Fail /\ UNCHANGED exposed
                   ELSE exposed' = exposed \cup {c} /\ Advance(<<Holder(Metric, c)>>)
    /\ UNCHANGED <<metrics, clients, collected>>

(* Its identity is taken, by a gauge that a failed reload left behind, or   *)
(* its help is refused.                                                     *)
AddFails ==
    /\ AtMetric
    /\ Existing = {} /\ Metric.enabled
    /\ Conflicts(Metric) \/ Has(own, Collector(Metric))
    /\ Fail
    /\ UNCHANGED <<metrics, clients, registryVars, collected>>

(* The new list of holders takes effect.  A cycle goes on with the old one. *)
Publish ==
    /\ reload.at = "metrics"
    /\ reload.next > Len(reload.cfg.metrics)
    /\ metrics' = reload.updated
    /\ cfg' = reload.cfg
    /\ cycle' = IF cycle # NoCycle /\ cycle.current
                THEN [cycle EXCEPT !.list = SubSeq(metrics, cycle.next, Len(metrics)),
                                   !.next = 1, !.current = FALSE]
                ELSE cycle
    /\ reload' = NoReload
    /\ UNCHANGED <<clients, registryVars, collected, healthy>>

-------------------------------------------------------------------------------
(* Collection cycles. *)

(* What the cycle has still to walk: of the current list, with what reloads *)
(* change in place, or of the one it was when the cycle began.              *)
Ahead == IF cycle.current THEN SubSeq(metrics, cycle.next, Len(metrics)) ELSE cycle.list

BeginCycle ==
    /\ cycle = NoCycle
    /\ cycle' = [at |-> "next", next |-> 1, current |-> TRUE, list |-> <<>>,
                 gauge |-> NoCollector]
    /\ UNCHANGED <<cfg, metrics, clients, registryVars, collected, reload, healthy>>

(* The holder is copied and its query starts; disabled ones are passed over.*)
Query ==
    /\ cycle.at = "next"
    /\ Ahead # <<>>
    /\ LET holder == Head(Ahead)
           on == holder.spec.enabled
       IN  cycle' = [cycle EXCEPT !.at = IF on THEN "querying" ELSE "next",
                                  !.gauge = IF on THEN holder.gauge ELSE NoCollector,
                                  !.next = IF cycle.current THEN @ + 1 ELSE @,
                                  !.list = IF cycle.current THEN @ ELSE Tail(@)]
    /\ UNCHANGED <<cfg, metrics, clients, registryVars, collected, reload, healthy>>

(* Faulty: a failed query leaves the gauge alone. *)
CollectedOnSuccess(failed) ==
    IF failed THEN collected ELSE collected \cup ({cycle.gauge} \cap exposed)

(* The gauge shows the result, or NaN after a failure. *)
CollectedAfter(failed) == collected \cup ({cycle.gauge} \cap exposed)

(* The query ends; a result is kept for the alerts once Service.mu is free. *)
Answer(failed) ==
    /\ cycle.at = "querying"
    /\ collected' = CollectedAfter(failed)
    /\ cycle' = [cycle EXCEPT !.at = IF failed THEN "next" ELSE "storing",
                              !.gauge = NoCollector]
    /\ UNCHANGED <<cfg, metrics, clients, registryVars, reload, healthy>>

StoreValue ==
    /\ cycle.at = "storing"
    /\ reload = NoReload
    /\ cycle' = [cycle EXCEPT !.at = "next"]
    /\ UNCHANGED <<cfg, metrics, clients, registryVars, collected, reload, healthy>>

EndCycle ==
    /\ cycle.at = "next"
    /\ Ahead = <<>>
    /\ cycle' = NoCycle
    /\ UNCHANGED <<cfg, metrics, clients, registryVars, collected, reload, healthy>>

-------------------------------------------------------------------------------
(* The numbers of S in increasing order. *)
Ordered(S) ==
    { at \in Surjection(1 .. Cardinality(S), S) :
        \A i, j \in 1 .. Cardinality(S) : i < j => at[i] < at[j] }

(* NewService: an enabled metric is registered, a connection may fail. *)
Init ==
    /\ cfg \in Configs
    /\ LET enabled == { s \in ToSet(cfg.metrics) : s.enabled }
           first(s) == Labelled(s, IF s.type = "gauge" THEN 1 ELSE NoTwin)
           gauges == { i \in DOMAIN cfg.metrics : Wanted(cfg.metrics[i]) }
       IN  /\ \E at \in Ordered(gauges) :
                metrics = [i \in 1 .. Cardinality(gauges) |->
                             Holder(cfg.metrics[at[i]], first(cfg.metrics[at[i]]))]
           /\ own = { first(s) : s \in enabled }
           /\ exposed = { first(s) : s \in { s \in enabled : Wanted(s) } }
           /\ helps = [name \in { s.name : s \in enabled } |->
                          (CHOOSE s \in enabled : s.name = name).help]
    /\ \E up \in SUBSET Needed(cfg) : clients = [conn \in up |-> cfg.servers[conn]]
    /\ collected = {}
    /\ reload = NoReload
    /\ cycle = NoCycle
    /\ healthy = TRUE

Reload ==
    \/ \E conn \in Connections : Connect(conn) \/ ConnectFails(conn)
    \/ DisableMetric
    \/ EnableRefused
    \/ EnableMetric
    \/ RecreateMetric
    \/ RecreateFails
    \/ KeepMetric
    \/ AddMetric
    \/ AddFails
    \/ Publish

Cycle ==
    \/ BeginCycle
    \/ Query
    \/ \E failed \in BOOLEAN : Answer(failed)
    \/ StoreValue
    \/ EndCycle

Next ==
    \/ \E new \in Configs : BeginReload(new)
    \/ Reload
    \/ Cycle

Spec == Init /\ [][Next]_vars

(* Go runs every goroutine: a reload and a cycle go on, queries end, the    *)
(* ticker keeps starting cycles.                                            *)
Fairness == WF_vars(Reload) /\ WF_vars(Cycle)

FairSpec == Spec /\ Fairness

-------------------------------------------------------------------------------
HolderOK(h) ==
    /\ IsSpec(h.spec)
    /\ h.gauge.name = h.spec.name
    /\ h.gauge.twin \in 1 .. MaxTwins

(* The types of the service's variables; holders hold gauges, and of each   *)
(* identity a registry has one collector.                                   *)
TypeOK ==
    /\ cfg \in Configs
    /\ \A i \in DOMAIN metrics : HolderOK(metrics[i])
    /\ DOMAIN clients \subseteq Connections
    /\ \A c, d \in own : Same(c, d) => c = d
    /\ \A c, d \in exposed : IsGauge(c) /\ (Same(c, d) => c = d)
    /\ DOMAIN helps \subseteq UNION { NamesOf(c) : c \in Configs }
    /\ collected \subseteq exposed
    /\ reload.at \in {"idle", "connections", "metrics"}
    /\ reload # NoReload => reload.cfg \in Configs
    /\ cycle.at \in {"idle", "next", "querying", "storing"}
    /\ healthy \in BOOLEAN

(* The metrics that have one type in all configurations. *)
Steady ==
    { name \in UNION { NamesOf(c) : c \in Configs } :
        \E type \in {"gauge", "counter"} :
            \A c \in Configs : \A i \in DOMAIN c.metrics :
                c.metrics[i].name = name => c.metrics[i].type = type }

(* While no reload has failed, /metrics shows one gauge for each enabled    *)
(* gauge of the configuration, and it is the object that the cycles set;    *)
(* except for metrics whose type changes.                                   *)
ExposedIsConfigured ==
    LET shown == { c \in exposed : c.name \in Steady }
        held == { metrics[i].gauge : i \in DOMAIN metrics }
        wanted == { s \in ToSet(cfg.metrics) : Wanted(s) /\ s.name \in Steady }
    IN  healthy /\ reload = NoReload =>
            /\ shown = { c \in held : c.name \in Steady }
            /\ { <<c.name, c.labels>> : c \in shown } = { <<s.name, s.labels>> : s \in wanted }

(* Whatever failed, and where: the two registries hold gauges of the same   *)
(* identities, except for metrics whose type changes.  (A counter of the    *)
(* identity of a gauge takes its place in the own registry only, and its    *)
(* holder may be that of a gauge of other labels.)                          *)
RegistriesAgree ==
    LET identities(registry) ==
            { <<c.name, c.labels>> : c \in { c \in registry : c.name \in Steady /\ IsGauge(c) } }
    IN  identities(exposed) = identities(own)

(* A reload that succeeds has a connection for each that is needed and no   *)
(* other, even after failed ones; if none failed, they have the settings of *)
(* the configuration, as far as these are compared.                         *)
ReloadConnects ==
    [][ Publish =>
          /\ DOMAIN clients = Needed(reload.cfg)
          /\ healthy => \A conn \in DOMAIN clients \ {Iotdb} :
                            clients[conn].compared = reload.cfg.servers[conn].compared ]_vars

(* Once reloads come to rest, every exposed gauge is collected, also one    *)
(* that was made while a cycle was walking the old list.                    *)
ExposedIsCollected ==
    <>[](healthy /\ reload = NoReload) =>
        <>[](exposed = collected)

(* A changed help or label never meets a registration conflict. *)
ChangesNeverConflict == [][~RecreateFails]_vars

(* While no reload has failed, no metric's identity is taken. *)
CleanReloadRegisters == [][healthy => ~AddFails]_vars

===============================================================================
