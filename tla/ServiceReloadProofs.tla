-------------------------- MODULE ServiceReloadProofs --------------------------
(***************************************************************************)
(* Proofs about ServiceReload: types, the two registries, the connections  *)
(* a reload leaves, and what /metrics shows while no reload fails.         *)
(*                                                                         *)
(* A step at a metric changes the lists of holders and the registries at   *)
(* the metric's own name only (MetricStep); names are what the holders and *)
(* the metrics of a configuration do not share.  Each invariant is then    *)
(* kept for the other names by that fact alone, and for the metric's name  *)
(* by what the step does.                                                  *)
(***************************************************************************)
EXTENDS ServiceReload, TLAPS, SequenceTheorems, FiniteSetTheorems

Names == UNION { NamesOf(c) : c \in Configs }

Specs == UNION { ToSet(c.metrics) : c \in Configs }

(* The name of a gauge. *)
NamesGauge(name) == \E s \in Specs : s.name = name /\ s.type = "gauge"

Gauges == [name : Names, labels : { s.labels : s \in Specs }, twin : 1 .. MaxTwins]

(* The holders that reloads build, each for a metric of some configuration; *)
(* none for the name of a counter.                                          *)
Holders ==
    { h \in [spec : Specs, gauge : Gauges] :
        /\ h.gauge.name = h.spec.name
        /\ h.gauge.name \in Steady => NamesGauge(h.gauge.name) }

(* A configuration is a list of specs with names of their own. *)
LEMMA ConfigFacts ==
    ASSUME NEW c \in Configs
    PROVE  /\ c.metrics \in Seq(Specs)
           /\ DOMAIN c.metrics = 1 .. Len(c.metrics)
           /\ Len(c.metrics) \in Nat \ {0}
           /\ \A i, j \in DOMAIN c.metrics :
                c.metrics[i].name = c.metrics[j].name => i = j
           /\ \A i \in DOMAIN c.metrics :
                /\ c.metrics[i] \in Specs
                /\ c.metrics[i].name \in NamesOf(c)
                /\ c.metrics[i].conn \in DOMAIN c.servers
PROOF
<1>1. /\ c.metrics \in Seq(ToSet(c.metrics)) \ {<<>>}
      /\ \A i, j \in DOMAIN c.metrics :
            c.metrics[i].name = c.metrics[j].name => i = j
      /\ \A i \in DOMAIN c.metrics : c.metrics[i].conn \in DOMAIN c.servers
    BY ReloadAssumption, Zenon
<1>2. ToSet(c.metrics) \subseteq Specs
    BY Zenon DEF Specs
<1>3. \A i \in DOMAIN c.metrics : c.metrics[i] \in ToSet(c.metrics)
    BY Zenon DEF ToSet
<1>4. \A i \in DOMAIN c.metrics : c.metrics[i].name \in NamesOf(c)
    BY Zenon DEF NamesOf
<1>5. DOMAIN c.metrics = 1 .. Len(c.metrics) /\ Len(c.metrics) \in Nat
    BY <1>1
<1>6. Len(c.metrics) # 0
    BY <1>1, EmptySeq
<1>7. c.metrics \in Seq(Specs)
    BY <1>1, <1>2
<1> QED
    BY <1>1, <1>2, <1>3, <1>4, <1>5, <1>6, <1>7

(* All metrics of a steady name have one type. *)
LEMMA SteadyType ==
    ASSUME NEW s \in Specs, s.name \in Steady
    PROVE  NamesGauge(s.name) <=> s.type = "gauge"
PROOF
<1>1. PICK type \in {"gauge", "counter"} :
        \A c \in Configs : \A i \in DOMAIN c.metrics :
            c.metrics[i].name = s.name => c.metrics[i].type = type
    BY Zenon DEF Steady
<1>2. ASSUME NEW t \in Specs, t.name = s.name
      PROVE  t.type = type
    <2>1. PICK c \in Configs : t \in ToSet(c.metrics)
        BY Zenon DEF Specs
    <2>2. PICK i \in DOMAIN c.metrics : t = c.metrics[i]
        BY <2>1, Zenon DEF ToSet
    <2> QED
        BY <1>1, <1>2, <2>2, Zenon
<1> QED
    BY <1>2, Zenon DEF NamesGauge

LEMMA SpecFacts ==
    ASSUME NEW s \in Specs
    PROVE  /\ IsSpec(s)
           /\ s.name \in Names
PROOF
<1>1. PICK c \in Configs : s \in ToSet(c.metrics)
    BY Zenon DEF Specs
<1>2. PICK i \in DOMAIN c.metrics : s = c.metrics[i]
    BY <1>1, Zenon DEF ToSet
<1>3. IsSpec(c.metrics[i])
    BY ReloadAssumption, Zenon
<1>4. s.name \in NamesOf(c)
    BY <1>2, Zenon DEF NamesOf
<1> QED
    BY <1>2, <1>3, <1>4, Zenon DEF Names

(* A new gauge has the identity of its metric, and is none in use. *)
LEMMA CollectorFacts ==
    ASSUME NEW s \in Specs, HasSpare(s)
    PROVE  /\ Collector(s).name = s.name
           /\ Collector(s).labels = s.labels
           /\ s.type = "gauge" =>
                Collector(s) \in Gauges /\ IsGauge(Collector(s))
           /\ s.type # "gauge" => ~IsGauge(Collector(s))
PROOF
<1>1. PICK twin \in 1 .. MaxTwins : Labelled(s, twin) \notin InUse
    BY Zenon DEF HasSpare
<1> DEFINE chosen == CHOOSE t \in 1 .. MaxTwins : Labelled(s, t) \notin InUse
<1>2. chosen \in 1 .. MaxTwins
    BY <1>1, Zenon
<1>3. Collector(s) = Labelled(s, IF s.type # "gauge" THEN NoTwin ELSE chosen)
    BY Zenon DEF Collector
<1> HIDE DEF chosen
<1>4. s.name \in Names /\ s.labels \in { t.labels : t \in Specs }
    BY SpecFacts
<1>5. CASE s.type = "gauge"
    <2>1. Collector(s) = [name |-> s.name, labels |-> s.labels, twin |-> chosen]
        BY <1>3, <1>5 DEF Labelled
    <2>2. chosen # 0
        BY <1>2, ReloadAssumption
    <2> QED
        BY <2>1, <2>2, <1>2, <1>4, <1>5 DEF Gauges, IsGauge, NoTwin
<1>6. CASE s.type # "gauge"
    <2>1. Collector(s) = [name |-> s.name, labels |-> s.labels, twin |-> 0]
        BY <1>3, <1>6 DEF Labelled, NoTwin
    <2> QED
        BY <2>1, <1>6 DEF IsGauge, NoTwin
<1> QED
    BY <1>5, <1>6

LEMMA HolderFacts ==
    ASSUME NEW h \in Holders
    PROVE  /\ h.spec \in Specs
           /\ h.gauge.name = h.spec.name
           /\ h.spec.name \in Steady => NamesGauge(h.spec.name)
           /\ h.gauge \in Gauges
           /\ IsGauge(h.gauge)
           /\ HolderOK(h)
           /\ h = Holder(h.spec, h.gauge)
PROOF
<1>1. /\ h \in [spec : Specs, gauge : Gauges] /\ h.gauge.name = h.spec.name
      /\ h.gauge.name \in Steady => NamesGauge(h.gauge.name)
    BY Zenon DEF Holders
<1>2. h.gauge \in Gauges /\ h.spec \in Specs /\ h = [spec |-> h.spec, gauge |-> h.gauge]
    BY <1>1
<1>3. h.gauge.twin \in 1 .. MaxTwins
    BY <1>2 DEF Gauges
<1>4. h.gauge.twin # 0
    BY <1>3, ReloadAssumption
<1>5. IsSpec(h.spec)
    BY <1>2, SpecFacts
<1> QED
    BY <1>1, <1>2, <1>3, <1>4, <1>5, Zenon DEF HolderOK, IsGauge, NoTwin, Holder

(* A holder of the metric's spec, with a new gauge or the one it has. *)
LEMMA HolderWith ==
    ASSUME NEW s \in Specs, NEW c \in Gauges, c.name = s.name,
           s.name \in Steady => NamesGauge(s.name)
    PROVE  /\ Holder(s, c) \in Holders
           /\ Holder(s, c).spec = s
           /\ Holder(s, c).gauge = c
BY DEF Holder, Holders

LEMMA HolderWithSpec ==
    ASSUME NEW h \in Holders, NEW s \in Specs, s.name = h.spec.name
    PROVE  /\ [h EXCEPT !.spec = s] = Holder(s, h.gauge)
           /\ Holder(s, h.gauge) \in Holders
           /\ Holder(s, h.gauge).spec = s
           /\ Holder(s, h.gauge).gauge = h.gauge
PROOF
<1>1. /\ h \in [spec : Specs, gauge : Gauges] /\ h.gauge.name = h.spec.name
      /\ h.gauge.name \in Steady => NamesGauge(h.gauge.name)
    BY Zenon DEF Holders
<1>2. h.gauge \in Gauges
    BY <1>1
<1>3. [h EXCEPT !.spec = s] = Holder(s, h.gauge)
    BY <1>1 DEF Holder
<1> QED
    BY <1>1, <1>2, <1>3, HolderWith

(* Lists with one holder changed, or one more. *)
LEMMA ChangedList ==
    ASSUME NEW list \in Seq(Holders), NEW i \in DOMAIN list, NEW h \in Holders
    PROVE  /\ [list EXCEPT ![i] = h] \in Seq(Holders)
           /\ DOMAIN [list EXCEPT ![i] = h] = DOMAIN list
           /\ [list EXCEPT ![i] = h][i] = h
           /\ \A j \in DOMAIN list : j # i => [list EXCEPT ![i] = h][j] = list[j]
BY ExceptSeq

LEMMA LongerList ==
    ASSUME NEW list \in Seq(Holders), NEW h \in Holders
    PROVE  /\ list \o <<h>> \in Seq(Holders)
           /\ DOMAIN list = 1 .. Len(list) /\ Len(list) \in Nat
           /\ DOMAIN (list \o <<h>>) = 1 .. Len(list) + 1
           /\ \A j \in DOMAIN list : (list \o <<h>>)[j] = list[j]
           /\ \A j \in DOMAIN (list \o <<h>>) :
                \/ (list \o <<h>>)[j] = h /\ j \notin DOMAIN list
                \/ j \in DOMAIN list
           /\ \E j \in DOMAIN (list \o <<h>>) : (list \o <<h>>)[j] = h
PROOF
<1>1. <<h>> \in Seq(Holders) /\ Len(<<h>>) = 1 /\ <<h>>[1] = h
    OBVIOUS
<1> DEFINE longer == list \o <<h>>
<1>2. /\ longer \in Seq(Holders)
      /\ Len(longer) = Len(list) + 1
      /\ \A j \in 1 .. Len(list) + 1 :
            longer[j] = IF j <= Len(list) THEN list[j] ELSE <<h>>[j - Len(list)]
    BY <1>1, ConcatProperties
<1>3. Len(list) \in Nat /\ DOMAIN list = 1 .. Len(list) /\ DOMAIN longer = 1 .. Len(list) + 1
    BY <1>2
<1> HIDE DEF longer
<1>4. longer[Len(list) + 1] = h
    BY <1>1, <1>2, <1>3
<1>5. \A j \in DOMAIN list : longer[j] = list[j]
    BY <1>2, <1>3
<1> QED
    BY <1>2, <1>3, <1>4, <1>5 DEF longer

-------------------------------------------------------------------------------
(* Registries: no two collectors of one identity. *)
Unique(registry) == \A c, d \in registry : Same(c, d) => c = d

LEMMA UniqueLess ==
    ASSUME NEW registry, NEW part \in SUBSET registry, Unique(registry)
    PROVE  Unique(part)
BY Zenon DEF Unique

LEMMA UniqueMore ==
    ASSUME NEW registry, NEW c, Unique(registry), ~Has(registry, c)
    PROVE  Unique(registry \cup {c})
BY DEF Unique, Has, Same

LEMMA UnregisteredFacts ==
    ASSUME NEW registry, NEW gone
    PROVE  /\ Unregistered(registry, gone) \subseteq registry
           /\ \A c \in gone : ~Has(Unregistered(registry, gone), c)
           /\ \A c \in registry : (\A d \in gone : ~Same(c, d)) => c \in Unregistered(registry, gone)
           /\ \A c \in registry : (\A d \in gone : c.name # d.name) => c \in Unregistered(registry, gone)
BY DEF Unregistered, Has, Same

-------------------------------------------------------------------------------
(* The lists and the records, as every step leaves them. *)
Apart(list) == \A i, j \in DOMAIN list : list[i].spec.name = list[j].spec.name => i = j

(* The reload has dealt with the metric of that name. *)
Done(name) ==
    \E k \in DOMAIN reload.cfg.metrics :
        k < reload.next /\ reload.cfg.metrics[k].name = name

Reloading ==
    /\ DOMAIN reload = {"at", "cfg", "conns", "next", "updated"}
    /\ reload.at \in {"connections", "metrics"}
    /\ reload.cfg \in Configs
    /\ reload.next \in 1 .. Len(reload.cfg.metrics) + 1
    /\ reload.updated \in Seq(Holders)
    /\ Apart(reload.updated)
    /\ \A j \in DOMAIN reload.updated : Done(reload.updated[j].spec.name)

Cycling ==
    /\ DOMAIN cycle = {"at", "next", "current", "list", "gauge"}
    /\ cycle.at \in {"next", "querying", "storing"}

Typing ==
    /\ cfg \in Configs
    /\ metrics \in Seq(Holders)
    /\ Apart(metrics)
    /\ DOMAIN clients \subseteq Connections
    /\ Unique(own)
    /\ Unique(exposed)
    /\ \A c \in exposed : IsGauge(c)
    /\ DOMAIN helps \subseteq Names
    /\ collected \subseteq exposed
    /\ (reload = NoReload) \/ Reloading
    /\ (cycle = NoCycle) \/ Cycling
    /\ healthy \in BOOLEAN

LEMMA TypingIsType == Typing => TypeOK
PROOF
<1> SUFFICES ASSUME Typing PROVE TypeOK
    OBVIOUS
<1>1. \A i \in DOMAIN metrics : HolderOK(metrics[i])
    <2>1. metrics \in Seq(Holders)
        BY Zenon DEF Typing
    <2>2. \A i \in DOMAIN metrics : metrics[i] \in Holders
        BY <2>1
    <2> QED
        BY <2>2, HolderFacts
<1>2. /\ \A c, d \in own : Same(c, d) => c = d
      /\ \A c, d \in exposed : IsGauge(c) /\ (Same(c, d) => c = d)
    BY Zenon DEF Typing, Unique
<1>3. (reload.at \in {"idle", "connections", "metrics"}) /\ (reload # NoReload => reload.cfg \in Configs)
    BY DEF Typing, NoReload, Reloading
<1>4. cycle.at \in {"idle", "next", "querying", "storing"}
    BY DEF Typing, NoCycle, Cycling
<1> QED
    BY <1>1, <1>2, <1>3, <1>4, Zenon DEF Typing, TypeOK, Names

(* The metric whose turn it is, is one that the reload has not dealt with.  *)
LEMMA AtMetricFacts ==
    ASSUME Typing, AtMetric
    PROVE  /\ reload # NoReload /\ Reloading
           /\ reload.at = "metrics"
           /\ reload.next \in DOMAIN reload.cfg.metrics
           /\ Metric = reload.cfg.metrics[reload.next]
           /\ Metric \in Specs
           /\ Metric.name \in Names
           /\ IsSpec(Metric)
           /\ HasSpare(Metric)
           /\ ~Done(Metric.name)
PROOF
<1>1. reload.at = "metrics" /\ (reload.next <= Len(reload.cfg.metrics)) /\ HasSpare(Metric)
    BY Zenon DEF AtMetric
<1>2. reload # NoReload
    BY <1>1 DEF NoReload
<1>3. Reloading
    BY <1>2, Zenon DEF Typing
<1>4. reload.cfg \in Configs /\ reload.next \in 1 .. Len(reload.cfg.metrics) + 1
    BY <1>3, Zenon DEF Reloading
<1>5. reload.next \in DOMAIN reload.cfg.metrics
    BY <1>1, <1>4, ConfigFacts
<1>6. Metric = reload.cfg.metrics[reload.next] /\ Metric \in Specs
    BY <1>4, <1>5, ConfigFacts, Zenon DEF Metric
<1>7. ~Done(Metric.name)
    BY <1>4, <1>5, <1>6, ConfigFacts DEF Done
<1> QED
    BY <1>1, <1>2, <1>3, <1>5, <1>6, <1>7, SpecFacts

(* What is true of every step at a metric: the lists and registries change  *)
(* at the metric's own name only.                                           *)
MetricStep ==
    /\ metrics' \in Seq(Holders) /\ DOMAIN metrics' = DOMAIN metrics
    /\ \A i \in DOMAIN metrics :
        /\ metrics'[i].spec.name = metrics[i].spec.name
        /\ metrics[i].spec.name # Metric.name => metrics'[i] = metrics[i]
    /\ Unique(own') /\ Unique(exposed')
    /\ \A c \in exposed' : IsGauge(c)
    /\ \A c : c.name # Metric.name =>
                (c \in own' <=> c \in own) /\ (c \in exposed' <=> c \in exposed)
    /\ DOMAIN helps' \subseteq Names
    /\ collected' \subseteq exposed'
    /\ \/ Fail
       \/ Advance(<<>>)
       \/ \E h \in Holders : h.spec.name = Metric.name /\ Advance(<<h>>)
    /\ cfg' = cfg /\ clients' = clients /\ cycle' = cycle

(* The reload goes on with what a step adds to the new list. *)
LEMMA AdvanceFacts ==
    ASSUME Typing, AtMetric, NEW holders, Advance(holders)
    PROVE  /\ reload' # NoReload
           /\ DOMAIN reload' = DOMAIN reload
           /\ reload'.at = "metrics" /\ reload'.cfg = reload.cfg
           /\ reload'.conns = reload.conns
           /\ reload'.next = reload.next + 1
           /\ reload'.updated = reload.updated \o holders
           /\ \A name : Done(name)' <=> (Done(name) \/ name = Metric.name)
PROOF
<1>1. Reloading /\ reload.at = "metrics" /\ reload.next \in DOMAIN reload.cfg.metrics
      /\ Metric = reload.cfg.metrics[reload.next]
    BY AtMetricFacts
<1>2. DOMAIN reload = {"at", "cfg", "conns", "next", "updated"} /\ reload.cfg \in Configs
    BY <1>1, Zenon DEF Reloading
<1>3. reload' = [reload EXCEPT !.next = @ + 1, !.updated = @ \o holders]
    BY Zenon DEF Advance
<1>4. /\ DOMAIN reload' = DOMAIN reload
      /\ reload'.at = "metrics" /\ reload'.cfg = reload.cfg
      /\ reload'.conns = reload.conns
      /\ reload'.next = reload.next + 1
      /\ reload'.updated = reload.updated \o holders
    BY <1>1, <1>2, <1>3
<1>5. reload' # NoReload
    BY <1>4 DEF NoReload
<1>6. DOMAIN reload.cfg.metrics = 1 .. Len(reload.cfg.metrics)
    BY <1>2, ConfigFacts
<1>7. reload.next \in Nat /\ Len(reload.cfg.metrics) \in Nat
    BY <1>1, <1>2, <1>6, ConfigFacts
<1>8. \A k \in DOMAIN reload.cfg.metrics : k < reload.next + 1 <=> (k < reload.next \/ k = reload.next)
    BY <1>6, <1>7
<1>9. \A name : Done(name)' <=> \E k \in DOMAIN reload.cfg.metrics :
                                  k < reload.next + 1 /\ reload.cfg.metrics[k].name = name
    BY <1>4, Zenon DEF Done
<1>10. \A name : Done(name)' <=> (Done(name) \/ name = Metric.name)
    BY <1>1, <1>8, <1>9, Zenon DEF Done
<1> QED
    BY <1>4, <1>5, <1>10

LEMMA MetricStepType ==
    ASSUME Typing, AtMetric, MetricStep
    PROVE  Typing'
PROOF
<1>1. Reloading /\ reload.next \in DOMAIN reload.cfg.metrics
    BY AtMetricFacts
<1>2. /\ DOMAIN reload = {"at", "cfg", "conns", "next", "updated"}
      /\ reload.cfg \in Configs /\ reload.updated \in Seq(Holders)
      /\ Apart(reload.updated)
      /\ \A j \in DOMAIN reload.updated : Done(reload.updated[j].spec.name)
    BY <1>1, Zenon DEF Reloading
<1>3. metrics' \in Seq(Holders) /\ Apart(metrics')
    BY Zenon DEF Typing, MetricStep, Apart
<1>4. reload.next + 1 \in 1 .. Len(reload.cfg.metrics) + 1
    BY <1>1, <1>2, ConfigFacts
<1>5. CASE Fail
    <2>1. reload' = NoReload /\ healthy' = FALSE
        BY <1>5, Zenon DEF Fail
    <2> QED
        BY <1>3, <2>1, Zenon DEF Typing, MetricStep, Cycling
<1>6. CASE Advance(<<>>)
    <2>1. reload'.updated = reload.updated
        BY <1>2, <1>6, AdvanceFacts, ConcatEmptySeq
    <2>2. /\ DOMAIN reload' = DOMAIN reload
          /\ reload'.at = "metrics" /\ reload'.cfg = reload.cfg
          /\ reload'.next = reload.next + 1
          /\ \A name : Done(name) => Done(name)'
        BY <1>6, AdvanceFacts
    <2>3. Reloading'
        BY <1>2, <1>4, <2>1, <2>2, Zenon DEF Reloading
    <2>4. healthy' = healthy
        BY <1>6, Zenon DEF Advance
    <2> QED
        BY <1>3, <2>3, <2>4, Zenon DEF Typing, MetricStep, Cycling
<1>7. ASSUME NEW h \in Holders, h.spec.name = Metric.name, Advance(<<h>>)
      PROVE  Typing'
    <2>1. /\ DOMAIN reload' = DOMAIN reload
          /\ reload'.at = "metrics" /\ reload'.cfg = reload.cfg
          /\ reload'.next = reload.next + 1
          /\ reload'.updated = reload.updated \o <<h>>
          /\ \A name : Done(name)' <=> (Done(name) \/ name = Metric.name)
        BY <1>7, AdvanceFacts
    <2> DEFINE extended == reload.updated \o <<h>>
    <2>a. 
          /\ extended \in Seq(Holders)
          /\ \A j \in DOMAIN reload.updated : extended[j] = reload.updated[j]
          /\ \A j \in DOMAIN extended : (extended[j] = h /\ j \notin DOMAIN reload.updated)
                                      \/ j \in DOMAIN reload.updated
          /\ DOMAIN extended = 1 .. Len(reload.updated) + 1
          /\ DOMAIN reload.updated = 1 .. Len(reload.updated)
          /\ Len(reload.updated) \in Nat
        BY <1>2, <1>7, LongerList
    <2> HIDE DEF extended
    <2>2. PICK longer :
          /\ longer = extended
          /\ longer \in Seq(Holders)
          /\ \A j \in DOMAIN reload.updated : longer[j] = reload.updated[j]
          /\ \A j \in DOMAIN longer : (longer[j] = h /\ j \notin DOMAIN reload.updated)
                                      \/ j \in DOMAIN reload.updated
          /\ DOMAIN longer = 1 .. Len(reload.updated) + 1
          /\ DOMAIN reload.updated = 1 .. Len(reload.updated)
          /\ Len(reload.updated) \in Nat
        BY <2>a, Zenon
    <2>3. \A j \in DOMAIN longer : Done(longer[j].spec.name)'
        BY <1>2, <1>7, <2>1, <2>2, Zenon
    <2>4. \A j \in DOMAIN reload.updated : longer[j].spec.name # h.spec.name
        BY <1>2, <1>7, <2>2, AtMetricFacts, Zenon
    <2>5. \A i, j \in DOMAIN longer : (i \notin DOMAIN reload.updated /\ j \notin DOMAIN reload.updated) => i = j
        BY <2>2
    <2>6. Apart(longer)
        <3>1. \A i, j \in DOMAIN reload.updated :
                 reload.updated[i].spec.name = reload.updated[j].spec.name => i = j
            BY <1>2, Zenon DEF Apart
        <3>2. \A j \in DOMAIN longer :
                 j \in DOMAIN reload.updated \/ longer[j] = h
            BY <2>2, Zenon
        <3>3. \A j \in DOMAIN reload.updated : longer[j] = reload.updated[j]
            BY <2>2, Zenon
        <3>4. SUFFICES ASSUME NEW i \in DOMAIN longer, NEW j \in DOMAIN longer,
                             longer[i].spec.name = longer[j].spec.name
                      PROVE  i = j
            BY Zenon DEF Apart
        <3>5. CASE i \in DOMAIN reload.updated /\ j \in DOMAIN reload.updated
            BY <3>1, <3>3, <3>4, <3>5
        <3>6. CASE i \notin DOMAIN reload.updated /\ j \notin DOMAIN reload.updated
            BY <2>5, <3>6
        <3>7. CASE i \in DOMAIN reload.updated /\ j \notin DOMAIN reload.updated
            BY <2>4, <3>2, <3>4, <3>7
        <3>8. CASE i \notin DOMAIN reload.updated /\ j \in DOMAIN reload.updated
            BY <2>4, <3>2, <3>4, <3>8
        <3> QED
            BY <3>5, <3>6, <3>7, <3>8
    <2>7. Reloading'
        <3>1. DOMAIN reload' = {"at", "cfg", "conns", "next", "updated"}
              /\ reload'.at \in {"connections", "metrics"}
            BY <1>2, <2>1, Zenon
        <3>2. reload'.cfg \in Configs /\ reload'.next \in 1 .. Len(reload'.cfg.metrics) + 1
            BY <1>2, <1>4, <2>1, Zenon
        <3>3. reload'.updated = longer
            BY <2>1, <2>2, Zenon DEF extended
        <3>4. /\ reload'.updated \in Seq(Holders) /\ Apart(reload'.updated)
              /\ (\A j \in DOMAIN reload.updated : Done(reload.updated[j].spec.name))'
            BY <2>2, <2>3, <2>6, <3>3, Zenon
        <3> QED
            BY <3>1, <3>2, <3>4, Zenon DEF Reloading
    <2>8. healthy' = healthy
        BY <1>7, Zenon DEF Advance
    <2> QED
        BY <1>3, <2>7, <2>8, Zenon DEF Typing, MetricStep, Cycling
<1> QED
    BY <1>5, <1>6, <1>7, Zenon DEF MetricStep

-------------------------------------------------------------------------------
(* The steps at a metric, one by one. *)
LEMMA ExistingFacts ==
    ASSUME Typing, AtMetric, NEW i \in Existing
    PROVE  /\ i \in DOMAIN metrics
           /\ metrics \in Seq(Holders)
           /\ metrics[i] \in Holders
           /\ metrics[i].spec.name = Metric.name
           /\ metrics[i].gauge.name = Metric.name
           /\ metrics[i].gauge \in Gauges
           /\ Metric.name \in Steady => NamesGauge(Metric.name)
           /\ \A j \in DOMAIN metrics : metrics[j].spec.name = Metric.name => j = i
           /\ [metrics[i] EXCEPT !.spec = Metric] = Holder(Metric, metrics[i].gauge)
           /\ Holder(Metric, metrics[i].gauge) \in Holders
           /\ Holder(Metric, metrics[i].gauge).spec = Metric
           /\ Holder(Metric, metrics[i].gauge).gauge = metrics[i].gauge
PROOF
<1>1. i \in DOMAIN metrics /\ metrics[i].spec.name = Metric.name
    BY Zenon DEF Existing
<1>2. metrics \in Seq(Holders) /\ Apart(metrics)
    BY Zenon DEF Typing
<1>3. metrics[i] \in Holders
    BY <1>1, <1>2
<1>4. \A j \in DOMAIN metrics : metrics[j].spec.name = Metric.name => j = i
    BY <1>1, <1>2, Zenon DEF Apart
<1>5. Metric \in Specs
    BY AtMetricFacts
<1> QED
    BY <1>1, <1>2, <1>3, <1>4, <1>5, HolderFacts, HolderWithSpec

LEMMA OneHolderChanged ==
    ASSUME Typing, AtMetric, NEW i \in Existing, NEW h \in Holders, h.spec.name = Metric.name,
           metrics' = [metrics EXCEPT ![i] = h]
    PROVE  /\ metrics' \in Seq(Holders) /\ DOMAIN metrics' = DOMAIN metrics
           /\ metrics'[i] = h
           /\ \A j \in DOMAIN metrics :
                /\ metrics'[j].spec.name = metrics[j].spec.name
                /\ metrics[j].spec.name # Metric.name => metrics'[j] = metrics[j]
PROOF
<1>1. /\ i \in DOMAIN metrics /\ metrics \in Seq(Holders)
      /\ metrics[i].spec.name = Metric.name
    BY ExistingFacts
<1>2. /\ [metrics EXCEPT ![i] = h] \in Seq(Holders)
      /\ DOMAIN [metrics EXCEPT ![i] = h] = DOMAIN metrics
      /\ [metrics EXCEPT ![i] = h][i] = h
      /\ \A j \in DOMAIN metrics : j # i => [metrics EXCEPT ![i] = h][j] = metrics[j]
    BY <1>1, ChangedList, Zenon
<1>3. /\ metrics' \in Seq(Holders) /\ DOMAIN metrics' = DOMAIN metrics
      /\ metrics'[i] = h
      /\ \A j \in DOMAIN metrics : j # i => metrics'[j] = metrics[j]
    BY <1>2, Zenon
<1> QED
    BY <1>1, <1>3, Zenon

(* Collectors of the metric's name leave a registry, or one comes in. *)
LEMMA NameLeaves ==
    ASSUME NEW registry, NEW gone, NEW name, Unique(registry), \A d \in gone : d.name = name
    PROVE  /\ Unique(Unregistered(registry, gone))
           /\ Unregistered(registry, gone) \subseteq registry
           /\ \A c : c.name # name =>
                (c \in Unregistered(registry, gone) <=> c \in registry)
PROOF
<1>1. Unregistered(registry, gone) \in SUBSET registry
    BY UnregisteredFacts
<1> QED
    BY <1>1, UniqueLess, UnregisteredFacts

LEMMA NameComes ==
    ASSUME NEW registry, NEW gone, NEW name, NEW c \in gone, Unique(registry),
           \A d \in gone : d.name = name
    PROVE  /\ Unique(Unregistered(registry, gone) \cup {c})
           /\ \A d : d.name # name =>
                (d \in Unregistered(registry, gone) \cup {c} <=> d \in registry)
PROOF
<1>1. Unique(Unregistered(registry, gone))
    BY NameLeaves
<1>2. ~Has(Unregistered(registry, gone), c)
    BY UnregisteredFacts
<1>3. Unique(Unregistered(registry, gone) \cup {c})
    BY <1>1, <1>2, UniqueMore
<1> QED
    BY <1>3, NameLeaves

LEMMA DisableMetricStep == ASSUME Typing, DisableMetric PROVE MetricStep
PROOF
<1>1. AtMetric
    BY Zenon DEF DisableMetric
<1>2. PICK i \in Existing :
        /\ own' = Unregistered(own, {metrics[i].gauge})
        /\ exposed' = Unregistered(exposed, {metrics[i].gauge})
        /\ metrics' = [metrics EXCEPT ![i].spec = Metric]
    BY Zenon DEF DisableMetric
<1>3. metrics' = [metrics EXCEPT ![i] = Holder(Metric, metrics[i].gauge)]
    BY <1>1, <1>2, ExistingFacts
<1>4. /\ metrics' \in Seq(Holders) /\ DOMAIN metrics' = DOMAIN metrics
      /\ \A j \in DOMAIN metrics :
            /\ metrics'[j].spec.name = metrics[j].spec.name
            /\ metrics[j].spec.name # Metric.name => metrics'[j] = metrics[j]
    BY <1>1, <1>3, ExistingFacts, OneHolderChanged
<1>5. \A d \in {metrics[i].gauge} : d.name = Metric.name
    BY <1>1, ExistingFacts
<1>6. Unique(own) /\ Unique(exposed) /\ (\A c \in exposed : IsGauge(c)) /\ collected \subseteq exposed
      /\ DOMAIN helps \subseteq Names
    BY Zenon DEF Typing
<1>7. /\ Unique(own') /\ Unique(exposed') /\ exposed' \subseteq exposed
      /\ \A c : c.name # Metric.name =>
                (c \in own' <=> c \in own) /\ (c \in exposed' <=> c \in exposed)
    BY <1>2, <1>5, <1>6, NameLeaves
<1>8. collected' \subseteq exposed'
    BY DEF DisableMetric, Forget
<1>9. /\ Advance(<<>>) /\ cfg' = cfg /\ cycle' = cycle
      /\ clients' = clients /\ helps' = helps
    BY Zenon DEF DisableMetric, Advance
<1> QED
    BY <1>4, <1>6, <1>7, <1>8, <1>9, Zenon DEF MetricStep

LEMMA EnableRefusedStep == ASSUME Typing, EnableRefused PROVE AtMetric /\ MetricStep
BY Zenon DEF Typing, EnableRefused, Advance, registryVars, MetricStep

LEMMA SeenNames ==
    ASSUME NEW s \in Specs, DOMAIN helps \subseteq Names
    PROVE  DOMAIN Seen(s) \subseteq Names
BY SpecFacts DEF Seen

LEMMA EnableMetricStep == ASSUME Typing, EnableMetric PROVE MetricStep
PROOF
<1>1. AtMetric
    BY Zenon DEF EnableMetric
<1> DEFINE c == Collector(Metric)
           holder(i) == IF Metric.type = "gauge" THEN Holder(Metric, c) ELSE metrics[i]
<1>2. PICK i \in Existing :
        /\ own' = Unregistered(own, {c}) \cup {c}
        /\ helps' = Seen(Metric)
        /\ metrics' = [metrics EXCEPT ![i] = holder(i)]
        /\ \/ Fail /\ UNCHANGED exposed
           \/ /\ ~(Metric.type = "gauge" /\ Has(exposed, c))
              /\ exposed' = exposed \cup (IF Metric.type = "gauge" THEN {c} ELSE {})
              /\ Advance(<<holder(i)>>)
    BY Zenon DEF EnableMetric
<1>3. /\ c.name = Metric.name
      /\ Metric.type = "gauge" => c \in Gauges /\ IsGauge(c)
      /\ Metric \in Specs
    BY <1>1, AtMetricFacts, CollectorFacts
<1>4. holder(i) \in Holders /\ holder(i).spec.name = Metric.name
    <2>1. CASE Metric.type = "gauge"
        <3>1. Metric.name \in Steady => NamesGauge(Metric.name)
            BY <1>1, ExistingFacts
        <3>2. Holder(Metric, c) \in Holders /\ Holder(Metric, c).spec = Metric
            BY <1>3, <2>1, <3>1, HolderWith
        <3> QED
            BY <2>1, <3>2
    <2>2. CASE Metric.type # "gauge"
        BY <1>1, <2>2, ExistingFacts
    <2> QED
        BY <2>1, <2>2
<1> HIDE DEF c, holder
<1>5. /\ metrics' \in Seq(Holders) /\ DOMAIN metrics' = DOMAIN metrics
      /\ \A j \in DOMAIN metrics :
            /\ metrics'[j].spec.name = metrics[j].spec.name
            /\ metrics[j].spec.name # Metric.name => metrics'[j] = metrics[j]
    BY <1>1, <1>2, <1>4, OneHolderChanged
<1>6. Unique(own) /\ Unique(exposed) /\ (\A d \in exposed : IsGauge(d)) /\ collected \subseteq exposed
      /\ DOMAIN helps \subseteq Names
    BY Zenon DEF Typing
<1>7. Unique(own') /\ \A d : d.name # Metric.name => (d \in own' <=> d \in own)
    <2> DEFINE gone == {c}
    <2>1. own' = Unregistered(own, gone) \cup {c}
        BY <1>2, Zenon
    <2>2. c \in gone /\ \A d \in gone : d.name = Metric.name
        BY <1>3
    <2> HIDE DEF gone
    <2>3. Unique(Unregistered(own, gone) \cup {c})
        BY <1>6, <2>2, NameComes, Zenon
    <2>4. \A d : d.name # Metric.name => (d \in Unregistered(own, gone) \cup {c} <=> d \in own)
        <3>1. \A d : d.name # Metric.name => (d \in Unregistered(own, gone) <=> d \in own)
            <4>1. /\ Unregistered(own, gone) \subseteq own
                  /\ \A d \in own : (\A e \in gone : d.name # e.name) => d \in Unregistered(own, gone)
                BY UnregisteredFacts, Zenon
            <4> QED
                BY <2>2, <4>1
        <3> QED
            BY <1>3, <3>1
    <2> QED
        BY <2>1, <2>3, <2>4, Zenon
<1>8. /\ Unique(exposed') /\ (\A d \in exposed' : IsGauge(d)) /\ exposed \subseteq exposed'
      /\ \A d : d.name # Metric.name => (d \in exposed' <=> d \in exposed)
    <2>1. CASE exposed' = exposed
        BY <1>6, <2>1, Zenon
    <2>2. CASE exposed' = exposed \cup {c} /\ Metric.type = "gauge" /\ ~Has(exposed, c)
        <3>1. Unique(exposed \cup {c})
            BY <1>6, <2>2, UniqueMore
        <3> QED
            BY <1>3, <1>6, <2>2, <3>1
    <2> QED
        BY <1>2, <2>1, <2>2
<1>9. DOMAIN helps' \subseteq Names
    BY <1>2, <1>3, <1>6, SeenNames
<1>10. /\ Fail \/ \E h \in Holders : h.spec.name = Metric.name /\ Advance(<<h>>)
       /\ cfg' = cfg /\ cycle' = cycle
    BY <1>2, <1>4, Zenon DEF Fail, Advance
<1>11. clients' = clients /\ collected' = collected
    BY Zenon DEF EnableMetric
<1>12. collected' \subseteq exposed'
    BY <1>6, <1>8, <1>11
<1> QED
    BY <1>5, <1>7, <1>8, <1>9, <1>10, <1>11, <1>12, Zenon DEF MetricStep

LEMMA RecreateMetricStep == ASSUME Typing, RecreateMetric PROVE MetricStep
PROOF
<1>1. AtMetric
    BY Zenon DEF RecreateMetric
<1> DEFINE c == Collector(Metric)
           holder(i) == IF Metric.type = "gauge" THEN Holder(Metric, c) ELSE metrics[i]
<1>2. PICK i \in Existing :
        /\ own' = Unregistered(own, {metrics[i].gauge, c}) \cup {c}
        /\ exposed' = ExposedInstead(metrics[i].gauge, c)
        /\ helps' = Seen(Metric)
        /\ metrics' = [metrics EXCEPT ![i] = holder(i)]
        /\ Advance(<<holder(i)>>)
    BY Zenon DEF RecreateMetric
<1>3. /\ c.name = Metric.name
      /\ Metric.type = "gauge" => c \in Gauges /\ IsGauge(c)
      /\ Metric.type # "gauge" => ~IsGauge(c)
      /\ Metric \in Specs
    BY <1>1, AtMetricFacts, CollectorFacts
<1>4. holder(i) \in Holders /\ holder(i).spec.name = Metric.name
    <2>1. CASE Metric.type = "gauge"
        <3>1. Metric.name \in Steady => NamesGauge(Metric.name)
            BY <1>1, ExistingFacts
        <3>2. Holder(Metric, c) \in Holders /\ Holder(Metric, c).spec = Metric
            BY <1>3, <2>1, <3>1, HolderWith
        <3> QED
            BY <2>1, <3>2
    <2>2. CASE Metric.type # "gauge"
        BY <1>1, <2>2, ExistingFacts
    <2> QED
        BY <2>1, <2>2
<1> HIDE DEF c, holder
<1>5. /\ metrics' \in Seq(Holders) /\ DOMAIN metrics' = DOMAIN metrics
      /\ \A j \in DOMAIN metrics :
            /\ metrics'[j].spec.name = metrics[j].spec.name
            /\ metrics[j].spec.name # Metric.name => metrics'[j] = metrics[j]
    BY <1>1, <1>2, <1>4, OneHolderChanged
<1>6. Unique(own) /\ Unique(exposed) /\ (\A d \in exposed : IsGauge(d))
      /\ DOMAIN helps \subseteq Names
    BY Zenon DEF Typing
<1> DEFINE old == metrics[i].gauge
<1>7. old.name = Metric.name
    BY <1>1, ExistingFacts
<1> HIDE DEF old
<1>8. Unique(own') /\ \A d : d.name # Metric.name => (d \in own' <=> d \in own)
    <2> DEFINE gone == {old, c}
    <2>1. own' = Unregistered(own, gone) \cup {c}
        BY <1>2, Zenon DEF old
    <2>2. c \in gone /\ \A d \in gone : d.name = Metric.name
        BY <1>3, <1>7
    <2> HIDE DEF gone
    <2>3. Unique(Unregistered(own, gone) \cup {c})
        BY <1>6, <2>2, NameComes, Zenon
    <2>4. \A d : d.name # Metric.name => (d \in Unregistered(own, gone) \cup {c} <=> d \in own)
        <3>1. \A d : d.name # Metric.name => (d \in Unregistered(own, gone) <=> d \in own)
            <4>1. /\ Unregistered(own, gone) \subseteq own
                  /\ \A d \in own : (\A e \in gone : d.name # e.name) => d \in Unregistered(own, gone)
                BY UnregisteredFacts, Zenon
            <4> QED
                BY <2>2, <4>1
        <3> QED
            BY <1>3, <3>1
    <2> QED
        BY <2>1, <2>3, <2>4, Zenon
<1>9. /\ Unique(exposed') /\ (\A d \in exposed' : IsGauge(d))
      /\ \A d : d.name # Metric.name => (d \in exposed' <=> d \in exposed)
    <2> DEFINE rest == Unregistered(exposed, {old})
    <2>1. /\ exposed' = IF ~IsGauge(c) THEN rest ELSE Unregistered(rest, {c}) \cup {c}
        BY <1>2, Zenon DEF ExposedInstead, old
    <2>2. /\ Unique(rest) /\ rest \subseteq exposed
          /\ \A d : d.name # Metric.name => (d \in rest <=> d \in exposed)
        BY <1>6, <1>7, NameLeaves
    <2> HIDE DEF rest
    <2>3. /\ Unique(Unregistered(rest, {c}) \cup {c})
          /\ \A d : d.name # Metric.name => (d \in Unregistered(rest, {c}) \cup {c} <=> d \in rest)
        BY <1>3, <2>2, NameComes
    <2>4. \A d \in Unregistered(rest, {c}) : IsGauge(d)
        BY <1>6, <2>2, UnregisteredFacts
    <2> QED
        BY <1>6, <2>1, <2>2, <2>3, <2>4
<1>10. DOMAIN helps' \subseteq Names
    BY <1>2, <1>3, <1>6, SeenNames
<1>11. /\ \E h \in Holders : h.spec.name = Metric.name /\ Advance(<<h>>)
       /\ cfg' = cfg /\ cycle' = cycle
    BY <1>2, <1>4, Zenon DEF Advance
<1>12. clients' = clients /\ collected' \subseteq exposed'
    BY DEF RecreateMetric, Forget
<1> QED
    BY <1>5, <1>8, <1>9, <1>10, <1>11, <1>12, Zenon DEF MetricStep

LEMMA RecreateFailsStep == ASSUME Typing, RecreateFails PROVE AtMetric /\ MetricStep
PROOF
<1>1. AtMetric
    BY Zenon DEF RecreateFails
<1>2. PICK i \in Existing :
        /\ own' = Unregistered(own, {metrics[i].gauge})
        /\ exposed' = Unregistered(exposed, {metrics[i].gauge})
    BY Zenon DEF RecreateFails
<1>3. \A d \in {metrics[i].gauge} : d.name = Metric.name
    BY <1>1, ExistingFacts
<1>4. Unique(own) /\ Unique(exposed) /\ (\A c \in exposed : IsGauge(c)) /\ metrics \in Seq(Holders)
      /\ DOMAIN helps \subseteq Names
    BY Zenon DEF Typing
<1>5. /\ Unique(own') /\ Unique(exposed') /\ exposed' \subseteq exposed
      /\ \A c : c.name # Metric.name =>
                (c \in own' <=> c \in own) /\ (c \in exposed' <=> c \in exposed)
    BY <1>2, <1>3, <1>4, NameLeaves
<1>6. collected' \subseteq exposed'
    BY DEF RecreateFails, Forget
<1>7. /\ Fail /\ cfg' = cfg /\ cycle' = cycle
      /\ metrics' = metrics /\ clients' = clients /\ helps' = helps
    BY Zenon DEF RecreateFails, Fail
<1> QED
    BY <1>1, <1>4, <1>5, <1>6, <1>7, Zenon DEF MetricStep

LEMMA KeepMetricStep == ASSUME Typing, KeepMetric PROVE MetricStep
PROOF
<1>1. AtMetric
    BY Zenon DEF KeepMetric
<1>2. PICK i \in Existing :
        /\ metrics' = [metrics EXCEPT ![i].spec = Metric]
        /\ Advance(<<Holder(Metric, metrics[i].gauge)>>)
    BY Zenon DEF KeepMetric
<1>3. metrics' = [metrics EXCEPT ![i] = Holder(Metric, metrics[i].gauge)]
    BY <1>1, <1>2, ExistingFacts
<1>4. /\ metrics' \in Seq(Holders) /\ DOMAIN metrics' = DOMAIN metrics
      /\ \A j \in DOMAIN metrics :
            /\ metrics'[j].spec.name = metrics[j].spec.name
            /\ metrics[j].spec.name # Metric.name => metrics'[j] = metrics[j]
    BY <1>1, <1>3, ExistingFacts, OneHolderChanged
<1>5. \E h \in Holders : h.spec.name = Metric.name /\ Advance(<<h>>)
    BY <1>1, <1>2, ExistingFacts, Zenon
<1>6. own' = own /\ exposed' = exposed /\ helps' = helps /\ clients' = clients /\ collected' = collected
    BY Zenon DEF KeepMetric, registryVars
<1>7. cfg' = cfg /\ cycle' = cycle
    BY <1>2, Zenon DEF Advance
<1> QED
    BY <1>4, <1>5, <1>6, <1>7, Zenon DEF MetricStep, Typing

LEMMA AddMetricStep == ASSUME Typing, AddMetric PROVE MetricStep
PROOF
<1>1. AtMetric
    BY Zenon DEF AddMetric
<1>2. /\ metrics' = metrics /\ clients' = clients /\ collected' = collected
      /\ metrics \in Seq(Holders)
    BY Zenon DEF AddMetric, Typing
<1>3. Unique(own) /\ Unique(exposed) /\ (\A d \in exposed : IsGauge(d)) /\ collected \subseteq exposed
      /\ DOMAIN helps \subseteq Names
    BY Zenon DEF Typing
<1>4. CASE ~Metric.enabled
    BY <1>2, <1>3, <1>4, Zenon DEF AddMetric, registryVars, MetricStep, Advance
<1> DEFINE c == Collector(Metric)
<1>5. CASE Metric.enabled
    <2>1. /\ ~Has(own, c)
          /\ own' = own \cup {c}
          /\ helps' = Seen(Metric)
          /\ \/ Metric.type # "gauge" /\ Advance(<<>>) /\ exposed' = exposed
             \/ Fail /\ exposed' = exposed
             \/ /\ Metric.type = "gauge" /\ ~Has(exposed, c)
                /\ exposed' = exposed \cup {c} /\ Advance(<<Holder(Metric, c)>>)
        BY <1>5, Zenon DEF AddMetric
    <2>2. /\ c.name = Metric.name
          /\ Metric.type = "gauge" => c \in Gauges /\ IsGauge(c)
          /\ Metric \in Specs
        BY <1>1, AtMetricFacts, CollectorFacts
    <2>3. Metric.type = "gauge" =>
            Holder(Metric, c) \in Holders /\ Holder(Metric, c).spec = Metric
        BY <2>2, SteadyType, HolderWith
    <2> HIDE DEF c
    <2>4. Unique(own') /\ \A d : d.name # Metric.name => (d \in own' <=> d \in own)
        <3>1. Unique(own \cup {c})
            BY <1>3, <2>1, UniqueMore
        <3> QED
            BY <2>1, <2>2, <3>1
    <2>5. /\ Unique(exposed') /\ (\A d \in exposed' : IsGauge(d)) /\ exposed \subseteq exposed'
          /\ \A d : d.name # Metric.name => (d \in exposed' <=> d \in exposed)
        <3>1. CASE exposed' = exposed
            BY <1>3, <3>1, Zenon
        <3>2. CASE exposed' = exposed \cup {c} /\ Metric.type = "gauge" /\ ~Has(exposed, c)
            <4>1. Unique(exposed \cup {c})
                BY <1>3, <3>2, UniqueMore
            <4> QED
                BY <1>3, <2>2, <3>2, <4>1
        <3> QED
            BY <2>1, <3>1, <3>2
    <2>6. DOMAIN helps' \subseteq Names
        BY <1>3, <2>1, <2>2, SeenNames
    <2>7. /\ \/ Fail
             \/ Advance(<<>>)
             \/ \E h \in Holders : h.spec.name = Metric.name /\ Advance(<<h>>)
          /\ cfg' = cfg /\ cycle' = cycle
        BY <2>1, <2>3, Zenon DEF Fail, Advance
    <2>8. collected' \subseteq exposed'
        BY <1>2, <1>3, <2>5
    <2> QED
        BY <1>2, <2>4, <2>5, <2>6, <2>7, <2>8, Zenon DEF MetricStep
<1> QED
    BY <1>4, <1>5

LEMMA AddFailsStep == ASSUME Typing, AddFails PROVE AtMetric /\ MetricStep
BY Zenon DEF Typing, AddFails, Fail, registryVars, MetricStep

-------------------------------------------------------------------------------
(* The metrics of the first configuration. *)
Enabled == { s \in ToSet(cfg.metrics) : s.enabled }
First(s) == Labelled(s, IF s.type = "gauge" THEN 1 ELSE NoTwin)
GaugeNumbers == { i \in DOMAIN cfg.metrics : Wanted(cfg.metrics[i]) }

LEMMA FirstFacts ==
    ASSUME NEW s \in Specs
    PROVE  /\ First(s).name = s.name /\ First(s).labels = s.labels
           /\ IsGauge(First(s)) <=> s.type = "gauge"
           /\ s.type = "gauge" => First(s) \in Gauges
PROOF
<1>1. s.name \in Names /\ s.labels \in { t.labels : t \in Specs }
    BY SpecFacts
<1>2. 1 \in 1 .. MaxTwins
    BY ReloadAssumption
<1>3. CASE s.type = "gauge"
    <2>1. First(s) = [name |-> s.name, labels |-> s.labels, twin |-> 1]
        BY <1>3, Zenon DEF First, Labelled
    <2> QED
        BY <1>1, <1>2, <1>3, <2>1 DEF IsGauge, NoTwin, Gauges
<1>4. CASE s.type # "gauge"
    <2>1. First(s) = [name |-> s.name, labels |-> s.labels, twin |-> NoTwin]
        BY <1>4, Zenon DEF First, Labelled
    <2> QED
        BY <1>4, <2>1 DEF IsGauge
<1> QED
    BY <1>3, <1>4

(* Which holders there are at first, in whatever order. *)
LEMMA InitFacts ==
    ASSUME Init
    PROVE  /\ cfg \in Configs
           /\ metrics \in Seq(Holders)
           /\ Apart(metrics)
           /\ \A i \in DOMAIN metrics : \E k \in GaugeNumbers :
                metrics[i] = Holder(cfg.metrics[k], First(cfg.metrics[k]))
           /\ \A k \in GaugeNumbers : \E i \in DOMAIN metrics :
                metrics[i] = Holder(cfg.metrics[k], First(cfg.metrics[k]))
           /\ own = { First(s) : s \in Enabled }
           /\ exposed = { First(s) : s \in { s \in Enabled : Wanted(s) } }
           /\ helps = [name \in { s.name : s \in Enabled } |->
                          (CHOOSE s \in Enabled : s.name = name).help]
           /\ \E up \in SUBSET Needed(cfg) : clients = [conn \in up |-> cfg.servers[conn]]
           /\ collected = {} /\ reload = NoReload /\ cycle = NoCycle /\ healthy = TRUE
PROOF
<1>1. /\ cfg \in Configs
      /\ \E at \in Ordered(GaugeNumbers) :
            metrics = [i \in 1 .. Cardinality(GaugeNumbers) |->
                         Holder(cfg.metrics[at[i]], First(cfg.metrics[at[i]]))]
      /\ own = { First(s) : s \in Enabled }
      /\ exposed = { First(s) : s \in { s \in Enabled : Wanted(s) } }
      /\ helps = [name \in { s.name : s \in Enabled } |->
                    (CHOOSE s \in Enabled : s.name = name).help]
    BY Zenon DEF Init, Enabled, First, GaugeNumbers
<1>2. /\ \E up \in SUBSET Needed(cfg) : clients = [conn \in up |-> cfg.servers[conn]]
      /\ collected = {} /\ reload = NoReload /\ cycle = NoCycle /\ healthy = TRUE
    BY Zenon DEF Init
<1>3. PICK at \in Ordered(GaugeNumbers) :
        metrics = [i \in 1 .. Cardinality(GaugeNumbers) |->
                     Holder(cfg.metrics[at[i]], First(cfg.metrics[at[i]]))]
    BY <1>1
<1>4. /\ cfg.metrics \in Seq(Specs) /\ DOMAIN cfg.metrics = 1 .. Len(cfg.metrics)
      /\ Len(cfg.metrics) \in Nat
      /\ \A i, j \in DOMAIN cfg.metrics : cfg.metrics[i].name = cfg.metrics[j].name => i = j
      /\ \A i \in DOMAIN cfg.metrics : cfg.metrics[i] \in Specs
    BY <1>1, ConfigFacts
<1> DEFINE n == Cardinality(GaugeNumbers)
<1>5. n \in Nat
    <2>1. GaugeNumbers \in SUBSET (1 .. Len(cfg.metrics))
        BY <1>4, Zenon DEF GaugeNumbers
    <2>2. IsFiniteSet(1 .. Len(cfg.metrics))
        BY <1>4, FS_Interval
    <2> QED
        BY <2>1, <2>2, FS_Subset, FS_CardinalityType
<1>6. /\ at \in [1 .. n -> GaugeNumbers]
      /\ \A k \in GaugeNumbers : \E i \in 1 .. n : at[i] = k
      /\ \A i, j \in 1 .. n : i < j => at[i] < at[j]
    BY Zenon DEF Ordered, Surjection
<1> HIDE DEF n
<1>7. \A k \in GaugeNumbers :
        /\ k \in DOMAIN cfg.metrics /\ Wanted(cfg.metrics[k])
        /\ cfg.metrics[k] \in Specs /\ cfg.metrics[k].type = "gauge"
    BY <1>4, Zenon DEF GaugeNumbers, Wanted
<1>8. \A k \in GaugeNumbers :
        /\ Holder(cfg.metrics[k], First(cfg.metrics[k])) \in Holders
        /\ Holder(cfg.metrics[k], First(cfg.metrics[k])).spec = cfg.metrics[k]
    <2> TAKE k \in GaugeNumbers
    <2> DEFINE s == cfg.metrics[k]
    <2>1. s \in Specs /\ s.type = "gauge"
        BY <1>7
    <2> HIDE DEF s
    <2>2. First(s) \in Gauges /\ First(s).name = s.name
        BY <2>1, FirstFacts
    <2>3. s.name \in Steady => NamesGauge(s.name)
        BY <2>1, SteadyType
    <2>4. Holder(s, First(s)) \in Holders /\ Holder(s, First(s)).spec = s
        BY <2>1, <2>2, <2>3, HolderWith
    <2> QED
        BY <2>4, Zenon DEF s
<1>9. DOMAIN metrics = 1 .. n /\ \A i \in 1 .. n :
        metrics[i] = Holder(cfg.metrics[at[i]], First(cfg.metrics[at[i]]))
    BY <1>3, Zenon DEF n
<1>10. \A i \in 1 .. n : at[i] \in GaugeNumbers
    BY <1>6, Zenon
<1>11. metrics \in Seq(Holders)
    <2>1. \A i \in 1 .. n : Holder(cfg.metrics[at[i]], First(cfg.metrics[at[i]])) \in Holders
        BY <1>8, <1>10, Zenon
    <2>2. [i \in 1 .. n |-> Holder(cfg.metrics[at[i]], First(cfg.metrics[at[i]]))] \in Seq(Holders)
        BY <1>5, <2>1, IsASeq
    <2> QED
        BY <1>3, <2>2, Zenon DEF n
<1>12. Apart(metrics)
    <2> SUFFICES ASSUME NEW i \in 1 .. n, NEW j \in 1 .. n,
                        metrics[i].spec.name = metrics[j].spec.name
                 PROVE  i = j
        BY <1>9, Zenon DEF Apart
    <2>1. at[i] \in GaugeNumbers /\ at[j] \in GaugeNumbers
        BY <1>10
    <2>2. metrics[i].spec = cfg.metrics[at[i]] /\ metrics[j].spec = cfg.metrics[at[j]]
        BY <1>8, <1>9, <2>1, Zenon
    <2>3. at[i] = at[j]
        BY <1>4, <1>7, <2>1, <2>2, Zenon
    <2>4. at[i] \in Nat
        BY <1>4, <1>7, <2>1
    <2>5. ~(i < j) /\ ~(j < i)
        BY <1>6, <2>3, <2>4
    <2> QED
        BY <1>5, <2>5
<1>13. \A i \in DOMAIN metrics : \E k \in GaugeNumbers :
            metrics[i] = Holder(cfg.metrics[k], First(cfg.metrics[k]))
    BY <1>9, <1>10, Zenon
<1>14. \A k \in GaugeNumbers : \E i \in DOMAIN metrics :
            metrics[i] = Holder(cfg.metrics[k], First(cfg.metrics[k]))
    BY <1>6, <1>9, Zenon DEF n
<1> QED
    BY <1>1, <1>2, <1>11, <1>12, <1>13, <1>14, Zenon

(* One metric of a configuration for each name. *)
LEMMA OneSpecPerName ==
    ASSUME NEW c \in Configs, NEW s \in ToSet(c.metrics), NEW t \in ToSet(c.metrics),
           s.name = t.name
    PROVE  s = t /\ s \in Specs
PROOF
<1>1. PICK i \in DOMAIN c.metrics : s = c.metrics[i]
    BY Zenon DEF ToSet
<1>2. PICK j \in DOMAIN c.metrics : t = c.metrics[j]
    BY Zenon DEF ToSet
<1> QED
    BY <1>1, <1>2, ConfigFacts, Zenon

LEMMA InitType == Init => Typing
PROOF
<1> SUFFICES ASSUME Init PROVE Typing
    OBVIOUS
<1>1. /\ cfg \in Configs /\ metrics \in Seq(Holders) /\ Apart(metrics)
      /\ own = { First(s) : s \in Enabled }
      /\ exposed = { First(s) : s \in { s \in Enabled : Wanted(s) } }
      /\ helps = [name \in { s.name : s \in Enabled } |->
                    (CHOOSE s \in Enabled : s.name = name).help]
      /\ collected = {} /\ reload = NoReload /\ cycle = NoCycle /\ healthy = TRUE
    BY InitFacts, Zenon
<1>2. \A s \in Enabled : s \in ToSet(cfg.metrics) /\ s \in Specs
    BY <1>1, Zenon DEF Enabled, Specs
<1>3. \A c, d \in own : Same(c, d) => c = d
    <2> SUFFICES ASSUME NEW c \in own, NEW d \in own, Same(c, d) PROVE c = d
        OBVIOUS
    <2>1. PICK s \in Enabled : c = First(s)
        BY <1>1, Zenon
    <2>2. PICK t \in Enabled : d = First(t)
        BY <1>1, Zenon
    <2>3. s.name = t.name
        BY <1>2, <2>1, <2>2, FirstFacts DEF Same
    <2> QED
        BY <1>1, <1>2, <2>1, <2>2, <2>3, OneSpecPerName, Zenon
<1>4. exposed \in SUBSET own /\ \A c \in exposed : IsGauge(c)
    <2> SUFFICES ASSUME NEW c \in exposed PROVE c \in own /\ IsGauge(c)
        BY Zenon
    <2>1. PICK s \in Enabled : Wanted(s) /\ c = First(s)
        BY <1>1, Zenon
    <2> QED
        BY <1>1, <1>2, <2>1, FirstFacts, Zenon DEF Wanted
<1>5. Unique(own) /\ Unique(exposed)
    BY <1>3, <1>4, UniqueLess, Zenon DEF Unique
<1>6. DOMAIN helps \subseteq Names
    <2>1. DOMAIN helps = { s.name : s \in Enabled }
        BY <1>1, Zenon
    <2> QED
        BY <1>2, <2>1, SpecFacts, Zenon
<1>7. DOMAIN clients \subseteq Connections
    <2>1. PICK up \in SUBSET Needed(cfg) : clients = [conn \in up |-> cfg.servers[conn]]
        BY InitFacts, Zenon
    <2>2. \A i \in DOMAIN cfg.metrics : cfg.metrics[i].conn \in DOMAIN cfg.servers
        BY <1>1, ConfigFacts
    <2>3. Needed(cfg) \subseteq Connections
        BY <1>1, <2>2, Zenon DEF Needed, Connections
    <2>4. DOMAIN clients = up
        BY <2>1, Zenon
    <2> QED
        BY <2>3, <2>4, Zenon
<1> QED
    BY <1>1, <1>4, <1>5, <1>6, <1>7, Zenon DEF Typing

-------------------------------------------------------------------------------
(* The other steps. *)
LEMMA NeededFacts ==
    ASSUME NEW c \in Configs
    PROVE  /\ Needed(c) \subseteq DOMAIN c.servers
           /\ Needed(c) \subseteq Connections
           /\ Needed(c) # {}
PROOF
<1>1. \A i \in DOMAIN c.metrics : c.metrics[i].conn \in DOMAIN c.servers
    BY ConfigFacts
<1>2. 1 \in DOMAIN c.metrics
    BY ConfigFacts
<1> QED
    BY <1>1, <1>2, Zenon DEF Needed, Connections

LEMMA BeginReloadFacts ==
    ASSUME Typing, NEW new \in Configs, BeginReload(new)
    PROVE  /\ reload = NoReload
           /\ reload' = [at |-> "connections", cfg |-> new, conns |-> Needed(new),
                         next |-> 1, updated |-> <<>>]
           /\ reload' # NoReload
           /\ reload'.at = "connections" /\ reload'.cfg = new /\ reload'.conns = Needed(new)
           /\ reload'.next = 1 /\ reload'.updated = <<>>
           /\ clients' = NeededClients(new)
           /\ cfg' = cfg /\ metrics' = metrics /\ helps' = helps /\ cycle' = cycle
           /\ healthy' = healthy
           /\ collected' \subseteq exposed'
PROOF
<1>1. reload' = [at |-> "connections", cfg |-> new, conns |-> Needed(new),
                 next |-> 1, updated |-> <<>>]
    BY Zenon DEF BeginReload
<1>2. /\ reload'.at = "connections" /\ reload'.cfg = new /\ reload'.conns = Needed(new)
      /\ reload'.next = 1 /\ reload'.updated = <<>>
    BY <1>1
<1>3. reload' # NoReload
    BY <1>2 DEF NoReload
<1>4. collected' \subseteq exposed'
    BY DEF BeginReload, Forget
<1> QED
    BY <1>1, <1>2, <1>3, <1>4, Zenon DEF BeginReload

(* The holders of the metrics that the new configuration does not have. *)
Gone(new) ==
    { metrics[i].gauge : i \in
        { j \in DOMAIN metrics : metrics[j].spec.name \notin NamesOf(new) } }

LEMMA BeginReloadType ==
    ASSUME Typing, NEW new \in Configs, BeginReload(new)
    PROVE  Typing'
PROOF
<1>1. /\ own' = Unregistered(own, Gone(new))
      /\ exposed' = Unregistered(exposed, Gone(new))
    BY Zenon DEF BeginReload, Gone
<1>2. Unique(own) /\ Unique(exposed) /\ (\A c \in exposed : IsGauge(c))
      /\ DOMAIN clients \subseteq Connections
    BY Zenon DEF Typing
<1>3. own' \in SUBSET own /\ exposed' \in SUBSET exposed
    BY <1>1, UnregisteredFacts
<1>4. Unique(own') /\ Unique(exposed')
    BY <1>2, <1>3, UniqueLess, Zenon
<1>5. \A c \in exposed' : IsGauge(c)
    BY <1>2, <1>3
<1>6. DOMAIN clients' \subseteq Connections
    BY <1>2, BeginReloadFacts DEF NeededClients
<1>7. Reloading'
    <2>1. /\ DOMAIN reload' = {"at", "cfg", "conns", "next", "updated"}
          /\ reload'.at = "connections" /\ reload'.cfg = new
          /\ reload'.next = 1 /\ reload'.updated = <<>>
        BY BeginReloadFacts
    <2>2. 1 \in 1 .. Len(new.metrics) + 1
        BY ConfigFacts
    <2>3. <<>> \in Seq(Holders) /\ DOMAIN <<>> = {}
        OBVIOUS
    <2>4. DOMAIN reload'.updated = {}
        BY <2>1, <2>3
    <2>5. Apart(reload.updated)' /\ (\A j \in DOMAIN reload.updated : Done(reload.updated[j].spec.name))'
        BY <2>4, Zenon DEF Apart
    <2>6. reload'.updated \in Seq(Holders)
        BY <2>1, <2>3
    <2> QED
        BY <2>1, <2>2, <2>5, <2>6, Zenon DEF Reloading
<1> QED
    BY <1>4, <1>5, <1>6, <1>7, BeginReloadFacts, Zenon DEF Typing, Cycling

LEMMA ReloadingAt ==
    ASSUME Typing, reload.at \in {"connections", "metrics"}
    PROVE  Reloading /\ reload # NoReload
BY DEF Typing, NoReload

LEMMA ConnectFacts ==
    ASSUME Typing, NEW conn \in Connections, Connect(conn)
    PROVE  /\ Reloading /\ reload # NoReload /\ reload.at = "connections"
           /\ conn \in reload.conns
           /\ reload' # NoReload /\ DOMAIN reload' = DOMAIN reload
           /\ reload'.at \in {"connections", "metrics"}
           /\ reload'.at = "metrics" => reload'.conns = {}
           /\ reload'.conns = reload.conns \ {conn}
           /\ reload'.cfg = reload.cfg /\ reload'.next = reload.next
           /\ reload'.updated = reload.updated
           /\ DOMAIN clients' = DOMAIN clients \cup {conn}
           /\ clients'[conn] = IF Keeps(conn) THEN clients[conn] ELSE reload.cfg.servers[conn]
           /\ \A c \in DOMAIN clients : c # conn => clients'[c] = clients[c]
           /\ cfg' = cfg /\ metrics' = metrics /\ own' = own /\ exposed' = exposed
           /\ helps' = helps /\ collected' = collected /\ cycle' = cycle /\ healthy' = healthy
PROOF
<1>1. reload.at = "connections" /\ conn \in reload.conns
    BY Zenon DEF Connect, IsNext
<1>2. Reloading /\ reload # NoReload
    BY <1>1, ReloadingAt
<1>3. DOMAIN reload = {"at", "cfg", "conns", "next", "updated"}
    BY <1>2, Zenon DEF Reloading
<1>4. reload' = [reload EXCEPT !.conns = @ \ {conn},
                               !.at = IF reload.conns = {conn} THEN "metrics" ELSE @]
    BY Zenon DEF Connect
<1>5. /\ DOMAIN reload' = DOMAIN reload
      /\ reload'.conns = reload.conns \ {conn}
      /\ reload'.at = IF reload.conns = {conn} THEN "metrics" ELSE reload.at
      /\ reload'.cfg = reload.cfg /\ reload'.next = reload.next
      /\ reload'.updated = reload.updated
    BY <1>3, <1>4
<1>6. /\ reload'.at \in {"connections", "metrics"}
      /\ reload'.at = "metrics" => reload'.conns = {}
    BY <1>1, <1>5
<1>7. reload' # NoReload
    BY <1>6 DEF NoReload
<1>8. clients' = [c \in DOMAIN clients \cup {conn} |->
                    IF c = conn /\ ~Keeps(conn) THEN reload.cfg.servers[conn]
                    ELSE clients[c]]
    BY Zenon DEF Connect
<1>9. /\ DOMAIN clients' = DOMAIN clients \cup {conn}
      /\ clients'[conn] = IF Keeps(conn) THEN clients[conn] ELSE reload.cfg.servers[conn]
      /\ \A c \in DOMAIN clients : c # conn => clients'[c] = clients[c]
    BY <1>8
<1>10. /\ cfg' = cfg /\ metrics' = metrics /\ own' = own /\ exposed' = exposed
       /\ helps' = helps /\ collected' = collected /\ cycle' = cycle /\ healthy' = healthy
    BY Zenon DEF Connect, registryVars
<1> QED
    BY <1>1, <1>2, <1>5, <1>6, <1>7, <1>9, <1>10

LEMMA ConnectType ==
    ASSUME Typing, NEW conn \in Connections, Connect(conn)
    PROVE  Typing'
PROOF
<1>1. DOMAIN clients' \subseteq Connections
    BY ConnectFacts DEF Typing
<1>2. \A name : Done(name)' <=> Done(name)
    BY ConnectFacts DEF Done
<1>3. Reloading'
    <2>1. /\ Reloading /\ DOMAIN reload' = DOMAIN reload
          /\ reload'.at \in {"connections", "metrics"}
          /\ reload'.cfg = reload.cfg /\ reload'.next = reload.next
          /\ reload'.updated = reload.updated
        BY ConnectFacts
    <2>2. Apart(reload.updated)'
        BY <2>1, Zenon DEF Reloading, Apart
    <2>3. (\A j \in DOMAIN reload.updated : Done(reload.updated[j].spec.name))'
        BY <1>2, <2>1, Zenon DEF Reloading
    <2> QED
        BY <2>1, <2>2, <2>3, Zenon DEF Reloading
<1> QED
    BY <1>1, <1>3, ConnectFacts, Zenon DEF Typing, Cycling

LEMMA ConnectFailsFacts ==
    ASSUME Typing, NEW conn \in Connections, ConnectFails(conn)
    PROVE  /\ reload' = NoReload /\ healthy' = FALSE
           /\ cfg' = cfg /\ metrics' = metrics /\ own' = own /\ exposed' = exposed
           /\ helps' = helps /\ collected' = collected /\ cycle' = cycle
           /\ clients' = [c \in DOMAIN clients \ {conn} |-> clients[c]]
BY Zenon DEF ConnectFails, Fail, registryVars

LEMMA ConnectFailsType ==
    ASSUME Typing, NEW conn \in Connections, ConnectFails(conn)
    PROVE  Typing'
PROOF
<1>1. DOMAIN clients' \subseteq Connections
    BY ConnectFailsFacts DEF Typing
<1> QED
    BY <1>1, ConnectFailsFacts, Zenon DEF Typing, Cycling

LEMMA PublishFacts ==
    ASSUME Typing, Publish
    PROVE  /\ Reloading /\ reload # NoReload /\ reload.at = "metrics"
           /\ \A k \in DOMAIN reload.cfg.metrics : k < reload.next
           /\ metrics' = reload.updated /\ cfg' = reload.cfg /\ reload' = NoReload
           /\ clients' = clients /\ own' = own /\ exposed' = exposed
           /\ helps' = helps /\ collected' = collected /\ healthy' = healthy
PROOF
<1>1. /\ reload.at = "metrics" /\ (reload.next > Len(reload.cfg.metrics))
      /\ metrics' = reload.updated /\ cfg' = reload.cfg /\ reload' = NoReload
      /\ clients' = clients /\ own' = own /\ exposed' = exposed
      /\ helps' = helps /\ collected' = collected /\ healthy' = healthy
    BY Zenon DEF Publish, registryVars
<1>2. Reloading /\ reload # NoReload
    BY <1>1, ReloadingAt
<1>3. \A k \in DOMAIN reload.cfg.metrics : k < reload.next
    <2>1. reload.cfg \in Configs /\ reload.next \in 1 .. Len(reload.cfg.metrics) + 1
        BY <1>2, Zenon DEF Reloading
    <2> QED
        BY <1>1, <2>1, ConfigFacts
<1> QED
    BY <1>1, <1>2, <1>3

LEMMA PublishType == ASSUME Typing, Publish PROVE Typing'
PROOF
<1>1. (cycle' = NoCycle) \/ Cycling'
    <2>1. cycle' = IF cycle # NoCycle /\ cycle.current
                   THEN [cycle EXCEPT !.list = SubSeq(metrics, cycle.next, Len(metrics)),
                                      !.next = 1, !.current = FALSE]
                   ELSE cycle
        BY Zenon DEF Publish
    <2>2. CASE cycle' = cycle
        BY <2>2, Zenon DEF Typing, Cycling
    <2>3. CASE cycle # NoCycle /\ cycle' # cycle
        <3>1. DOMAIN cycle = {"at", "next", "current", "list", "gauge"} /\ cycle.at \in {"next", "querying", "storing"}
            BY <2>3, Zenon DEF Typing, Cycling
        <3>2. DOMAIN cycle' = DOMAIN cycle /\ cycle'.at = cycle.at
            BY <2>1, <2>3, <3>1
        <3> QED
            BY <3>1, <3>2, Zenon DEF Cycling
    <2> QED
        BY <2>1, <2>2, <2>3
<1> QED
    BY <1>1, PublishFacts, Zenon DEF Typing, Reloading

(* The cycles touch nothing but collected. *)
LEMMA CycleFacts ==
    ASSUME Typing, Cycle
    PROVE  /\ cfg' = cfg /\ metrics' = metrics /\ clients' = clients
           /\ own' = own /\ exposed' = exposed /\ helps' = helps
           /\ reload' = reload /\ healthy' = healthy
           /\ collected' \subseteq exposed'
           /\ (cycle' = NoCycle) \/ Cycling'
PROOF
<1>1. /\ cfg' = cfg /\ metrics' = metrics /\ clients' = clients
      /\ own' = own /\ exposed' = exposed /\ helps' = helps
      /\ reload' = reload /\ healthy' = healthy
    BY Zenon DEF Cycle, BeginCycle, Query, Answer, StoreValue, EndCycle, registryVars
<1>2. collected \subseteq exposed
    BY Zenon DEF Typing
<1>3. collected' \subseteq exposed'
    BY <1>1, <1>2 DEF Cycle, BeginCycle, Query, Answer, StoreValue, EndCycle, CollectedAfter
<1>4. (cycle' = NoCycle) \/ Cycling'
    <2>1. CASE BeginCycle
        <3>1. cycle' = [at |-> "next", next |-> 1, current |-> TRUE, list |-> <<>>,
                        gauge |-> NoCollector]
            BY <2>1, Zenon DEF BeginCycle
        <3>2. DOMAIN cycle' = {"at", "next", "current", "list", "gauge"} /\ cycle'.at = "next"
            BY <3>1
        <3> QED
            BY <3>2 DEF Cycling
    <2>2. CASE EndCycle
        BY <2>2, Zenon DEF EndCycle
    <2>3. CASE cycle.at \in {"next", "querying", "storing"} /\ ~EndCycle
        <3>1. DOMAIN cycle = {"at", "next", "current", "list", "gauge"}
            BY <2>3 DEF Typing, Cycling, NoCycle
        <3>2. CASE Query
            <4>1. \E gauge, next, list : \E at \in {"next", "querying"} :
                    cycle' = [cycle EXCEPT !.at = at, !.gauge = gauge, !.next = next, !.list = list]
                BY <3>2 DEF Query
            <4>2. DOMAIN cycle' = DOMAIN cycle /\ cycle'.at \in {"next", "querying"}
                BY <3>1, <4>1
            <4> QED
                BY <3>1, <4>2 DEF Cycling
        <3>3. ASSUME NEW failed \in BOOLEAN, Answer(failed) PROVE Cycling'
            <4>1. cycle' = [cycle EXCEPT !.at = IF failed THEN "next" ELSE "storing",
                                         !.gauge = NoCollector]
                BY <3>3, Zenon DEF Answer
            <4>2. DOMAIN cycle' = DOMAIN cycle /\ cycle'.at \in {"next", "storing"}
                BY <3>1, <4>1
            <4> QED
                BY <3>1, <4>2 DEF Cycling
        <3>4. CASE StoreValue
            <4>1. cycle' = [cycle EXCEPT !.at = "next"]
                BY <3>4, Zenon DEF StoreValue
            <4>2. DOMAIN cycle' = DOMAIN cycle /\ cycle'.at = "next"
                BY <3>1, <4>1
            <4> QED
                BY <3>1, <4>2 DEF Cycling
        <3>5. ~BeginCycle
            BY <2>3 DEF BeginCycle, NoCycle
        <3> QED
            BY <2>3, <3>2, <3>3, <3>4, <3>5, Zenon DEF Cycle
    <2> QED
        BY <2>1, <2>2, <2>3, Zenon DEF Cycle, Query, Answer, StoreValue
<1> QED
    BY <1>1, <1>3, <1>4

LEMMA CycleType == ASSUME Typing, Cycle PROVE Typing'
BY CycleFacts, Zenon DEF Typing, Reloading, Done

(* Every step at a metric. *)
MetricActions ==
    \/ DisableMetric
    \/ EnableRefused
    \/ EnableMetric
    \/ RecreateMetric
    \/ RecreateFails
    \/ KeepMetric
    \/ AddMetric
    \/ AddFails

LEMMA MetricActionsStep ==
    ASSUME Typing, MetricActions
    PROVE  AtMetric /\ MetricStep
BY DisableMetricStep, EnableRefusedStep, EnableMetricStep, RecreateMetricStep,
   RecreateFailsStep, KeepMetricStep, AddMetricStep, AddFailsStep, Zenon
   DEF MetricActions, DisableMetric, EnableMetric, RecreateMetric, KeepMetric, AddMetric

LEMMA NextType == ASSUME Typing, [Next]_vars PROVE Typing'
PROOF
<1>1. ASSUME NEW new \in Configs, BeginReload(new) PROVE Typing'
    BY <1>1, BeginReloadType
<1>2. ASSUME NEW conn \in Connections, Connect(conn) PROVE Typing'
    BY <1>2, ConnectType
<1>3. ASSUME NEW conn \in Connections, ConnectFails(conn) PROVE Typing'
    BY <1>3, ConnectFailsType
<1>4. CASE MetricActions
    BY <1>4, MetricActionsStep, MetricStepType
<1>5. CASE Publish
    BY <1>5, PublishType
<1>6. CASE Cycle
    BY <1>6, CycleType
<1>7. CASE UNCHANGED vars
    BY <1>7, Zenon DEF vars, Typing, Reloading, Done, Cycling
<1> QED
    BY <1>1, <1>2, <1>3, <1>4, <1>5, <1>6, <1>7, Zenon DEF Next, Reload, MetricActions

LEMMA TypingHolds == Spec => []Typing
PROOF
<1>1. Init => Typing
    BY InitType
<1>2. Typing /\ [Next]_vars => Typing'
    BY NextType
<1> QED
    BY <1>1, <1>2, PTL DEF Spec

(* The lists hold gauges of their metrics, each registry one collector for  *)
(* an identity, and no reload or cycle is in a state of its own: after any  *)
(* failures, for all configurations.                                        *)
THEOREM ReloadTypes == Spec => []TypeOK
BY TypingHolds, TypingIsType, PTL


-------------------------------------------------------------------------------
(* The two registries agree.  A steady name is that of a gauge or not, and  *)
(* so is everything that is registered under it.                            *)
Typed(registry) ==
    \A c \in registry : c.name \in Steady => (IsGauge(c) <=> NamesGauge(c.name))

Matched(mine, shown) ==
    /\ \A c \in shown : c.name \in Steady => Has(mine, c)
    /\ \A c \in mine : (c.name \in Steady /\ IsGauge(c)) => Has(shown, c)

Agreeing ==
    /\ Typed(own)
    /\ Typed(exposed)
    /\ Matched(own, exposed)

LEMMA AgreeingIsAgreement == Agreeing => RegistriesAgree
PROOF
<1> SUFFICES ASSUME Agreeing PROVE RegistriesAgree
    OBVIOUS
<1> DEFINE gauges(registry) == { c \in registry : c.name \in Steady /\ IsGauge(c) }
           identities(registry) == { <<c.name, c.labels>> : c \in gauges(registry) }
<1>1. \A c \in gauges(exposed) : \E d \in gauges(own) : c.name = d.name /\ c.labels = d.labels
    BY DEF Agreeing, Typed, Matched, Has, Same
<1>2. \A c \in gauges(own) : \E d \in gauges(exposed) : c.name = d.name /\ c.labels = d.labels
    BY DEF Agreeing, Typed, Matched, Has, Same
<1> HIDE DEF gauges
<1>3. identities(exposed) = identities(own)
    BY <1>1, <1>2
<1> QED
    BY <1>3, Zenon DEF RegistriesAgree, gauges

(* What leaves both leaves them matched, and so does what comes to both. *)
LEMMA MatchedLeave ==
    ASSUME NEW mine, NEW shown, NEW gone, Matched(mine, shown)
    PROVE  Matched(Unregistered(mine, gone), Unregistered(shown, gone))
BY DEF Matched, Unregistered, Has, Same

LEMMA MatchedCome ==
    ASSUME NEW mine, NEW shown, NEW c, Matched(mine, shown)
    PROVE  /\ Matched(mine \cup {c}, shown \cup {c})
           /\ ~IsGauge(c) => Matched(mine \cup {c}, shown)
           /\ Has(shown, c) => Matched(mine \cup {c}, shown)
BY DEF Matched, Has, Same

LEMMA TypedLess ==
    ASSUME NEW registry, NEW part \in SUBSET registry, Typed(registry)
    PROVE  Typed(part)
BY Zenon DEF Typed

LEMMA TypedMore ==
    ASSUME NEW registry, NEW c, Typed(registry),
           c.name \in Steady => (IsGauge(c) <=> NamesGauge(c.name))
    PROVE  Typed(registry \cup {c})
BY DEF Typed

(* A collector has the type that its name stands for. *)
LEMMA CollectorTyped ==
    ASSUME NEW s \in Specs, HasSpare(s)
    PROVE  Collector(s).name \in Steady =>
                (IsGauge(Collector(s)) <=> NamesGauge(Collector(s).name))
BY CollectorFacts, SteadyType

LEMMA OtherNamesAgree ==
    ASSUME Typing, Agreeing, AtMetric, MetricStep, Metric.name \notin Steady
    PROVE  Agreeing'
PROOF
<1>1. \A c : c.name \in Steady =>
                (c \in own' <=> c \in own) /\ (c \in exposed' <=> c \in exposed)
    BY Zenon DEF MetricStep
<1>2. Typed(own') /\ Typed(exposed')
    BY <1>1, Zenon DEF Agreeing, Typed
<1>3. \A c : c.name \in Steady => (Has(own', c) <=> Has(own, c)) /\ (Has(exposed', c) <=> Has(exposed, c))
    BY <1>1, Zenon DEF Has, Same
<1>4. Matched(own', exposed')
    BY <1>1, <1>3, Zenon DEF Agreeing, Matched
<1> QED
    BY <1>2, <1>4, Zenon DEF Agreeing

(* A gauge leaves both registries. *)
LEMMA RemovalAgrees ==
    ASSUME Agreeing, NEW gone,
           own' = Unregistered(own, gone), exposed' = Unregistered(exposed, gone)
    PROVE  Agreeing'
PROOF
<1>1. Matched(own', exposed')
    BY MatchedLeave, Zenon DEF Agreeing
<1>2. own' \in SUBSET own /\ exposed' \in SUBSET exposed
    BY UnregisteredFacts
<1> QED
    BY <1>1, <1>2, TypedLess, Zenon DEF Agreeing

(* A metric's new collector takes the place of its identity in both, or of  *)
(* one that another gauge had.                                              *)
LEMMA EnableAgrees ==
    ASSUME Typing, Agreeing, EnableMetric
    PROVE  Agreeing'
PROOF
<1>1. AtMetric /\ MetricStep
    BY EnableMetricStep, Zenon DEF EnableMetric
<1>2. CASE Metric.name \notin Steady
    BY <1>1, <1>2, OtherNamesAgree
<1>3. CASE Metric.name \in Steady
    <2> DEFINE c == Collector(Metric)
    <2>1. PICK i \in Existing :
            /\ own' = Unregistered(own, {c}) \cup {c}
            /\ \/ Metric.type = "gauge" /\ Has(exposed, c) /\ exposed' = exposed
               \/ exposed' = exposed \cup (IF Metric.type = "gauge" THEN {c} ELSE {})
        BY Zenon DEF EnableMetric
    <2>2. Metric \in Specs /\ HasSpare(Metric)
        BY <1>1, AtMetricFacts
    <2>3. Metric.type = "gauge"
        BY <1>1, <1>3, <2>2, ExistingFacts, SteadyType
    <2>4. c.name = Metric.name /\ IsGauge(c)
        BY <2>2, <2>3, CollectorFacts
    <2>5. c.name \in Steady => (IsGauge(c) <=> NamesGauge(c.name))
        BY <2>2, CollectorTyped
    <2> HIDE DEF c
    <2>7. /\ \A d \in own : ~Same(d, c) => d \in own'
          /\ c \in own'
          /\ own' \subseteq own \cup {c}
        BY <2>1 DEF Unregistered, Has
    <2>8. \A d : Has(own, d) => Has(own', d)
        BY <2>7 DEF Has, Same
    <2>9. Typed(own')
        BY <2>5, <2>7 DEF Agreeing, Typed
    <2>10. Has(exposed', c) /\ exposed \subseteq exposed' /\ exposed' \subseteq exposed \cup {c}
        BY <2>1, <2>3 DEF Has, Same
    <2>11. Typed(exposed')
        BY <2>5, <2>10 DEF Agreeing, Typed
    <2>12. \A d \in exposed' : d.name \in Steady => Has(own', d)
        BY <2>7, <2>8, <2>10 DEF Agreeing, Matched, Has, Same
    <2>13. \A d : Has(exposed, d) => Has(exposed', d)
        BY <2>10 DEF Has
    <2>14. \A d \in own' : (d.name \in Steady /\ IsGauge(d)) => Has(exposed', d)
        BY <2>7, <2>10, <2>13, Zenon DEF Agreeing, Matched
    <2> QED
        BY <2>9, <2>11, <2>12, <2>14, Zenon DEF Agreeing, Matched
<1> QED
    BY <1>2, <1>3

LEMMA RecreateAgrees ==
    ASSUME Typing, Agreeing, RecreateMetric
    PROVE  Agreeing'
PROOF
<1>1. AtMetric /\ MetricStep
    BY RecreateMetricStep, Zenon DEF RecreateMetric
<1>2. CASE Metric.name \notin Steady
    BY <1>1, <1>2, OtherNamesAgree
<1>3. CASE Metric.name \in Steady
    <2> DEFINE c == Collector(Metric)
    <2>1. PICK i \in Existing :
            /\ own' = Unregistered(own, {metrics[i].gauge, c}) \cup {c}
            /\ exposed' = ExposedInstead(metrics[i].gauge, c)
        BY Zenon DEF RecreateMetric
    <2>2. Metric \in Specs /\ HasSpare(Metric)
        BY <1>1, AtMetricFacts
    <2>3. Metric.type = "gauge"
        BY <1>1, <1>3, <2>2, ExistingFacts, SteadyType
    <2>4. c.name = Metric.name /\ IsGauge(c)
        BY <2>2, <2>3, CollectorFacts
    <2>5. c.name \in Steady => (IsGauge(c) <=> NamesGauge(c.name))
        BY <2>2, CollectorTyped
    <2> DEFINE old == metrics[i].gauge
               gone == {old, c}
    <2> HIDE DEF c, old
    <2>6. /\ own' = Unregistered(own, gone) \cup {c}
          /\ exposed' = Unregistered(Unregistered(exposed, {old}), {c}) \cup {c}
        BY <2>1, <2>4, Zenon DEF ExposedInstead, old
    <2>7. exposed' = Unregistered(exposed, gone) \cup {c}
        <3>1. Unregistered(Unregistered(exposed, {old}), {c}) = Unregistered(exposed, gone)
            BY DEF Unregistered, Has
        <3> QED
            BY <2>6, <3>1, Zenon
    <2> HIDE DEF gone
    <2>8. Matched(Unregistered(own, gone), Unregistered(exposed, gone))
        BY MatchedLeave, Zenon DEF Agreeing
    <2>9. Matched(own', exposed')
        <3>1. Matched(Unregistered(own, gone) \cup {c}, Unregistered(exposed, gone) \cup {c})
            BY <2>8, MatchedCome, Zenon
        <3> QED
            BY <2>6, <2>7, <3>1, Zenon
    <2>10. /\ Unregistered(own, gone) \in SUBSET own
           /\ Unregistered(exposed, gone) \in SUBSET exposed
        BY UnregisteredFacts
    <2>11. Typed(Unregistered(own, gone)) /\ Typed(Unregistered(exposed, gone))
        BY <2>10, TypedLess, Zenon DEF Agreeing
    <2>12. Typed(own') /\ Typed(exposed')
        BY <2>5, <2>6, <2>7, <2>11, TypedMore, Zenon
    <2> QED
        BY <2>9, <2>12, Zenon DEF Agreeing
<1> QED
    BY <1>2, <1>3

LEMMA AddAgrees ==
    ASSUME Typing, Agreeing, AddMetric
    PROVE  Agreeing'
PROOF
<1>1. AtMetric
    BY Zenon DEF AddMetric
<1>2. Metric \in Specs /\ HasSpare(Metric)
    BY <1>1, AtMetricFacts
<1>3. CASE own' = own /\ exposed' = exposed
    BY <1>3, Zenon DEF Agreeing
<1> DEFINE c == Collector(Metric)
<1>4. \/ own' = own /\ exposed' = exposed
      \/ /\ own' = own \cup {c}
         /\ \/ Metric.type # "gauge" /\ exposed' = exposed
            \/ Has(exposed, c) /\ exposed' = exposed
            \/ exposed' = exposed \cup {c}
    BY Zenon DEF AddMetric, registryVars
<1>5. c.name \in Steady => (IsGauge(c) <=> NamesGauge(c.name))
    BY <1>2, CollectorTyped
<1>6. Metric.type # "gauge" => ~IsGauge(c)
    BY <1>2, CollectorFacts
<1> HIDE DEF c
<1>7. CASE own' = own \cup {c} /\ exposed' = exposed /\ (~IsGauge(c) \/ Has(exposed, c))
    <2>1. Matched(own', exposed')
        BY <1>7, MatchedCome, Zenon DEF Agreeing
    <2> QED
        BY <1>5, <1>7, <2>1, TypedMore, Zenon DEF Agreeing
<1>8. CASE own' = own \cup {c} /\ exposed' = exposed \cup {c}
    <2>1. Matched(own', exposed')
        BY <1>8, MatchedCome, Zenon DEF Agreeing
    <2> QED
        BY <1>5, <1>8, <2>1, TypedMore, Zenon DEF Agreeing
<1> QED
    BY <1>3, <1>4, <1>6, <1>7, <1>8, Zenon

LEMMA InitAgrees == Init => Agreeing
PROOF
<1> SUFFICES ASSUME Init PROVE Agreeing
    OBVIOUS
<1>1. /\ cfg \in Configs
      /\ own = { First(s) : s \in Enabled }
      /\ exposed = { First(s) : s \in { s \in Enabled : Wanted(s) } }
    BY InitFacts, Zenon
<1>2. \A s \in Enabled : s \in Specs /\ s.enabled
    BY <1>1, Zenon DEF Enabled, Specs
<1>3. \A c \in own : c.name \in Steady => (IsGauge(c) <=> NamesGauge(c.name))
    <2> TAKE c \in own
    <2>1. PICK s \in Enabled : c = First(s)
        BY <1>1, Zenon
    <2>2. c.name = s.name /\ (IsGauge(c) <=> s.type = "gauge") /\ s \in Specs
        BY <1>2, <2>1, FirstFacts
    <2> QED
        BY <2>2, SteadyType
<1>4. exposed \in SUBSET own
    BY <1>1, Zenon
<1>5. Typed(own) /\ Typed(exposed)
    BY <1>3, <1>4, TypedLess, Zenon DEF Typed
<1>6. \A c \in own : IsGauge(c) => c \in exposed
    <2> TAKE c \in own
    <2>1. PICK s \in Enabled : c = First(s)
        BY <1>1, Zenon
    <2>2. IsGauge(c) => Wanted(s)
        BY <1>2, <2>1, FirstFacts DEF Wanted
    <2> QED
        BY <1>1, <2>1, <2>2, Zenon
<1>7. Matched(own, exposed)
    BY <1>4, <1>6 DEF Matched, Has, Same
<1> QED
    BY <1>5, <1>7, Zenon DEF Agreeing

LEMMA NextAgrees == ASSUME Typing, Agreeing, [Next]_vars PROVE Agreeing'
PROOF
<1>1. ASSUME NEW new \in Configs, BeginReload(new) PROVE Agreeing'
    <2>1. /\ own' = Unregistered(own, Gone(new))
          /\ exposed' = Unregistered(exposed, Gone(new))
        BY <1>1, Zenon DEF BeginReload, Gone
    <2> QED
        BY <2>1, RemovalAgrees
<1>2. CASE DisableMetric
    BY <1>2, RemovalAgrees, Zenon DEF DisableMetric
<1>3. CASE EnableMetric
    BY <1>3, EnableAgrees
<1>4. CASE RecreateMetric
    BY <1>4, RecreateAgrees
<1>5. CASE RecreateFails
    BY <1>5, RemovalAgrees, Zenon DEF RecreateFails
<1>6. CASE AddMetric
    BY <1>6, AddAgrees
<1>7. CASE own' = own /\ exposed' = exposed
    BY <1>7, Zenon DEF Agreeing
<1>8. (EnableRefused \/ KeepMetric \/ AddFails) => own' = own /\ exposed' = exposed
    BY Zenon DEF EnableRefused, KeepMetric, AddFails, registryVars
<1>9. ASSUME NEW conn \in Connections, Connect(conn) \/ ConnectFails(conn)
      PROVE  own' = own /\ exposed' = exposed
    BY <1>9, Zenon DEF Connect, ConnectFails, registryVars
<1>10. (Publish \/ Cycle \/ UNCHANGED vars) => own' = own /\ exposed' = exposed
    BY PublishFacts, CycleFacts, Zenon DEF vars
<1> QED
    BY <1>1, <1>2, <1>3, <1>4, <1>5, <1>6, <1>7, <1>8, <1>9, <1>10, Zenon DEF Next, Reload

LEMMA AgreeingHolds == Spec => []Agreeing
PROOF
<1>1. Init => Agreeing
    BY InitAgrees
<1>2. (Typing /\ Agreeing /\ [Next]_vars) => Agreeing'
    BY NextAgrees
<1> QED
    BY <1>1, <1>2, TypingHolds, PTL DEF Spec

(* The service's own registry and the one that /metrics shows hold gauges   *)
(* of the same identities, at every step of every reload and after every    *)
(* failure, for all configurations; metrics whose type changes excepted.    *)
THEOREM RegistriesNeverDiverge == Spec => []RegistriesAgree
BY AgreeingHolds, AgreeingIsAgreement, PTL

-------------------------------------------------------------------------------
(* Connections.  Those that the reload has still to look at were built from *)
(* the old configuration, the others from the new one.                      *)
BuiltFrom(conns, c) ==
    \A conn \in conns \ {Iotdb} :
        /\ conn \in DOMAIN c.servers
        /\ clients[conn].compared = c.servers[conn].compared

Connecting ==
    /\ reload # NoReload =>
        /\ DOMAIN clients \cup reload.conns = Needed(reload.cfg)
        /\ reload.at = "metrics" => reload.conns = {}
    /\ (healthy /\ reload = NoReload) => BuiltFrom(DOMAIN clients, cfg)
    /\ (healthy /\ reload # NoReload) =>
        /\ BuiltFrom(DOMAIN clients \cap reload.conns, cfg)
        /\ BuiltFrom(DOMAIN clients \ reload.conns, reload.cfg)

LEMMA InitConnects == Init => Connecting
PROOF
<1> SUFFICES ASSUME Init PROVE Connecting
    OBVIOUS
<1>1. cfg \in Configs /\ reload = NoReload
    BY InitFacts, Zenon
<1>2. PICK up \in SUBSET Needed(cfg) : clients = [conn \in up |-> cfg.servers[conn]]
    BY InitFacts, Zenon
<1>3. Needed(cfg) \subseteq DOMAIN cfg.servers
    BY <1>1, NeededFacts
<1>4. BuiltFrom(DOMAIN clients, cfg)
    BY <1>2, <1>3 DEF BuiltFrom
<1> QED
    BY <1>1, <1>4, Zenon DEF Connecting

LEMMA BeginReloadConnects ==
    ASSUME Typing, Connecting, NEW new \in Configs, BeginReload(new)
    PROVE  Connecting'
PROOF
<1>1. /\ reload = NoReload /\ reload' # NoReload
      /\ reload'.at = "connections" /\ reload'.cfg = new /\ reload'.conns = Needed(new)
      /\ cfg' = cfg /\ healthy' = healthy
    BY BeginReloadFacts
<1>2. clients' = [conn \in DOMAIN clients \cap Needed(new) |-> clients[conn]]
    BY BeginReloadFacts, Zenon DEF NeededClients
<1>3. /\ DOMAIN clients' = DOMAIN clients \cap Needed(new)
      /\ \A conn \in DOMAIN clients' : clients'[conn] = clients[conn]
    BY <1>2
<1>4. DOMAIN clients' \cup Needed(new) = Needed(new) /\ DOMAIN clients' \cap Needed(new) = DOMAIN clients'
      /\ DOMAIN clients' \ Needed(new) = {}
    BY <1>3
<1>5. ASSUME healthy PROVE \A conn \in DOMAIN clients' \ {Iotdb} :
            conn \in DOMAIN cfg.servers /\ clients'[conn].compared = cfg.servers[conn].compared
    <2>1. BuiltFrom(DOMAIN clients, cfg)
        BY <1>1, <1>5, Zenon DEF Connecting
    <2> QED
        BY <1>3, <2>1 DEF BuiltFrom
<1>6. ASSUME healthy PROVE BuiltFrom(DOMAIN clients \cap reload.conns, cfg)'
    BY <1>1, <1>4, <1>5, <1>6, Zenon DEF BuiltFrom
<1>7. BuiltFrom(DOMAIN clients \ reload.conns, reload.cfg)'
    BY <1>1, <1>4 DEF BuiltFrom
<1>8. /\ reload'.at # "metrics"
      /\ (DOMAIN clients \cup reload.conns = Needed(reload.cfg))'
    BY <1>1, <1>4
<1> QED
    BY <1>1, <1>6, <1>7, <1>8, Zenon DEF Connecting

LEMMA ConnectConnects ==
    ASSUME Typing, Connecting, NEW conn \in Connections, Connect(conn)
    PROVE  Connecting'
PROOF
<1>1. /\ reload # NoReload /\ reload' # NoReload /\ conn \in reload.conns
      /\ reload'.at = "metrics" => reload'.conns = {}
      /\ reload'.conns = reload.conns \ {conn}
      /\ reload'.cfg = reload.cfg
      /\ DOMAIN clients' = DOMAIN clients \cup {conn}
      /\ \A c \in DOMAIN clients : c # conn => clients'[c] = clients[c]
      /\ cfg' = cfg /\ healthy' = healthy
    BY ConnectFacts
<1>2. clients'[conn] = IF Keeps(conn) THEN clients[conn] ELSE reload.cfg.servers[conn]
    BY ConnectFacts
<1>3. reload.cfg \in Configs
    BY ConnectFacts, Zenon DEF Reloading
<1>4. DOMAIN clients \cup reload.conns = Needed(reload.cfg)
    BY <1>1, Zenon DEF Connecting
<1>5. DOMAIN clients' \cup reload'.conns = Needed(reload'.cfg)
    BY <1>1, <1>4
<1>6. conn \in DOMAIN reload.cfg.servers
    BY <1>1, <1>3, <1>4, NeededFacts
<1>7. (healthy /\ conn # Iotdb) => clients'[conn].compared = reload.cfg.servers[conn].compared
    <2>1. CASE Keeps(conn)
        <3>1. clients'[conn] = clients[conn]
            BY <1>2, <2>1, Zenon
        <3>2. conn # Iotdb => cfg.servers[conn].compared = reload.cfg.servers[conn].compared
            BY <2>1, Zenon DEF Keeps
        <3>3. conn \in DOMAIN clients \cap reload.conns
            BY <1>1, <2>1 DEF Keeps
        <3>4. (healthy /\ conn # Iotdb) => clients[conn].compared = cfg.servers[conn].compared
            BY <1>1, <3>3, Zenon DEF Connecting, BuiltFrom
        <3> QED
            BY <3>1, <3>2, <3>4
    <2>2. CASE ~Keeps(conn)
        BY <1>2, <2>2, Zenon
    <2> QED
        BY <2>1, <2>2
<1>8. ASSUME healthy
      PROVE  /\ BuiltFrom(DOMAIN clients \cap reload.conns, cfg)'
             /\ BuiltFrom(DOMAIN clients \ reload.conns, reload.cfg)'
    <2>1. /\ BuiltFrom(DOMAIN clients \cap reload.conns, cfg)
          /\ BuiltFrom(DOMAIN clients \ reload.conns, reload.cfg)
        BY <1>1, <1>8, Zenon DEF Connecting
    <2>2. BuiltFrom(DOMAIN clients \cap reload.conns, cfg)'
        BY <1>1, <2>1 DEF BuiltFrom
    <2>3. BuiltFrom(DOMAIN clients \ reload.conns, reload.cfg)'
        BY <1>1, <1>6, <1>7, <1>8, <2>1 DEF BuiltFrom
    <2> QED
        BY <2>2, <2>3
<1> QED
    BY <1>1, <1>5, <1>8, Zenon DEF Connecting

(* A reload that is over, with the connections of its configuration. *)
LEMMA PublishConnects ==
    ASSUME Typing, Connecting, Publish
    PROVE  /\ Connecting'
           /\ DOMAIN clients = Needed(reload.cfg)
           /\ healthy => BuiltFrom(DOMAIN clients, reload.cfg)
PROOF
<1>1. /\ reload # NoReload /\ reload.at = "metrics"
      /\ cfg' = reload.cfg /\ reload' = NoReload
      /\ clients' = clients /\ healthy' = healthy
    BY PublishFacts
<1>2. reload.conns = {} /\ DOMAIN clients \cup reload.conns = Needed(reload.cfg)
    BY <1>1, Zenon DEF Connecting
<1>3. DOMAIN clients = Needed(reload.cfg) /\ DOMAIN clients \ reload.conns = DOMAIN clients
    BY <1>2
<1>4. healthy => BuiltFrom(DOMAIN clients, reload.cfg)
    BY <1>1, <1>3, Zenon DEF Connecting
<1>5. healthy' => BuiltFrom(DOMAIN clients, cfg)'
    BY <1>1, <1>4, Zenon DEF BuiltFrom
<1> QED
    BY <1>1, <1>3, <1>4, <1>5, Zenon DEF Connecting

(* A step at a metric, or one that leaves everything as it was. *)
LEMMA SettledConnects ==
    ASSUME Connecting, cfg' = cfg, clients' = clients,
           \/ reload' = NoReload /\ healthy' = FALSE
           \/ reload' = reload /\ healthy' = healthy
           \/ /\ reload # NoReload /\ reload' # NoReload /\ healthy' = healthy
              /\ reload'.at = reload.at /\ reload'.cfg = reload.cfg
              /\ reload'.conns = reload.conns
    PROVE  Connecting'
PROOF
<1>1. CASE reload' = NoReload /\ healthy' = FALSE
    BY <1>1, Zenon DEF Connecting
<1>2. CASE reload' = reload /\ healthy' = healthy
    BY <1>2, Zenon DEF Connecting, BuiltFrom
<1>3. CASE /\ reload # NoReload /\ reload' # NoReload /\ healthy' = healthy
           /\ reload'.at = reload.at /\ reload'.cfg = reload.cfg
           /\ reload'.conns = reload.conns
    <2>1. /\ (DOMAIN clients \cup reload.conns = Needed(reload.cfg))'
          /\ (reload.at = "metrics" => reload.conns = {})'
        BY <1>3, Zenon DEF Connecting
    <2>2. ASSUME healthy
          PROVE  /\ BuiltFrom(DOMAIN clients \cap reload.conns, cfg)'
                 /\ BuiltFrom(DOMAIN clients \ reload.conns, reload.cfg)'
        <3>1. /\ BuiltFrom(DOMAIN clients \cap reload.conns, cfg)
              /\ BuiltFrom(DOMAIN clients \ reload.conns, reload.cfg)
            BY <1>3, <2>2, Zenon DEF Connecting
        <3>2. BuiltFrom(DOMAIN clients \cap reload.conns, cfg)'
            BY <1>3, <3>1, Zenon DEF BuiltFrom
        <3>3. BuiltFrom(DOMAIN clients \ reload.conns, reload.cfg)'
            BY <1>3, <3>1, Zenon DEF BuiltFrom
        <3> QED
            BY <3>2, <3>3
    <2> QED
        BY <1>3, <2>1, <2>2, Zenon DEF Connecting
<1> QED
    BY <1>1, <1>2, <1>3

LEMMA NextConnects == ASSUME Typing, Connecting, [Next]_vars PROVE Connecting'
PROOF
<1>1. ASSUME NEW new \in Configs, BeginReload(new) PROVE Connecting'
    BY <1>1, BeginReloadConnects
<1>2. ASSUME NEW conn \in Connections, Connect(conn) PROVE Connecting'
    BY <1>2, ConnectConnects
<1>3. ASSUME NEW conn \in Connections, ConnectFails(conn) PROVE Connecting'
    <2>1. reload' = NoReload /\ healthy' = FALSE
        BY <1>3, ConnectFailsFacts
    <2> QED
        BY <2>1, Zenon DEF Connecting
<1>4. CASE MetricActions
    <2>1. AtMetric /\ MetricStep
        BY <1>4, MetricActionsStep
    <2>2. reload # NoReload /\ reload.at = "metrics"
        BY <2>1, AtMetricFacts
    <2>3. cfg' = cfg /\ clients' = clients
        BY <2>1, Zenon DEF MetricStep
    <2>4. Fail \/ \E holders : Advance(holders)
        BY <2>1, Zenon DEF MetricStep
    <2>5. CASE Fail
        BY <2>3, <2>5, SettledConnects, Zenon DEF Fail
    <2>6. ASSUME NEW holders, Advance(holders) PROVE Connecting'
        <3>1. /\ reload' # NoReload
              /\ reload'.at = "metrics" /\ reload'.cfg = reload.cfg
              /\ reload'.conns = reload.conns
            BY <2>1, <2>6, AdvanceFacts
        <3>2. healthy' = healthy
            BY <2>6, Zenon DEF Advance
        <3> QED
            BY <2>2, <2>3, <3>1, <3>2, SettledConnects, Zenon
    <2> QED
        BY <2>4, <2>5, <2>6
<1>5. CASE Publish
    BY <1>5, PublishConnects
<1>6. CASE Cycle
    BY <1>6, CycleFacts, SettledConnects, Zenon
<1>7. CASE UNCHANGED vars
    BY <1>7, SettledConnects, Zenon DEF vars
<1> QED
    BY <1>1, <1>2, <1>3, <1>4, <1>5, <1>6, <1>7, Zenon DEF Next, Reload, MetricActions

LEMMA ConnectingHolds == Spec => []Connecting
PROOF
<1>1. Init => Connecting
    BY InitConnects
<1>2. (Typing /\ Connecting /\ [Next]_vars) => Connecting'
    BY NextConnects
<1> QED
    BY <1>1, <1>2, TypingHolds, PTL DEF Spec

(* A reload that succeeds leaves just the connections that are needed, also *)
(* after failed ones; if none failed, those it kept have the settings of    *)
(* the new configuration.                                                   *)
THEOREM ReloadsConnect == Spec => ReloadConnects
PROOF
<1> DEFINE Good ==
        Publish =>
          /\ DOMAIN clients = Needed(reload.cfg)
          /\ healthy => \A conn \in DOMAIN clients \ {Iotdb} :
                            clients[conn].compared = reload.cfg.servers[conn].compared
<1>1. (Typing /\ Connecting /\ [Next]_vars) => [Good]_vars
    BY PublishConnects, Zenon DEF BuiltFrom
<1>2. ReloadConnects <=> [][Good]_vars
    BY PTL DEF ReloadConnects
<1> QED
    BY <1>1, <1>2, TypingHolds, ConnectingHolds, PTL DEF Spec

-------------------------------------------------------------------------------
(* What is exposed while no reload fails.  Between reloads it is the gauges *)
(* of the holders; during one, of the new holders and of those whose turn   *)
(* has not come.                                                            *)
Shows(h) ==
    /\ h.gauge \in exposed
    /\ h.gauge.labels = h.spec.labels
    /\ Wanted(h.spec)

Waits(name) == name \in NamesOf(reload.cfg) /\ ~Done(name)

ConfigShown ==
    /\ \A i \in DOMAIN metrics : metrics[i].spec.name \in Steady =>
            Shows(metrics[i]) /\ metrics[i].spec \in ToSet(cfg.metrics)
    /\ \A c \in exposed : c.name \in Steady =>
            \E i \in DOMAIN metrics : metrics[i].gauge = c
    /\ \A s \in ToSet(cfg.metrics) : (Wanted(s) /\ s.name \in Steady) =>
            \E i \in DOMAIN metrics : metrics[i].spec = s

PartShown ==
    /\ \A i \in DOMAIN metrics :
            (metrics[i].spec.name \in Steady /\ Waits(metrics[i].spec.name)) => Shows(metrics[i])
    /\ \A j \in DOMAIN reload.updated : reload.updated[j].spec.name \in Steady =>
            Shows(reload.updated[j]) /\ reload.updated[j].spec \in ToSet(reload.cfg.metrics)
    /\ \A c \in exposed : c.name \in Steady =>
            \/ \E j \in DOMAIN reload.updated : reload.updated[j].gauge = c
            \/ Waits(c.name) /\ \E i \in DOMAIN metrics : metrics[i].gauge = c
    /\ \A k \in DOMAIN reload.cfg.metrics :
            LET s == reload.cfg.metrics[k]
            IN  (k < reload.next /\ Wanted(s) /\ s.name \in Steady) =>
                    \E j \in DOMAIN reload.updated : reload.updated[j].spec = s

Showing ==
    /\ (healthy /\ reload = NoReload) => ConfigShown
    /\ (healthy /\ reload # NoReload) => PartShown

LEMMA ShowingIsConfigured == Typing /\ Showing => ExposedIsConfigured
PROOF
<1> SUFFICES ASSUME Typing, Showing, healthy, reload = NoReload
             PROVE  LET shown == { c \in exposed : c.name \in Steady }
                        held == { metrics[i].gauge : i \in DOMAIN metrics }
                        wanted == { s \in ToSet(cfg.metrics) : Wanted(s) /\ s.name \in Steady }
                    IN  /\ shown = { c \in held : c.name \in Steady }
                        /\ { <<c.name, c.labels>> : c \in shown } = { <<s.name, s.labels>> : s \in wanted }
    BY Zenon DEF ExposedIsConfigured
<1> DEFINE shown == { c \in exposed : c.name \in Steady }
           held == { metrics[i].gauge : i \in DOMAIN metrics }
           wanted == { s \in ToSet(cfg.metrics) : Wanted(s) /\ s.name \in Steady }
<1>1. ConfigShown
    BY Zenon DEF Showing
<1>2. \A i \in DOMAIN metrics : metrics[i].gauge.name = metrics[i].spec.name
    <2>1. \A i \in DOMAIN metrics : metrics[i] \in Holders
        BY DEF Typing
    <2> QED
        BY <2>1, HolderFacts
<1>3. shown = { c \in held : c.name \in Steady }
    BY <1>1, <1>2, Zenon DEF ConfigShown, Shows
<1>4. \A c \in shown : \E s \in wanted : c.name = s.name /\ c.labels = s.labels
    <2> TAKE c \in shown
    <2>1. PICK i \in DOMAIN metrics : metrics[i].gauge = c
        BY <1>1, Zenon DEF ConfigShown
    <2>2. metrics[i].spec.name = c.name /\ c.name \in Steady
        BY <1>2, <2>1
    <2>3. metrics[i].spec \in ToSet(cfg.metrics) /\ Wanted(metrics[i].spec)
          /\ metrics[i].gauge.labels = metrics[i].spec.labels
        BY <1>1, <2>2, Zenon DEF ConfigShown, Shows
    <2>4. metrics[i].spec \in wanted
        BY <2>2, <2>3
    <2> QED
        BY <2>1, <2>2, <2>3, <2>4, Zenon
<1>5. \A s \in wanted : \E c \in shown : c.name = s.name /\ c.labels = s.labels
    <2> TAKE s \in wanted
    <2>1. PICK i \in DOMAIN metrics : metrics[i].spec = s
        BY <1>1, Zenon DEF ConfigShown
    <2>2. s.name \in Steady
        OBVIOUS
    <2>3. metrics[i].gauge \in exposed /\ metrics[i].gauge.labels = s.labels
        BY <1>1, <2>1, <2>2, Zenon DEF ConfigShown, Shows
    <2>4. metrics[i].gauge \in shown /\ metrics[i].gauge.name = s.name
        BY <1>2, <2>1, <2>2, <2>3
    <2> QED
        BY <2>3, <2>4, Zenon
<1> HIDE DEF shown, wanted, held
<1>6. { <<c.name, c.labels>> : c \in shown } = { <<s.name, s.labels>> : s \in wanted }
    BY <1>4, <1>5
<1> QED
    BY <1>3, <1>6, Zenon DEF shown, wanted, held

LEMMA InitShows == Init => Showing
PROOF
<1> SUFFICES ASSUME Init PROVE ConfigShown /\ reload = NoReload
    BY Zenon DEF Showing
<1>1. /\ cfg \in Configs /\ reload = NoReload
      /\ exposed = { First(s) : s \in { s \in Enabled : Wanted(s) } }
    BY InitFacts, Zenon
<1>2. /\ \A i \in DOMAIN metrics : \E k \in GaugeNumbers :
            metrics[i] = Holder(cfg.metrics[k], First(cfg.metrics[k]))
      /\ \A k \in GaugeNumbers : \E i \in DOMAIN metrics :
            metrics[i] = Holder(cfg.metrics[k], First(cfg.metrics[k]))
    BY InitFacts, Zenon
<1>3. \A s, c : Holder(s, c).spec = s /\ Holder(s, c).gauge = c
    BY DEF Holder
<1>4. \A k \in DOMAIN cfg.metrics : cfg.metrics[k] \in ToSet(cfg.metrics)
    BY Zenon DEF ToSet
<1>5. \A s \in ToSet(cfg.metrics) : s \in Specs /\ \E k \in DOMAIN cfg.metrics : s = cfg.metrics[k]
    BY <1>1, Zenon DEF ToSet, Specs
<1>6. \A k \in GaugeNumbers :
        /\ k \in DOMAIN cfg.metrics
        /\ Wanted(cfg.metrics[k])
        /\ First(cfg.metrics[k]) \in exposed
        /\ First(cfg.metrics[k]).labels = cfg.metrics[k].labels
    <2> TAKE k \in GaugeNumbers
    <2>1. k \in DOMAIN cfg.metrics /\ Wanted(cfg.metrics[k])
        BY Zenon DEF GaugeNumbers
    <2>2. cfg.metrics[k] \in ToSet(cfg.metrics) /\ cfg.metrics[k].enabled
        BY <1>4, <2>1, Zenon DEF Wanted
    <2>3. cfg.metrics[k] \in Enabled
        BY <2>2, Zenon DEF Enabled
    <2>4. cfg.metrics[k] \in Specs
        BY <1>5, <2>2, Zenon
    <2> QED
        BY <1>1, <2>1, <2>3, <2>4, FirstFacts, Zenon
<1>7. \A i \in DOMAIN metrics : Shows(metrics[i]) /\ metrics[i].spec \in ToSet(cfg.metrics)
    <2> TAKE i \in DOMAIN metrics
    <2>1. PICK k \in GaugeNumbers :
            metrics[i] = Holder(cfg.metrics[k], First(cfg.metrics[k]))
        BY <1>2
    <2>2. metrics[i].spec = cfg.metrics[k] /\ metrics[i].gauge = First(cfg.metrics[k])
        BY <1>3, <2>1
    <2> QED
        BY <1>4, <1>6, <2>2, Zenon DEF Shows
<1>8. \A s \in ToSet(cfg.metrics) : Wanted(s) =>
            \E i \in DOMAIN metrics : metrics[i].spec = s /\ metrics[i].gauge = First(s)
    <2> TAKE s \in ToSet(cfg.metrics)
    <2> HAVE Wanted(s)
    <2>1. PICK k \in DOMAIN cfg.metrics : s = cfg.metrics[k]
        BY <1>5, Zenon
    <2>2. k \in GaugeNumbers
        BY <2>1, Zenon DEF GaugeNumbers
    <2> QED
        <3>1. PICK i \in DOMAIN metrics :
                metrics[i] = Holder(cfg.metrics[k], First(cfg.metrics[k]))
            BY <1>2, <2>2
        <3>2. metrics[i].spec = s /\ metrics[i].gauge = First(s)
            BY <1>3, <2>1, <3>1
        <3> QED
            BY <3>2
<1>9. \A c \in exposed : \E i \in DOMAIN metrics : metrics[i].gauge = c
    <2> TAKE c \in exposed
    <2>1. PICK s \in { s \in Enabled : Wanted(s) } : c = First(s)
        BY <1>1, Zenon
    <2>2. s \in ToSet(cfg.metrics) /\ Wanted(s)
        BY <2>1, Zenon DEF Enabled
    <2> QED
        BY <1>8, <2>1, <2>2, Zenon
<1> QED
    BY <1>1, <1>7, <1>8, <1>9, Zenon DEF ConfigShown

LEMMA BeginReloadShows ==
    ASSUME Typing, Showing, healthy, NEW new \in Configs, BeginReload(new)
    PROVE  PartShown'
PROOF
<1>1. /\ reload = NoReload /\ metrics' = metrics
      /\ reload'.cfg = new /\ reload'.next = 1 /\ reload'.updated = <<>>
    BY BeginReloadFacts
<1>2. ConfigShown
    BY <1>1, Zenon DEF Showing
<1>3. exposed' = Unregistered(exposed, Gone(new))
    BY Zenon DEF BeginReload, Gone
<1>4. \A i \in DOMAIN metrics : metrics[i].gauge.name = metrics[i].spec.name
    <2>1. \A i \in DOMAIN metrics : metrics[i] \in Holders
        BY DEF Typing
    <2> QED
        BY <2>1, HolderFacts
<1>5. DOMAIN new.metrics = 1 .. Len(new.metrics) /\ Len(new.metrics) \in Nat
    BY ConfigFacts
<1>6. \A k \in DOMAIN reload'.cfg.metrics : ~(k < reload'.next)
    BY <1>1, <1>5
<1>7. \A name : ~Done(name)'
    BY <1>6, Zenon DEF Done
<1>8. \A name : Waits(name)' <=> name \in NamesOf(new)
    BY <1>1, <1>7, Zenon DEF Waits
<1>9. DOMAIN reload'.updated = {}
    BY <1>1
<1>10. \A c \in Gone(new) : c.name \notin NamesOf(new)
    BY <1>4, Zenon DEF Gone
<1>11. \A c \in exposed : c.name \in NamesOf(new) => c \in exposed'
    BY <1>3, <1>10, UnregisteredFacts
<1>12. \A c \in exposed' : c \in exposed /\ c \notin Gone(new)
    BY <1>3 DEF Unregistered, Has, Same
<1>13. \A i \in DOMAIN metrics :
        (metrics[i].spec.name \in Steady /\ metrics[i].spec.name \in NamesOf(new)) => Shows(metrics[i])'
    BY <1>1, <1>2, <1>4, <1>11, Zenon DEF ConfigShown, Shows
<1>14. \A c \in exposed' : c.name \in Steady =>
            c.name \in NamesOf(new) /\ \E i \in DOMAIN metrics : metrics[i].gauge = c
    <2> TAKE c \in exposed'
    <2> HAVE c.name \in Steady
    <2>1. PICK i \in DOMAIN metrics : metrics[i].gauge = c
        BY <1>2, <1>12, Zenon DEF ConfigShown
    <2>2. metrics[i].spec.name = c.name
        BY <1>4, <2>1, Zenon
    <2>3. c.name \in NamesOf(new)
        BY <1>12, <2>1, <2>2, Zenon DEF Gone
    <2> QED
        BY <2>1, <2>3, Zenon
<1> QED
    BY <1>1, <1>6, <1>8, <1>9, <1>13, <1>14, Zenon DEF PartShown

(* What the invariant says of the metric whose turn it is. *)
LEMMA MetricShown ==
    ASSUME Typing, AtMetric, PartShown, Metric.name \in Steady
    PROVE  /\ \A i \in Existing : Shows(metrics[i])
           /\ \A c \in exposed : c.name = Metric.name =>
                \E i \in Existing : metrics[i].gauge = c
PROOF
<1>1. /\ reload.next \in DOMAIN reload.cfg.metrics
      /\ Metric = reload.cfg.metrics[reload.next]
      /\ Reloading /\ ~Done(Metric.name)
    BY AtMetricFacts
<1>2. Waits(Metric.name)
    BY <1>1, Zenon DEF Waits, NamesOf
<1>3. \A i \in Existing : Shows(metrics[i])
    BY <1>2, Zenon DEF PartShown, Existing
<1>4. ASSUME NEW c \in exposed, c.name = Metric.name
      PROVE  \E i \in Existing : metrics[i].gauge = c
    <2>1. ASSUME NEW j \in DOMAIN reload.updated, reload.updated[j].gauge = c
          PROVE  FALSE
        <3>1. reload.updated \in Seq(Holders)
            BY <1>1, Zenon DEF Reloading
        <3>2. reload.updated[j] \in Holders
            BY <3>1
        <3>3. reload.updated[j].spec.name = Metric.name
            BY <1>4, <2>1, <3>2, HolderFacts
        <3> QED
            BY <1>1, <2>1, <3>3, Zenon DEF Reloading
    <2>2. PICK i \in DOMAIN metrics : metrics[i].gauge = c
        BY <1>4, <2>1, Zenon DEF PartShown
    <2>3. metrics[i].spec.name = Metric.name
        <3>1. metrics[i] \in Holders
            BY DEF Typing
        <3> QED
            BY <1>4, <2>2, <3>1, HolderFacts
    <2> QED
        BY <2>2, <2>3, Zenon DEF Existing
<1> QED
    BY <1>3, <1>4, Zenon

(* The other names do not notice a step. *)
LEMMA OtherNamesShown ==
    ASSUME Typing, AtMetric, MetricStep, PartShown, NEW holders, Advance(holders)
    PROVE  /\ \A i \in DOMAIN metrics' :
                (metrics'[i].spec.name \in Steady /\ Waits(metrics[i].spec.name)') => Shows(metrics[i])'
           /\ \A j \in DOMAIN reload.updated : reload.updated[j].spec.name \in Steady =>
                /\ reload.updated[j].gauge \in exposed'
                /\ reload.updated[j].gauge.labels = reload.updated[j].spec.labels
                /\ Wanted(reload.updated[j].spec)
                /\ reload.updated[j].spec \in ToSet(reload.cfg.metrics)
           /\ \A c \in exposed' : (c.name \in Steady /\ c.name # Metric.name) =>
                \/ \E j \in DOMAIN reload.updated : reload.updated[j].gauge = c
                \/ Waits(c.name)' /\ \E i \in DOMAIN metrics' : metrics'[i].gauge = c
           /\ \A k \in DOMAIN reload.cfg.metrics :
                LET s == reload.cfg.metrics[k]
                IN  (k < reload'.next /\ Wanted(s) /\ s.name \in Steady) =>
                        s = Metric \/ \E j \in DOMAIN reload.updated : reload.updated[j].spec = s
PROOF
<1>1. /\ Reloading /\ ~Done(Metric.name)
      /\ reload.next \in DOMAIN reload.cfg.metrics
      /\ Metric = reload.cfg.metrics[reload.next]
    BY AtMetricFacts
<1>2. /\ reload'.cfg = reload.cfg /\ reload'.next = reload.next + 1
      /\ \A name : Done(name)' <=> (Done(name) \/ name = Metric.name)
    BY AdvanceFacts
<1>3. /\ DOMAIN metrics' = DOMAIN metrics
      /\ \A i \in DOMAIN metrics :
            /\ metrics'[i].spec.name = metrics[i].spec.name
            /\ metrics[i].spec.name # Metric.name => metrics'[i] = metrics[i]
      /\ \A c : c.name # Metric.name => (c \in exposed' <=> c \in exposed)
    BY Zenon DEF MetricStep
<1>4. \A name : Waits(name)' <=> (Waits(name) /\ name # Metric.name)
    BY <1>2, Zenon DEF Waits
<1>5. \A i \in DOMAIN metrics : metrics[i].gauge.name = metrics[i].spec.name
    <2>1. \A i \in DOMAIN metrics : metrics[i] \in Holders
        BY DEF Typing
    <2> QED
        BY <2>1, HolderFacts
<1>6. \A j \in DOMAIN reload.updated :
        /\ reload.updated[j].gauge.name = reload.updated[j].spec.name
        /\ reload.updated[j].spec.name # Metric.name
    <2>1. reload.updated \in Seq(Holders)
        BY <1>1, Zenon DEF Reloading
    <2>2. \A j \in DOMAIN reload.updated : reload.updated[j] \in Holders
        BY <2>1
    <2>3. \A j \in DOMAIN reload.updated : Done(reload.updated[j].spec.name)
        BY <1>1, Zenon DEF Reloading
    <2>4. \A j \in DOMAIN reload.updated : reload.updated[j].spec.name # Metric.name
        BY <1>1, <2>3, Zenon
    <2> QED
        BY <2>2, <2>4, HolderFacts
<1>7. \A i \in DOMAIN metrics' :
        (metrics'[i].spec.name \in Steady /\ Waits(metrics[i].spec.name)') => Shows(metrics[i])'
    <2> SUFFICES ASSUME NEW i \in DOMAIN metrics,
                        metrics'[i].spec.name \in Steady, Waits(metrics[i].spec.name)'
                 PROVE  Shows(metrics[i])'
        BY <1>3, Zenon
    <2>1. metrics[i].spec.name # Metric.name /\ Waits(metrics[i].spec.name) /\ metrics[i].spec.name \in Steady
        BY <1>3, <1>4, Zenon
    <2>2. Shows(metrics[i]) /\ metrics'[i] = metrics[i]
        BY <1>3, <2>1, Zenon DEF PartShown
    <2> QED
        BY <1>3, <1>5, <2>1, <2>2, Zenon DEF Shows
<1>8. \A j \in DOMAIN reload.updated : reload.updated[j].spec.name \in Steady =>
        /\ reload.updated[j].gauge \in exposed'
        /\ reload.updated[j].gauge.labels = reload.updated[j].spec.labels
        /\ Wanted(reload.updated[j].spec)
        /\ reload.updated[j].spec \in ToSet(reload.cfg.metrics)
    <2> TAKE j \in DOMAIN reload.updated
    <2> HAVE reload.updated[j].spec.name \in Steady
    <2>1. Shows(reload.updated[j]) /\ reload.updated[j].spec \in ToSet(reload.cfg.metrics)
        BY Zenon DEF PartShown
    <2>2. reload.updated[j].gauge.name # Metric.name
        BY <1>6
    <2> QED
        BY <1>3, <2>1, <2>2, Zenon DEF Shows
<1>9. \A c \in exposed' : (c.name \in Steady /\ c.name # Metric.name) =>
        \/ \E j \in DOMAIN reload.updated : reload.updated[j].gauge = c
        \/ Waits(c.name)' /\ \E i \in DOMAIN metrics' : metrics'[i].gauge = c
    <2> TAKE c \in exposed'
    <2> HAVE c.name \in Steady /\ c.name # Metric.name
    <2>1. c \in exposed
        BY <1>3, Zenon
    <2>2. CASE \E j \in DOMAIN reload.updated : reload.updated[j].gauge = c
        BY <2>2
    <2>3. CASE Waits(c.name) /\ \E i \in DOMAIN metrics : metrics[i].gauge = c
        <3>1. PICK i \in DOMAIN metrics : metrics[i].gauge = c
            BY <2>3
        <3>2. metrics[i].spec.name # Metric.name
            BY <1>5, <3>1, Zenon
        <3>3. metrics'[i].gauge = c /\ i \in DOMAIN metrics'
            BY <1>3, <3>1, <3>2, Zenon
        <3> QED
            BY <1>4, <2>3, <3>3, Zenon
    <2> QED
        BY <2>1, <2>2, <2>3, Zenon DEF PartShown
<1>10. \A k \in DOMAIN reload.cfg.metrics : k < reload'.next => (k < reload.next \/ k = reload.next)
    <2>1. reload.cfg \in Configs
        BY <1>1, Zenon DEF Reloading
    <2> QED
        BY <1>1, <1>2, <2>1, ConfigFacts
<1>11. \A k \in DOMAIN reload.cfg.metrics :
        (k < reload'.next /\ Wanted(reload.cfg.metrics[k]) /\ reload.cfg.metrics[k].name \in Steady) =>
            \/ reload.cfg.metrics[k] = Metric
            \/ \E j \in DOMAIN reload.updated : reload.updated[j].spec = reload.cfg.metrics[k]
    BY <1>1, <1>10, Zenon DEF PartShown
<1> QED
    BY <1>7, <1>8, <1>9, <1>11, Zenon

(* The invariant after a step, for the new list it leaves. *)
ShownAfter(list) ==
    /\ \A i \in DOMAIN metrics' :
            (metrics'[i].spec.name \in Steady /\ Waits(metrics[i].spec.name)') => Shows(metrics[i])'
    /\ \A j \in DOMAIN list : list[j].spec.name \in Steady =>
            /\ list[j].gauge \in exposed'
            /\ list[j].gauge.labels = list[j].spec.labels
            /\ Wanted(list[j].spec)
            /\ list[j].spec \in ToSet(reload.cfg.metrics)
    /\ \A c \in exposed' : c.name \in Steady =>
            \/ \E j \in DOMAIN list : list[j].gauge = c
            \/ Waits(c.name)' /\ \E i \in DOMAIN metrics' : metrics'[i].gauge = c
    /\ \A k \in DOMAIN reload.cfg.metrics :
            (k < reload'.next /\ Wanted(reload.cfg.metrics[k]) /\ reload.cfg.metrics[k].name \in Steady) =>
                \E j \in DOMAIN list : list[j].spec = reload.cfg.metrics[k]

LEMMA ShownAfterIsPart ==
    ASSUME NEW list, list = reload'.updated, reload'.cfg = reload.cfg, ShownAfter(list)
    PROVE  PartShown'
PROOF
<1>1. \A j \in DOMAIN list : list[j].spec.name \in Steady =>
        Shows(list[j])' /\ list[j].spec \in ToSet(reload'.cfg.metrics)
    BY Zenon DEF Shows, ShownAfter
<1>2. (\A j \in DOMAIN reload.updated : reload.updated[j].spec.name \in Steady =>
            Shows(reload.updated[j]) /\ reload.updated[j].spec \in ToSet(reload.cfg.metrics))'
    BY <1>1, Zenon
<1>3. (\A i \in DOMAIN metrics :
            (metrics[i].spec.name \in Steady /\ Waits(metrics[i].spec.name)) => Shows(metrics[i]))'
    BY Zenon DEF ShownAfter
<1>4. (\A c \in exposed : c.name \in Steady =>
            \/ \E j \in DOMAIN reload.updated : reload.updated[j].gauge = c
            \/ Waits(c.name) /\ \E i \in DOMAIN metrics : metrics[i].gauge = c)'
    BY Zenon DEF ShownAfter
<1>5. (\A k \in DOMAIN reload.cfg.metrics :
            LET s == reload.cfg.metrics[k]
            IN  (k < reload.next /\ Wanted(s) /\ s.name \in Steady) =>
                    \E j \in DOMAIN reload.updated : reload.updated[j].spec = s)'
    BY Zenon DEF ShownAfter
<1> QED
    BY <1>2, <1>3, <1>4, <1>5, Zenon DEF PartShown

(* The metric has no gauge and none is left. *)
LEMMA WithoutHolderShown ==
    ASSUME Typing, AtMetric, MetricStep, PartShown, Advance(<<>>),
           Metric.name \in Steady =>
                ~Wanted(Metric) /\ \A c \in exposed' : c.name # Metric.name
    PROVE  PartShown'
PROOF
<1>1. Reloading
    BY AtMetricFacts
<1>2. reload.updated \in Seq(Holders)
    BY <1>1, Zenon DEF Reloading
<1>3. reload.updated \o <<>> = reload.updated
    BY <1>2, ConcatEmptySeq, Zenon
<1>4. reload'.cfg = reload.cfg /\ reload'.updated = reload.updated
    BY <1>3, AdvanceFacts
<1>5. \A j \in DOMAIN reload.updated : reload.updated[j].spec.name \in Steady =>
        /\ reload.updated[j].gauge \in exposed'
        /\ reload.updated[j].gauge.labels = reload.updated[j].spec.labels
        /\ Wanted(reload.updated[j].spec)
        /\ reload.updated[j].spec \in ToSet(reload.cfg.metrics)
    BY OtherNamesShown, Zenon
<1>6. \A c \in exposed' : c.name \in Steady =>
        \/ \E j \in DOMAIN reload.updated : reload.updated[j].gauge = c
        \/ Waits(c.name)' /\ \E i \in DOMAIN metrics' : metrics'[i].gauge = c
    BY OtherNamesShown, Zenon
<1>7. \A k \in DOMAIN reload.cfg.metrics :
        (k < reload'.next /\ Wanted(reload.cfg.metrics[k]) /\ reload.cfg.metrics[k].name \in Steady) =>
            \E j \in DOMAIN reload.updated : reload.updated[j].spec = reload.cfg.metrics[k]
    BY OtherNamesShown, Zenon
<1> QED
    <2>1. ShownAfter(reload.updated)
        BY <1>5, <1>6, <1>7, OtherNamesShown, Zenon DEF ShownAfter
    <2> QED
        BY <1>4, <2>1, ShownAfterIsPart

(* The metric has a holder, and its gauge is the only one of the name. *)
LEMMA WithHolderShown ==
    ASSUME Typing, AtMetric, MetricStep, PartShown,
           NEW h \in Holders, h.spec.name = Metric.name, Advance(<<h>>),
           Metric.name \in Steady =>
                /\ h.spec = Metric /\ Wanted(Metric)
                /\ h.gauge \in exposed' /\ h.gauge.labels = Metric.labels
                /\ \A c \in exposed' : c.name = Metric.name => c = h.gauge
    PROVE  PartShown'
PROOF
<1>1. /\ Reloading /\ reload.next \in DOMAIN reload.cfg.metrics
      /\ Metric = reload.cfg.metrics[reload.next]
    BY AtMetricFacts
<1>2. reload.updated \in Seq(Holders)
    BY <1>1, Zenon DEF Reloading
<1>3. reload'.cfg = reload.cfg /\ reload'.updated = reload.updated \o <<h>>
    BY AdvanceFacts
<1> DEFINE extended == reload.updated \o <<h>>
<1>4. /\ \A j \in DOMAIN reload.updated : j \in DOMAIN extended /\ extended[j] = reload.updated[j]
      /\ \A j \in DOMAIN extended : extended[j] = h \/ (j \in DOMAIN reload.updated)
      /\ \E j \in DOMAIN extended : extended[j] = h
    BY <1>2, LongerList
<1> HIDE DEF extended
<1>5. PICK longer : longer = extended
    OBVIOUS
<1>6. longer = reload'.updated
    BY <1>3, <1>5, Zenon DEF extended
<1>7. /\ \A j \in DOMAIN reload.updated : j \in DOMAIN longer /\ longer[j] = reload.updated[j]
      /\ \A j \in DOMAIN longer : longer[j] = h \/ (j \in DOMAIN reload.updated)
      /\ \E j \in DOMAIN longer : longer[j] = h
    <2>1. \A j \in DOMAIN reload.updated : j \in DOMAIN longer /\ longer[j] = reload.updated[j]
        BY <1>4, <1>5, Zenon
    <2>2. \A j \in DOMAIN longer : longer[j] = h \/ (j \in DOMAIN reload.updated)
        BY <1>4, <1>5, Zenon
    <2>3. \E j \in DOMAIN longer : longer[j] = h
        BY <1>4, <1>5, Zenon
    <2> QED
        BY <2>1, <2>2, <2>3, Zenon
<1>8. Metric \in ToSet(reload.cfg.metrics)
    BY <1>1, Zenon DEF ToSet
<1>9. \A j \in DOMAIN longer : longer[j].spec.name \in Steady =>
        /\ longer[j].gauge \in exposed'
        /\ longer[j].gauge.labels = longer[j].spec.labels
        /\ Wanted(longer[j].spec)
        /\ longer[j].spec \in ToSet(reload.cfg.metrics)
    <2> TAKE j \in DOMAIN longer
    <2>1. CASE longer[j] = h
        BY <1>8, <2>1, Zenon
    <2>2. CASE j \in DOMAIN reload.updated
        BY <1>7, <2>2, OtherNamesShown, Zenon
    <2> QED
        BY <1>7, <2>1, <2>2
<1>10. \A c \in exposed' : c.name \in Steady =>
        \/ \E j \in DOMAIN longer : longer[j].gauge = c
        \/ Waits(c.name)' /\ \E i \in DOMAIN metrics' : metrics'[i].gauge = c
    <2> TAKE c \in exposed'
    <2> HAVE c.name \in Steady
    <2>1. CASE c.name = Metric.name
        BY <1>7, <2>1, Zenon
    <2>2. CASE c.name # Metric.name
        <3>1. CASE \E j \in DOMAIN reload.updated : reload.updated[j].gauge = c
            BY <1>7, <3>1, Zenon
        <3>2. CASE Waits(c.name)' /\ \E i \in DOMAIN metrics' : metrics'[i].gauge = c
            BY <3>2
        <3> QED
            BY <2>2, <3>1, <3>2, OtherNamesShown, Zenon
    <2> QED
        BY <2>1, <2>2
<1>11. \A k \in DOMAIN reload.cfg.metrics :
        (k < reload'.next /\ Wanted(reload.cfg.metrics[k]) /\ reload.cfg.metrics[k].name \in Steady) =>
            \E j \in DOMAIN longer : longer[j].spec = reload.cfg.metrics[k]
    <2> TAKE k \in DOMAIN reload.cfg.metrics
    <2> HAVE k < reload'.next /\ Wanted(reload.cfg.metrics[k]) /\ reload.cfg.metrics[k].name \in Steady
    <2>1. CASE reload.cfg.metrics[k] = Metric
        BY <1>7, <2>1, Zenon
    <2>2. CASE \E j \in DOMAIN reload.updated : reload.updated[j].spec = reload.cfg.metrics[k]
        BY <1>7, <2>2, Zenon
    <2> QED
        BY <2>1, <2>2, OtherNamesShown, Zenon
<1>12. \A i \in DOMAIN metrics' :
        (metrics'[i].spec.name \in Steady /\ Waits(metrics[i].spec.name)') => Shows(metrics[i])'
    BY OtherNamesShown, Zenon
<1> QED
    <2>1. ShownAfter(longer)
        BY <1>9, <1>10, <1>11, <1>12, Zenon DEF ShownAfter
    <2> QED
        BY <1>3, <1>6, <2>1, ShownAfterIsPart

LEMMA DisableShows ==
    ASSUME Typing, PartShown, DisableMetric
    PROVE  PartShown'
PROOF
<1>1. AtMetric /\ MetricStep
    BY DisableMetricStep, Zenon DEF DisableMetric
<1>2. Advance(<<>>) /\ ~Metric.enabled
    BY Zenon DEF DisableMetric
<1>3. PICK i \in Existing : exposed' = Unregistered(exposed, {metrics[i].gauge})
    BY Zenon DEF DisableMetric
<1>4. ASSUME Metric.name \in Steady, NEW c \in exposed', c.name = Metric.name PROVE FALSE
    <2>1. c \in exposed /\ ~Same(c, metrics[i].gauge)
        BY <1>3 DEF Unregistered, Has
    <2>2. PICK k \in Existing : metrics[k].gauge = c
        BY <1>1, <1>4, <2>1, MetricShown, Zenon
    <2>3. k = i
        BY <1>1, ExistingFacts
    <2> QED
        BY <2>1, <2>2, <2>3 DEF Same
<1> QED
    BY <1>1, <1>2, <1>4, WithoutHolderShown, Zenon DEF Wanted

(* Its holder would be disabled, which those of shown gauges are not. *)
LEMMA EnableShows ==
    ASSUME Typing, PartShown, AtMetric, MetricStep, NEW i \in Existing,
           ~metrics[i].spec.enabled, NEW holders, Advance(holders),
           (holders = <<>>) \/ \E h \in Holders : h.spec.name = Metric.name /\ holders = <<h>>
    PROVE  PartShown'
PROOF
<1>1. Metric.name \notin Steady
    BY MetricShown, Zenon DEF Shows, Wanted
<1>2. CASE holders = <<>>
    BY <1>1, <1>2, WithoutHolderShown, Zenon
<1>3. ASSUME NEW h \in Holders, h.spec.name = Metric.name, holders = <<h>>
      PROVE  PartShown'
    BY <1>1, <1>3, WithHolderShown, Zenon
<1> QED
    BY <1>2, <1>3

LEMMA RecreateShows ==
    ASSUME Typing, PartShown, RecreateMetric
    PROVE  PartShown'
PROOF
<1>1. AtMetric /\ MetricStep
    BY RecreateMetricStep, Zenon DEF RecreateMetric
<1> DEFINE c == Collector(Metric)
           holder(i) == IF Metric.type = "gauge" THEN Holder(Metric, c) ELSE metrics[i]
<1>2. PICK i \in Existing :
        /\ Changed(i)
        /\ exposed' = ExposedInstead(metrics[i].gauge, c)
        /\ Advance(<<holder(i)>>)
    BY Zenon DEF RecreateMetric
<1>3. Metric \in Specs /\ HasSpare(Metric)
    BY <1>1, AtMetricFacts
<1>4. /\ c.name = Metric.name /\ c.labels = Metric.labels
      /\ Metric.type = "gauge" => c \in Gauges /\ IsGauge(c)
    BY <1>3, CollectorFacts
<1>5. Metric.name \in Steady => NamesGauge(Metric.name)
    BY <1>1, ExistingFacts
<1>6. CASE Metric.name \notin Steady
    <2>1. holder(i) \in Holders /\ holder(i).spec.name = Metric.name
        <3>1. CASE Metric.type = "gauge"
            BY <1>3, <1>4, <1>5, <3>1, HolderWith
        <3>2. CASE Metric.type # "gauge"
            BY <1>1, <3>2, ExistingFacts
        <3> QED
            BY <3>1, <3>2
    <2> HIDE DEF holder
    <2> QED
        BY <1>1, <1>2, <1>6, <2>1, WithHolderShown, Zenon
<1>7. CASE Metric.name \in Steady
    <2>1. Metric.type = "gauge"
        BY <1>3, <1>5, <1>7, SteadyType
    <2>2. /\ holder(i) \in Holders
          /\ holder(i).spec = Metric
          /\ holder(i).gauge = c
        BY <1>3, <1>4, <1>5, <2>1, HolderWith
    <2>3. Wanted(Metric)
        <3>1. metrics[i].spec.enabled
            BY <1>1, <1>7, MetricShown, Zenon DEF Shows, Wanted
        <3>2. Metric.enabled
            BY <1>2, <3>1, Zenon DEF Changed
        <3> QED
            BY <2>1, <3>2, Zenon DEF Wanted
    <2> DEFINE rest == Unregistered(exposed, {metrics[i].gauge})
    <2>4. exposed' = Unregistered(rest, {c}) \cup {c}
        BY <1>2, <1>4, <2>1, Zenon DEF ExposedInstead
    <2>5. ASSUME NEW d \in exposed', d.name = Metric.name PROVE d = c
        <3>1. CASE d \in rest
            <4>1. d \in exposed /\ ~Same(d, metrics[i].gauge)
                BY <3>1 DEF Unregistered, Has
            <4>2. PICK k \in Existing : metrics[k].gauge = d
                BY <1>1, <1>7, <2>5, <4>1, MetricShown, Zenon
            <4>3. k = i
                BY <1>1, ExistingFacts
            <4> QED
                BY <4>1, <4>2, <4>3 DEF Same
        <3>2. Unregistered(rest, {c}) \subseteq rest
            BY UnregisteredFacts
        <3> QED
            BY <2>4, <3>1, <3>2
    <2>6. c \in exposed'
        BY <2>4
    <2>7. PICK h : h = holder(i)
        OBVIOUS
    <2> HIDE DEF holder, c, rest
    <2>8. h \in Holders /\ h.spec = Metric /\ h.gauge = c /\ Advance(<<h>>)
        BY <1>2, <2>2, <2>7
    <2>9. h.gauge \in exposed' /\ h.gauge.labels = Metric.labels
          /\ (\A d \in exposed' : d.name = Metric.name => d = h.gauge)
        BY <1>4, <2>5, <2>6, <2>8, Zenon
    <2> QED
        BY <1>1, <2>3, <2>8, <2>9, WithHolderShown, Zenon
<1> QED
    BY <1>6, <1>7

LEMMA KeepShows ==
    ASSUME Typing, PartShown, KeepMetric
    PROVE  PartShown'
PROOF
<1>1. AtMetric /\ MetricStep
    BY KeepMetricStep, Zenon DEF KeepMetric
<1>2. PICK i \in Existing :
        /\ metrics[i].spec.enabled = Metric.enabled /\ ~Changed(i)
        /\ Advance(<<Holder(Metric, metrics[i].gauge)>>)
    BY Zenon DEF KeepMetric
<1>3. PICK h : h = Holder(Metric, metrics[i].gauge)
    OBVIOUS
<1>4. h \in Holders /\ h.spec = Metric /\ h.gauge = metrics[i].gauge /\ Advance(<<h>>)
    BY <1>1, <1>2, <1>3, ExistingFacts
<1>5. metrics[i].spec.labels = Metric.labels /\ metrics[i].spec.type = Metric.type
    BY <1>2, Zenon DEF Changed
<1>6. exposed' = exposed
    BY Zenon DEF KeepMetric, registryVars
<1>7. ASSUME Metric.name \in Steady
      PROVE  /\ Wanted(Metric) /\ h.gauge \in exposed' /\ h.gauge.labels = Metric.labels
             /\ \A c \in exposed' : c.name = Metric.name => c = h.gauge
    <2>1. Shows(metrics[i])
        BY <1>1, <1>7, MetricShown, Zenon
    <2>2. metrics[i].spec.enabled /\ metrics[i].spec.type = "gauge"
        BY <2>1, Zenon DEF Shows, Wanted
    <2>3. Wanted(Metric)
        <3>1. Metric.enabled
            BY <1>2, <2>2, Zenon
        <3> QED
            BY <1>5, <2>2, <3>1, Zenon DEF Wanted
    <2>4. \A k \in Existing : k = i
        BY <1>1, ExistingFacts
    <2>5. \A c \in exposed' : c.name = Metric.name => c = h.gauge
        BY <1>1, <1>4, <1>6, <1>7, <2>4, MetricShown, Zenon
    <2>6. h.gauge \in exposed' /\ h.gauge.labels = Metric.labels
        BY <1>4, <1>5, <1>6, <2>1, Zenon DEF Shows
    <2> QED
        BY <2>3, <2>5, <2>6
<1> QED
    BY <1>1, <1>4, <1>7, WithHolderShown, Zenon

LEMMA AddShows ==
    ASSUME Typing, PartShown, AddMetric, healthy'
    PROVE  PartShown'
PROOF
<1>1. AtMetric /\ MetricStep
    BY AddMetricStep, Zenon DEF AddMetric
<1>2. Existing = {}
    BY Zenon DEF AddMetric
<1>3. Metric.name \in Steady => \A c \in exposed : c.name # Metric.name
    BY <1>1, <1>2, MetricShown, Zenon
<1>4. Metric \in Specs /\ HasSpare(Metric)
    BY <1>1, AtMetricFacts
<1> DEFINE c == Collector(Metric)
<1>5. \/ ~Metric.enabled /\ Advance(<<>>) /\ exposed' = exposed
      \/ Metric.type # "gauge" /\ Advance(<<>>) /\ exposed' = exposed
      \/ Fail
      \/ /\ Metric.enabled /\ Metric.type = "gauge"
         /\ exposed' = exposed \cup {c} /\ Advance(<<Holder(Metric, c)>>)
    BY Zenon DEF AddMetric, registryVars
<1>6. ~Fail
    BY DEF Fail
<1>7. CASE (~Metric.enabled \/ Metric.type # "gauge") /\ Advance(<<>>) /\ exposed' = exposed
    BY <1>1, <1>3, <1>7, WithoutHolderShown, Zenon DEF Wanted
<1>8. CASE /\ Metric.enabled /\ Metric.type = "gauge"
           /\ exposed' = exposed \cup {c} /\ Advance(<<Holder(Metric, c)>>)
    <2>1. c \in Gauges /\ c.name = Metric.name /\ c.labels = Metric.labels
        BY <1>4, <1>8, CollectorFacts
    <2>2. Metric.name \in Steady => NamesGauge(Metric.name)
        BY <1>4, <1>8, SteadyType
    <2> HIDE DEF c
    <2>3. PICK h : h = Holder(Metric, c)
        OBVIOUS
    <2>4. h \in Holders /\ h.spec = Metric /\ h.gauge = c
        BY <1>4, <2>1, <2>2, <2>3, HolderWith
    <2>5. Metric.name \in Steady =>
            /\ h.gauge \in exposed' /\ h.gauge.labels = Metric.labels
            /\ \A d \in exposed' : d.name = Metric.name => d = h.gauge
        BY <1>3, <1>8, <2>1, <2>4
    <2>6. Advance(<<h>>) /\ Wanted(Metric)
        BY <1>8, <2>3, Zenon DEF Wanted
    <2> QED
        BY <1>1, <2>4, <2>5, <2>6, WithHolderShown, Zenon
<1> QED
    BY <1>5, <1>6, <1>7, <1>8

LEMMA MetricShows ==
    ASSUME Typing, PartShown, MetricActions, healthy'
    PROVE  PartShown'
PROOF
<1>1. CASE DisableMetric
    BY <1>1, DisableShows
<1>2. CASE EnableRefused
    <2>1. AtMetric /\ MetricStep
        BY <1>2, EnableRefusedStep
    <2>2. PICK i \in Existing : ~metrics[i].spec.enabled
        BY <1>2, Zenon DEF EnableRefused
    <2>3. Advance(<<>>)
        BY <1>2, Zenon DEF EnableRefused
    <2> QED
        BY <2>1, <2>2, <2>3, EnableShows
<1>3. CASE EnableMetric
    <2>1. AtMetric /\ MetricStep
        BY <1>3, EnableMetricStep, Zenon DEF EnableMetric
    <2>2. PICK i \in Existing : ~metrics[i].spec.enabled
        BY <1>3, Zenon DEF EnableMetric
    <2>3. ~Fail
        BY DEF Fail
    <2>4. PICK holders : /\ Advance(holders)
                         /\ \/ holders = <<>>
                            \/ \E h \in Holders : h.spec.name = Metric.name /\ holders = <<h>>
        BY <2>1, <2>3, Zenon DEF MetricStep
    <2> QED
        BY <2>1, <2>2, <2>4, EnableShows
<1>4. CASE RecreateMetric
    BY <1>4, RecreateShows
<1>5. CASE KeepMetric
    BY <1>5, KeepShows
<1>6. CASE AddMetric
    BY <1>6, AddShows
<1>7. CASE RecreateFails \/ AddFails
    BY <1>7 DEF RecreateFails, AddFails, Fail
<1> QED
    BY <1>1, <1>2, <1>3, <1>4, <1>5, <1>6, <1>7, Zenon DEF MetricActions

LEMMA PublishShows ==
    ASSUME Typing, PartShown, Publish
    PROVE  ConfigShown'
PROOF
<1>1. /\ \A k \in DOMAIN reload.cfg.metrics : k < reload.next
      /\ metrics' = reload.updated /\ cfg' = reload.cfg /\ exposed' = exposed
    BY PublishFacts
<1>2. \A name : ~Waits(name)
    BY <1>1, Zenon DEF Waits, Done, NamesOf
<1>3. (\A i \in DOMAIN metrics : metrics[i].spec.name \in Steady =>
            Shows(metrics[i]) /\ metrics[i].spec \in ToSet(cfg.metrics))'
    BY <1>1, Zenon DEF PartShown, Shows
<1>4. (\A c \in exposed : c.name \in Steady =>
            \E i \in DOMAIN metrics : metrics[i].gauge = c)'
    BY <1>1, <1>2, Zenon DEF PartShown
<1>5. \A s \in ToSet(reload.cfg.metrics) : (Wanted(s) /\ s.name \in Steady) =>
            \E i \in DOMAIN reload.updated : reload.updated[i].spec = s
    <2> TAKE s \in ToSet(reload.cfg.metrics)
    <2> HAVE Wanted(s) /\ s.name \in Steady
    <2>1. PICK k \in DOMAIN reload.cfg.metrics : s = reload.cfg.metrics[k]
        BY Zenon DEF ToSet
    <2> QED
        BY <1>1, <2>1, Zenon DEF PartShown
<1>6. (\A s \in ToSet(cfg.metrics) : (Wanted(s) /\ s.name \in Steady) =>
            \E i \in DOMAIN metrics : metrics[i].spec = s)'
    BY <1>1, <1>5, Zenon
<1> QED
    BY <1>3, <1>4, <1>6, Zenon DEF ConfigShown

LEMMA ConnectShows ==
    ASSUME Typing, PartShown, NEW conn \in Connections, Connect(conn)
    PROVE  PartShown'
PROOF
<1>1. /\ reload'.cfg = reload.cfg /\ reload'.next = reload.next
      /\ reload'.updated = reload.updated
      /\ metrics' = metrics /\ exposed' = exposed
    BY ConnectFacts
<1>2. \A name : Waits(name)' <=> Waits(name)
    BY <1>1, Zenon DEF Waits, Done
<1>3. ShownAfter(reload.updated)
    BY <1>1, <1>2, Zenon DEF PartShown, ShownAfter, Shows
<1> QED
    BY <1>1, <1>3, ShownAfterIsPart

LEMMA NextShows == ASSUME Typing, Showing, [Next]_vars PROVE Showing'
PROOF
<1>1. ASSUME NEW new \in Configs, BeginReload(new) PROVE Showing'
    <2>1. reload' # NoReload /\ healthy' = healthy
        BY <1>1, BeginReloadFacts
    <2> QED
        BY <1>1, <2>1, BeginReloadShows, Zenon DEF Showing
<1>2. ASSUME NEW conn \in Connections, Connect(conn) PROVE Showing'
    <2>1. reload # NoReload /\ reload' # NoReload /\ healthy' = healthy
        BY <1>2, ConnectFacts
    <2> QED
        BY <1>2, <2>1, ConnectShows, Zenon DEF Showing
<1>3. ASSUME NEW conn \in Connections, ConnectFails(conn) PROVE Showing'
    <2>1. healthy' = FALSE
        BY <1>3, ConnectFailsFacts
    <2> QED
        BY <2>1, Zenon DEF Showing
<1>4. CASE MetricActions
    <2>1. AtMetric /\ MetricStep /\ reload # NoReload
        BY <1>4, MetricActionsStep, AtMetricFacts
    <2>2. CASE Fail
        BY <2>2, Zenon DEF Showing, Fail
    <2>3. ASSUME NEW holders, Advance(holders) PROVE Showing'
        <3>1. reload' # NoReload
            BY <2>1, <2>3, AdvanceFacts
        <3>2. healthy' = healthy
            BY <2>3, Zenon DEF Advance
        <3>3. healthy' => PartShown'
            BY <1>4, <2>1, <3>2, MetricShows, Zenon DEF Showing
        <3> QED
            BY <3>1, <3>3, Zenon DEF Showing
    <2>4. Fail \/ \E holders : Advance(holders)
        BY <2>1, Zenon DEF MetricStep
    <2> QED
        BY <2>2, <2>3, <2>4
<1>5. CASE Publish
    <2>1. reload # NoReload /\ reload' = NoReload /\ healthy' = healthy
        BY <1>5, PublishFacts
    <2> QED
        BY <1>5, <2>1, PublishShows, Zenon DEF Showing
<1>6. CASE /\ cfg' = cfg /\ metrics' = metrics /\ exposed' = exposed
           /\ reload' = reload /\ healthy' = healthy
    <2>1. ConfigShown => ConfigShown'
        BY <1>6, Zenon DEF ConfigShown, Shows
    <2>2. \A name : Waits(name)' <=> Waits(name)
        BY <1>6, Zenon DEF Waits, Done
    <2>3. PartShown => ShownAfter(reload.updated)
        BY <1>6, <2>2, Zenon DEF PartShown, ShownAfter, Shows
    <2>4. PartShown => PartShown'
        BY <1>6, <2>3, ShownAfterIsPart
    <2> QED
        BY <1>6, <2>1, <2>4, Zenon DEF Showing
<1>7. (Cycle \/ UNCHANGED vars) =>
            /\ cfg' = cfg /\ metrics' = metrics /\ exposed' = exposed
            /\ reload' = reload /\ healthy' = healthy
    BY CycleFacts, Zenon DEF vars
<1> QED
    BY <1>1, <1>2, <1>3, <1>4, <1>5, <1>6, <1>7, Zenon DEF Next, Reload, MetricActions

LEMMA ShowingHolds == Spec => []Showing
PROOF
<1>1. Init => Showing
    BY InitShows
<1>2. (Typing /\ Showing /\ [Next]_vars) => Showing'
    BY NextShows
<1> QED
    BY <1>1, <1>2, TypingHolds, PTL DEF Spec

(* While no reload fails, /metrics shows one gauge for each enabled gauge   *)
(* of the configuration, the object that its holder lets the cycles set,    *)
(* after any sequence of reloads between any configurations; metrics whose  *)
(* type changes excepted.                                                   *)
THEOREM MetricsAreTheConfigured == Spec => []ExposedIsConfigured
PROOF
<1>1. (Typing /\ Showing) => ExposedIsConfigured
    BY ShowingIsConfigured
<1> QED
    BY <1>1, TypingHolds, ShowingHolds, PTL
===============================================================================
