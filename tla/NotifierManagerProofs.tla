------------------------ MODULE NotifierManagerProofs ------------------------
(***************************************************************************)
(* Theorems about NotifierManager, for any rules, groups, capacity and      *)
(* waiting times: types, and no alert lost.                                 *)
(***************************************************************************)
EXTENDS NotifierManager, SequenceTheorems, FiniteSetTheorems, TLAPS

(* The parameters the provers need. *)
LEMMA Parameters ==
    /\ GroupOf \in [Rules -> Groups]
    /\ Capacity \in Nat \ {0}
    /\ GroupWait \in Nat
    /\ GroupInterval \in Nat \ {0}
    /\ RepeatInterval \in Nat
BY NotifierAssumption, Zenon DEF NotifierAssumption

(* The numbers among them. *)
LEMMA Numbers ==
    /\ GroupWait \in Nat
    /\ GroupInterval \in Nat /\ GroupInterval > 0
    /\ RepeatInterval \in Nat
<1>1. GroupInterval \in Nat /\ GroupInterval # 0
  BY Parameters, Zenon
<1> QED
  BY <1>1, Parameters

LEMMA ZeroInRepeat == 0 \in 0 .. RepeatInterval
BY Numbers

-------------------------------------------------------------------------------
(* The alerts of a group in a channel. *)

Places(chan, g) == { i \in DOMAIN chan : GroupOf[chan[i]] = g }

LEMMA PlacesFinite ==
    ASSUME NEW chan \in Seq(Rules), NEW g
    PROVE  IsFiniteSet(Places(chan, g)) /\ Cardinality(Places(chan, g)) \in Nat
<1>1. DOMAIN chan = 1 .. Len(chan) /\ Len(chan) \in Nat
  BY LenProperties
<1>2. IsFiniteSet(1 .. Len(chan))
  BY <1>1, FS_Interval
<1>3. IsFiniteSet(Places(chan, g))
  BY <1>1, <1>2, FS_Subset DEF Places
<1> QED
  BY <1>3, FS_CardinalityType

(* An alert that enters the channel counts for its own group only. *)
LEMMA PlacesOfAppend ==
    ASSUME NEW chan \in Seq(Rules), NEW rule \in Rules, NEW g
    PROVE  Cardinality(Places(Append(chan, rule), g)) =
              Cardinality(Places(chan, g)) + (IF GroupOf[rule] = g THEN 1 ELSE 0)
<1> DEFINE longer == Append(chan, rule)
           n == Len(chan) + 1
<1>1. /\ DOMAIN chan = 1 .. Len(chan) /\ Len(chan) \in Nat
      /\ DOMAIN longer = 1 .. n
      /\ \A i \in 1 .. Len(chan) : longer[i] = chan[i]
      /\ longer[n] = rule
  BY LenProperties, AppendProperties
<1> HIDE DEF longer
<1>2. n \notin Places(chan, g)
  BY <1>1 DEF Places
<1>3. Places(longer, g) = IF GroupOf[rule] = g THEN Places(chan, g) \cup {n}
                          ELSE Places(chan, g)
  BY <1>1 DEF Places
<1>4. Cardinality(Places(chan, g) \cup {n}) = Cardinality(Places(chan, g)) + 1
  BY <1>2, PlacesFinite, FS_AddElement
<1> QED
  BY <1>3, <1>4, PlacesFinite DEF longer

(* An alert that leaves the channel did count for its own group only. *)
LEMMA PlacesOfTail ==
    ASSUME NEW chan \in Seq(Rules), chan # <<>>, NEW g
    PROVE  Cardinality(Places(chan, g)) =
              Cardinality(Places(Tail(chan), g)) + (IF GroupOf[Head(chan)] = g THEN 1 ELSE 0)
<1> DEFINE rest == Tail(chan)
           later == Places(chan, g) \ {1}
           shift == [i \in Places(rest, g) |-> i + 1]
<1>1. /\ rest \in Seq(Rules)
      /\ DOMAIN chan = 1 .. Len(chan) /\ Len(chan) \in Nat \ {0}
      /\ DOMAIN rest = 1 .. Len(chan) - 1
      /\ \A i \in 1 .. Len(chan) - 1 : rest[i] = chan[i + 1]
      /\ chan[1] = Head(chan)
  BY LenProperties, HeadTailProperties, EmptySeq
<1> HIDE DEF rest
<1>2. shift \in [Places(rest, g) -> later]
  BY <1>1 DEF Places
<1>3. \A i, j \in Places(rest, g) : shift[i] = shift[j] => i = j
  BY <1>1 DEF Places
<1>4. ASSUME NEW k \in later
      PROVE  \E i \in Places(rest, g) : shift[i] = k
  <2>1. k \in 2 .. Len(chan) /\ GroupOf[chan[k]] = g
    BY <1>1, <1>4 DEF Places
  <2>2. k - 1 \in Places(rest, g) /\ (k - 1) + 1 = k
    BY <1>1, <2>1 DEF Places
  <2> QED
    BY <2>2
<1> HIDE DEF shift, later
<1>5. ExistsBijection(Places(rest, g), later)
  BY <1>2, <1>3, <1>4 DEF ExistsBijection, Bijection, Injection, Surjection, IsInjective
<1>6. Cardinality(later) = Cardinality(Places(rest, g))
  BY <1>1, <1>5, PlacesFinite, FS_Bijection
<1>7. 1 \in Places(chan, g) <=> GroupOf[Head(chan)] = g
  BY <1>1 DEF Places
<1>8. Cardinality(later) = IF 1 \in Places(chan, g) THEN Cardinality(Places(chan, g)) - 1
                           ELSE Cardinality(Places(chan, g))
  BY PlacesFinite, FS_RemoveElement DEF later
<1>9. Cardinality(Places(chan, g)) \in Nat /\ Cardinality(Places(rest, g)) \in Nat
  BY <1>1, PlacesFinite
<1> QED
  BY <1>6, <1>7, <1>8, <1>9 DEF rest

-------------------------------------------------------------------------------
(* Types. *)

Callers == {Idle} \cup [at : {"sending", "clearing", "resolving"}, rule : Rules]

(* Groups that are known, and the copies a check works on. *)
GroupsOK(list) == DOMAIN list \subseteq Groups /\ \A g \in DOMAIN list : list[g] \in Group

LEMMA LeastNat ==
    ASSUME NEW a \in Nat, NEW b \in Nat
    PROVE  Least(a, b) \in Nat /\ Least(a, b) \in 0 .. b
BY DEF Least

LEMMA NewGroupOK == NewGroup \in Group
BY DEF NewGroup, Group

LEMMA GroupsWithOK ==
    ASSUME GroupsOK(groups), NEW g \in Groups
    PROVE  /\ GroupsOK(GroupsWith(g))
           /\ DOMAIN GroupsWith(g) = DOMAIN groups \cup {g}
<1>1. CASE g \in DOMAIN groups
  <2>1. [groups[g] EXCEPT !.count = @ + 1] \in Group
    BY <1>1 DEF GroupsOK, Group
  <2> QED
    BY <1>1, <2>1 DEF GroupsWith, GroupsOK
<1>2. CASE g \notin DOMAIN groups
  BY <1>2, NewGroupOK DEF GroupsWith, GroupsOK
<1> QED
  BY <1>1, <1>2

(* The parts of TypeOK, as the steps change them. *)
SenderOK ==
    /\ sender \in Callers
    /\ sent \in [Groups -> Nat]

ChannelOK == alertChan \in Seq(Rules) /\ Len(alertChan) <= Capacity

LoopOK ==
    /\ GroupsOK(groups)
    /\ alertHistory \subseteq Rules
    /\ loop \in {"select", "checking", "stopped"}
    /\ GroupsOK(due)
    /\ DOMAIN due \subseteq DOMAIN groups

TimeOK ==
    /\ sinceCheck \in 0 .. RepeatInterval
    /\ clock \in 0 .. GroupInterval - 1
    /\ ticked \in BOOLEAN

TypeInv == SenderOK /\ ChannelOK /\ LoopOK /\ TimeOK /\ stopped \in BOOLEAN

LEMMA TypeInvIsTypeOK == TypeInv <=> TypeOK
BY DEF TypeInv, TypeOK, SenderOK, ChannelOK, LoopOK, TimeOK, GroupsOK, Callers

LEMMA TypeInit == Init => TypeInv
<1> SUFFICES ASSUME Init PROVE TypeInv
  OBVIOUS
<1>1. SenderOK
  BY DEF Init, SenderOK, Callers
<1>2. ChannelOK
  BY Parameters, EmptySeq DEF Init, ChannelOK
<1>3. LoopOK
  <2>1. DOMAIN groups = {} /\ DOMAIN due = {}
    BY DEF Init
  <2> QED
    BY <2>1 DEF Init, LoopOK, GroupsOK
<1>4. TimeOK
  <2>1. sinceCheck = 0 /\ clock = 0 /\ ticked = FALSE
    BY DEF Init
  <2>2. 0 \in 0 .. RepeatInterval /\ 0 \in 0 .. GroupInterval - 1
    BY Numbers
  <2> QED
    BY <2>1, <2>2, Zenon DEF TimeOK
<1> QED
  BY <1>1, <1>2, <1>3, <1>4 DEF Init, TypeInv

(* SendAlert gives an alert up only after it was counted: types alone do    *)
(* not say that the count can go down.                                      *)
LEMMA TypeSender ==
    ASSUME TypeInv, NoAlertLost,
           \/ \E rule \in Rules : Fire(rule) \/ Resolve(rule)
           \/ SenderStep
    PROVE  TypeInv'
<1> USE DEF TypeInv
<1>1. ASSUME NEW rule \in Rules, Fire(rule) \/ Resolve(rule)
      PROVE  TypeInv'
  <2>1. GroupOf[rule] \in Groups
    BY Parameters
  <2>2. SenderOK'
    BY <1>1, <2>1 DEF Fire, Resolve, Call, SenderOK, Callers
  <2> QED
    BY <1>1, <2>2 DEF Fire, Resolve, Call, ChannelOK, LoopOK, TimeOK, timeVars, GroupsOK
<1>2. CASE Enqueue
  <2>1. sender.rule \in Rules
    BY <1>2 DEF Enqueue, SenderOK, Callers, Idle
  <2>2. ChannelOK'
    BY <1>2, <2>1, AppendProperties, Parameters DEF Enqueue, ChannelOK
  <2> QED
    BY <1>2, <2>2 DEF Enqueue, SenderOK, Callers, LoopOK, TimeOK, timeVars, GroupsOK
<1>3. CASE Refuse
  <2> DEFINE g == GroupOf[sender.rule]
  <2>1. sender.at = "sending" /\ sender.rule \in Rules
    BY <1>3 DEF Refuse, SenderOK, Callers, Idle
  <2>2. g \in Groups
    BY <2>1, Parameters
  <2>3. Cardinality(InChannel(g)) \in Nat
    BY PlacesFinite DEF InChannel, Places, ChannelOK
  <2>4. InGroup(g) \in Nat
    BY DEF InGroup, LoopOK, GroupsOK, Group
  <2>5. BeingSent(g) = 1
    BY <2>1 DEF BeingSent
  <2>6. sent[g] = 1 + Cardinality(InChannel(g)) + InGroup(g)
    BY <2>2, <2>5 DEF NoAlertLost
  <2>7. sent[g] - 1 \in Nat
    BY <2>3, <2>4, <2>6
  <2>8. SenderOK'
    BY <1>3, <2>2, <2>7 DEF Refuse, SenderOK, Callers
  <2> QED
    BY <1>3, <2>8 DEF Refuse, ChannelOK, LoopOK, TimeOK, timeVars, GroupsOK
<1>4. CASE Clear
  <2>1. SenderOK' /\ alertHistory' \subseteq Rules
    BY <1>4 DEF Clear, SenderOK, Callers, Idle, LoopOK
  <2> QED
    BY <1>4, <2>1 DEF Clear, ChannelOK, LoopOK, TimeOK, timeVars, GroupsOK
<1>5. CASE Resolved
  BY <1>5 DEF Resolved, SenderOK, Callers, ChannelOK, LoopOK, TimeOK, timeVars, GroupsOK
<1> QED
  BY <1>1, <1>2, <1>3, <1>4, <1>5 DEF SenderStep

LEMMA TypeLoop == ASSUME TypeInv, LoopStep PROVE TypeInv'
<1> USE DEF TypeInv
<1>1. CASE Receive
  <2> DEFINE rule == Head(alertChan)
  <2>1. rule \in Rules /\ ChannelOK'
    BY <1>1, HeadTailProperties, LenProperties, Parameters DEF Receive, ChannelOK
  <2>2. GroupOf[rule] \in Groups
    BY <2>1, Parameters
  <2>3. GroupsOK(groups') /\ DOMAIN groups \subseteq DOMAIN groups'
    BY <1>1, <2>2, GroupsWithOK DEF Receive, LoopOK
  <2>4. alertHistory' \subseteq Rules
    BY <1>1, <2>1 DEF Receive, LoopOK
  <2>5. LoopOK'
    BY <1>1, <2>3, <2>4 DEF Receive, LoopOK, GroupsOK
  <2> QED
    BY <1>1, <2>1, <2>5 DEF Receive, SenderOK, TimeOK, timeVars
<1>2. CASE Check
  <2>1. sinceCheck' = 0 /\ clock' = clock /\ ticked' = FALSE
    BY <1>2 DEF Check
  <2>2. TimeOK'
    BY <2>1, ZeroInRepeat, Zenon DEF TimeOK
  <2>3. LoopOK'
    BY <1>2 DEF Check, LoopOK, GroupsOK
  <2> QED
    BY <1>2, <2>2, <2>3 DEF Check, SenderOK, ChannelOK
<1>3. ASSUME NEW g \in Groups, Notify(g)
      PROVE  TypeInv'
  <2> DEFINE since == Least(sinceCheck, RepeatInterval)
             new == [groups[g] EXCEPT !.notified = TRUE, !.since = since,
                                      !.covered = groups[g].count]
  <2>1. g \in DOMAIN groups /\ groups[g] \in Group
    BY <1>3 DEF Notify, LoopOK, GroupsOK
  <2>2. since \in Nat
    BY Parameters, LeastNat DEF TimeOK
  <2> HIDE DEF since
  <2>3. new \in Group
    BY <2>1, <2>2 DEF Group
  <2>4. groups' = [groups EXCEPT ![g] = new]
    BY <1>3 DEF Notify, since
  <2> HIDE DEF new
  <2>5. GroupsOK(groups') /\ DOMAIN groups' = DOMAIN groups
    BY <2>3, <2>4 DEF LoopOK, GroupsOK
  <2>6. LoopOK'
    BY <1>3, <2>5 DEF Notify, DueWithout, LoopOK, GroupsOK
  <2> QED
    BY <1>3, <2>6 DEF Notify, SenderOK, ChannelOK, TimeOK, timeVars
<1>4. ASSUME NEW g \in Groups, Pass(g)
      PROVE  TypeInv'
  BY <1>4 DEF Pass, DueWithout, SenderOK, ChannelOK, LoopOK, GroupsOK, TimeOK, timeVars
<1>5. CASE EndCheck
  BY <1>5, Numbers DEF EndCheck, SenderOK, ChannelOK, LoopOK, GroupsOK, TimeOK
<1>6. CASE Leave
  BY <1>6 DEF Leave, SenderOK, ChannelOK, LoopOK, GroupsOK, TimeOK, timeVars
<1> QED
  BY <1>1, <1>2, <1>3, <1>4, <1>5, <1>6 DEF LoopStep

LEMMA TypeTick == ASSUME TypeInv, Tick PROVE TypeInv'
<1> USE DEF TypeInv
<1>1. clock' \in 0 .. GroupInterval - 1
  <2>1. clock + 1 \in Nat /\ GroupInterval \in Nat \ {0}
    BY Numbers DEF TimeOK
  <2>2. clock' = (clock + 1) % GroupInterval
    BY DEF Tick
  <2> QED
    BY <2>1, <2>2
<1>2. sinceCheck' \in 0 .. RepeatInterval
  <2>1. sinceCheck + 1 \in Nat
    BY Numbers DEF TimeOK
  <2>2. Least(sinceCheck + 1, RepeatInterval) \in 0 .. RepeatInterval
    BY <2>1, Numbers, LeastNat
  <2>3. sinceCheck' = IF loop = "checking" THEN Least(sinceCheck + 1, RepeatInterval)
                      ELSE 0
    BY DEF Tick
  <2> QED
    BY <2>2, <2>3, ZeroInRepeat, Zenon
<1>3. GroupsOK(groups') /\ DOMAIN groups' = DOMAIN groups
  <2>1. DOMAIN groups' = DOMAIN groups
    BY DEF Tick
  <2>2. ASSUME NEW g \in DOMAIN groups
        PROVE  groups'[g] \in Group
    <3> DEFINE age == Least(groups[g].age + 1, GroupWait)
               since == IF groups[g].notified
                        THEN Least(groups[g].since + 1, RepeatInterval) ELSE 0
    <3>1. groups[g] \in Group
      BY DEF LoopOK, GroupsOK
    <3>2. age \in Nat /\ since \in Nat
      <4>1. groups[g].age + 1 \in Nat /\ groups[g].since + 1 \in Nat
        BY <3>1 DEF Group
      <4> QED
        BY <4>1, Numbers, LeastNat
    <3>3. groups'[g] = [groups[g] EXCEPT !.age = age, !.since = since]
      BY DEF Tick
    <3> HIDE DEF age, since
    <3> QED
      BY <3>1, <3>2, <3>3 DEF Group
  <2> QED
    BY <2>1, <2>2 DEF LoopOK, GroupsOK
<1>4. LoopOK'
  BY <1>3 DEF Tick, LoopOK, GroupsOK
<1>5. TimeOK'
  BY <1>1, <1>2 DEF Tick, TimeOK
<1> QED
  BY <1>4, <1>5 DEF Tick, SenderOK, ChannelOK

LEMMA TypeOthers == ASSUME TypeInv, Stop \/ UNCHANGED vars PROVE TypeInv'
BY DEF TypeInv, Stop, vars, SenderOK, ChannelOK, LoopOK, GroupsOK, TimeOK, timeVars

-------------------------------------------------------------------------------
(* No alert lost. *)

(* The sum that NoAlertLost compares with the alerts sent. *)
Held(g) == BeingSent(g) + Cardinality(InChannel(g)) + InGroup(g)

LEMMA NoAlertLostIsHeld == NoAlertLost <=> \A g \in Groups : sent[g] = Held(g)
BY DEF NoAlertLost, Held

(* Its three parts are numbers. *)
LEMMA PartsAreNumbers ==
    ASSUME TypeInv, NEW g \in Groups
    PROVE  BeingSent(g) \in Nat /\ Cardinality(InChannel(g)) \in Nat /\ InGroup(g) \in Nat
<1>1. Cardinality(InChannel(g)) \in Nat
  BY PlacesFinite DEF InChannel, Places, TypeInv, ChannelOK
<1>2. InGroup(g) \in Nat
  BY DEF InGroup, TypeInv, LoopOK, GroupsOK, Group
<1>3. BeingSent(g) \in Nat
  BY DEF BeingSent
<1> QED
  BY <1>1, <1>2, <1>3

LEMMA LostInit == Init => NoAlertLost
<1> SUFFICES ASSUME Init, NEW g \in Groups
             PROVE  sent[g] = Held(g)
  BY NoAlertLostIsHeld
<1>1. sent[g] = 0 /\ BeingSent(g) = 0
  BY DEF Init, BeingSent, Idle
<1>2. InChannel(g) = {}
  BY DEF Init, InChannel
<1>3. InGroup(g) = 0
  BY DEF Init, InGroup
<1> QED
  BY <1>1, <1>2, <1>3, FS_EmptySet DEF Held

(* Steps that neither send nor move an alert. *)
LEMMA LostUnmoved ==
    ASSUME NoAlertLost, UNCHANGED <<sent, alertChan>>,
           \A g \in Groups : BeingSent(g)' = BeingSent(g) /\ InGroup(g)' = InGroup(g)
    PROVE  NoAlertLost'
BY DEF NoAlertLost, InChannel

LEMMA LostSender ==
    ASSUME TypeInv, NoAlertLost,
           \/ \E rule \in Rules : Fire(rule) \/ Resolve(rule)
           \/ SenderStep
    PROVE  NoAlertLost'
<1>1. ASSUME NEW rule \in Rules, Fire(rule)
      PROVE  NoAlertLost'
  <2> SUFFICES ASSUME NEW g \in Groups
               PROVE  sent'[g] = Held(g)'
    BY DEF NoAlertLost, Held
  <2>1. sent'[g] = sent[g] + (IF GroupOf[rule] = g THEN 1 ELSE 0)
    BY <1>1 DEF Fire, TypeInv, SenderOK
  <2>2. BeingSent(g) = 0 /\ BeingSent(g)' = IF GroupOf[rule] = g THEN 1 ELSE 0
    BY <1>1 DEF Fire, Call, BeingSent, Idle
  <2>3. InChannel(g)' = InChannel(g) /\ InGroup(g)' = InGroup(g)
    BY <1>1 DEF Fire, Call, InChannel, InGroup
  <2>4. sent[g] = Held(g)
    BY DEF NoAlertLost, Held
  <2> QED
    BY <2>1, <2>2, <2>3, <2>4, PartsAreNumbers DEF Held
<1>2. ASSUME NEW rule \in Rules, Resolve(rule)
      PROVE  NoAlertLost'
  <2>1. \A g \in Groups : BeingSent(g)' = BeingSent(g) /\ InGroup(g)' = InGroup(g)
    BY <1>2 DEF Resolve, Call, BeingSent, InGroup, Idle
  <2> QED
    BY <1>2, <2>1, LostUnmoved DEF Resolve, Call
<1>3. CASE Enqueue
  <2> SUFFICES ASSUME NEW g \in Groups
               PROVE  sent'[g] = Held(g)'
    BY DEF NoAlertLost, Held
  <2> DEFINE mine == IF GroupOf[sender.rule] = g THEN 1 ELSE 0
  <2>1. sender.rule \in Rules /\ alertChan \in Seq(Rules)
    BY <1>3 DEF Enqueue, TypeInv, SenderOK, ChannelOK, Callers, Idle
  <2>2. BeingSent(g) = mine /\ BeingSent(g)' = 0
    BY <1>3 DEF Enqueue, BeingSent, Idle
  <2>3. Cardinality(InChannel(g))' = Cardinality(InChannel(g)) + mine
    <3>1. InChannel(g) = Places(alertChan, g)
      BY DEF InChannel, Places
    <3>2. InChannel(g)' = Places(Append(alertChan, sender.rule), g)
      BY <1>3 DEF Enqueue, InChannel, Places
    <3> QED
      BY <2>1, <3>1, <3>2, PlacesOfAppend
  <2>4. InGroup(g)' = InGroup(g) /\ sent'[g] = sent[g]
    BY <1>3 DEF Enqueue, InGroup
  <2>5. sent[g] = Held(g)
    BY DEF NoAlertLost, Held
  <2> QED
    BY <2>2, <2>3, <2>4, <2>5, PartsAreNumbers DEF Held
<1>4. CASE Refuse
  <2> SUFFICES ASSUME NEW g \in Groups
               PROVE  sent'[g] = Held(g)'
    BY DEF NoAlertLost, Held
  <2> DEFINE mine == IF GroupOf[sender.rule] = g THEN 1 ELSE 0
  <2>1. BeingSent(g) = mine /\ BeingSent(g)' = 0
    BY <1>4 DEF Refuse, BeingSent, Idle
  <2>2. sent'[g] = sent[g] - mine
    BY <1>4 DEF Refuse, TypeInv, SenderOK
  <2>3. InChannel(g)' = InChannel(g) /\ InGroup(g)' = InGroup(g)
    BY <1>4 DEF Refuse, InChannel, InGroup
  <2>4. sent[g] = Held(g)
    BY DEF NoAlertLost, Held
  <2> QED
    BY <2>1, <2>2, <2>3, <2>4, PartsAreNumbers DEF Held
<1>5. CASE Clear \/ Resolved
  <2>1. sender.at \in {"clearing", "resolving"} /\ sender'.at \in {"resolving", "idle"}
    BY <1>5 DEF Clear, Resolved, TypeInv, SenderOK, Callers, Idle
  <2>2. \A g \in Groups : BeingSent(g)' = BeingSent(g) /\ InGroup(g)' = InGroup(g)
    BY <1>5, <2>1 DEF Clear, Resolved, BeingSent, InGroup
  <2> QED
    BY <1>5, <2>2, LostUnmoved DEF Clear, Resolved
<1> QED
  BY <1>1, <1>2, <1>3, <1>4, <1>5 DEF SenderStep

LEMMA LostLoop ==
    ASSUME TypeInv, NoAlertLost, LoopStep \/ Stop \/ Tick \/ UNCHANGED vars
    PROVE  NoAlertLost'
<1>1. CASE Receive
  <2> SUFFICES ASSUME NEW g \in Groups
               PROVE  sent'[g] = Held(g)'
    BY DEF NoAlertLost, Held
  <2> DEFINE rule == Head(alertChan)
             mine == IF GroupOf[rule] = g THEN 1 ELSE 0
  <2>1. alertChan \in Seq(Rules) /\ alertChan # <<>> /\ rule \in Rules
    BY <1>1, HeadTailProperties DEF Receive, TypeInv, ChannelOK
  <2>2. GroupOf[rule] \in Groups
    BY <2>1, Parameters
  <2>3. Cardinality(InChannel(g)) = Cardinality(InChannel(g))' + mine
    <3>1. InChannel(g) = Places(alertChan, g)
      BY DEF InChannel, Places
    <3>2. InChannel(g)' = Places(Tail(alertChan), g)
      BY <1>1 DEF Receive, InChannel, Places
    <3> QED
      BY <2>1, <3>1, <3>2, PlacesOfTail
  <2>4. Cardinality(InChannel(g))' \in Nat
    <3>1. InChannel(g)' = Places(Tail(alertChan), g)
      BY <1>1 DEF Receive, InChannel, Places
    <3> QED
      BY <2>1, <3>1, HeadTailProperties, PlacesFinite
  <2>5. InGroup(g)' = InGroup(g) + mine
    <3>1. groups' = GroupsWith(GroupOf[rule]) /\ GroupsOK(groups)
      BY <1>1 DEF Receive, TypeInv, LoopOK
    <3> HIDE DEF rule
    <3>2. CASE GroupOf[rule] \in DOMAIN groups
      BY <3>1, <3>2 DEF GroupsWith, InGroup, GroupsOK, Group
    <3>3. CASE GroupOf[rule] \notin DOMAIN groups
      BY <3>1, <3>3 DEF GroupsWith, InGroup, NewGroup, GroupsOK, Group
    <3> QED
      BY <3>2, <3>3
  <2>6. BeingSent(g)' = BeingSent(g) /\ sent'[g] = sent[g]
    BY <1>1 DEF Receive, BeingSent
  <2>7. sent[g] = Held(g)
    BY DEF NoAlertLost, Held
  <2> HIDE DEF mine
  <2>8. mine \in Nat
    BY DEF mine
  <2> QED
    BY <2>3, <2>4, <2>5, <2>6, <2>7, <2>8, PartsAreNumbers DEF Held
<1>2. ASSUME UNCHANGED <<sender, sent, alertChan>>,
             \A g \in Groups : InGroup(g)' = InGroup(g)
      PROVE  NoAlertLost'
  BY <1>2, LostUnmoved DEF BeingSent
<1>3. ASSUME NEW k \in Groups, Notify(k)
      PROVE  NoAlertLost'
  <2>1. \A g \in Groups : InGroup(g)' = InGroup(g)
    BY <1>3 DEF Notify, InGroup, TypeInv, LoopOK, GroupsOK, Group
  <2> QED
    BY <1>2, <1>3, <2>1 DEF Notify
<1>4. CASE Tick
  <2>1. \A g \in Groups : InGroup(g)' = InGroup(g)
    BY <1>4 DEF Tick, InGroup, TypeInv, LoopOK, GroupsOK, Group
  <2> QED
    BY <1>2, <1>4, <2>1 DEF Tick
<1>5. CASE \/ Check \/ EndCheck \/ Leave \/ Stop \/ UNCHANGED vars
           \/ \E k \in Groups : Pass(k)
  <2>1. UNCHANGED <<sender, sent, alertChan, groups>>
    BY <1>5 DEF Check, EndCheck, Leave, Stop, Pass, vars
  <2> QED
    BY <1>2, <2>1 DEF InGroup
<1> QED
  BY <1>1, <1>3, <1>4, <1>5 DEF LoopStep

-------------------------------------------------------------------------------
(* Types and the count of alerts hold together: SendAlert's last way out    *)
(* takes an alert back, which is a number again only if it was counted.     *)
LEMMA Inductive == Spec => [](TypeInv /\ NoAlertLost)
<1>1. TypeInv /\ NoAlertLost /\ [Next]_vars => (TypeInv /\ NoAlertLost)'
  <2> SUFFICES ASSUME TypeInv, NoAlertLost, [Next]_vars
               PROVE  TypeInv' /\ NoAlertLost'
    OBVIOUS
  <2>1. \/ \E rule \in Rules : Fire(rule) \/ Resolve(rule)
        \/ SenderStep
        \/ LoopStep \/ Stop \/ Tick \/ UNCHANGED vars
    BY DEF Next
  <2> QED
    BY <2>1, TypeSender, TypeLoop, TypeTick, TypeOthers, LostSender, LostLoop
<1> QED
  BY <1>1, TypeInit, LostInit, PTL DEF Spec

(* The manager's variables keep their types; the channel is never over its  *)
(* capacity.                                                                *)
THEOREM TypeCorrect == Spec => []TypeOK
BY Inductive, TypeInvIsTypeOK, PTL

(* However the evaluator, the loop, its checks and a stop interleave, each  *)
(* alert that SendAlert took is in the channel or in its group, once.       *)
THEOREM AlertsAreKept == Spec => []NoAlertLost
BY Inductive, PTL

===============================================================================
