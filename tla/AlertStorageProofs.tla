-------------------------- MODULE AlertStorageProofs --------------------------
(***************************************************************************)
(* Theorems about AlertStorage, for any sets of clients, ids and names.    *)
(***************************************************************************)
EXTENDS AlertStorage, SequenceTheorems, WellFoundedInduction, TLAPS

-------------------------------------------------------------------------------
(* The operators on rule lists. *)

(* An id that occurs in a list has a first position there, the one every    *)
(* loop of storage.go stops at.                                             *)
LEMMA FirstMatch ==
    ASSUME NEW S, NEW list \in Seq(S), NEW id, Has(list, id)
    PROVE  /\ First(list, id) \in 1 .. Len(list)
           /\ list[First(list, id)].id = id
<1> DEFINE T == { i \in 1 .. Len(list) : list[i].id = id }
<1>1. DOMAIN list = 1 .. Len(list) /\ Len(list) \in Nat
  BY LenProperties
<1>2. T \subseteq Nat /\ T # {}
  BY <1>1 DEF Has, T
<1>3. IsWellFoundedOn(OpToRel(<, Nat), Nat)
  BY NatLessThanWellFounded, Zenon
<1> HIDE DEF T
<1>4. \E i \in T : \A j \in T : ~(<<j, i>> \in OpToRel(<, Nat))
  BY <1>2, <1>3, WFMin, Zenon
<1>5. \E i \in T : \A j \in T : ~(j < i)
  BY <1>2, <1>4, Zenon DEF OpToRel
<1>6. QED
  BY <1>1, <1>5 DEF First, T

(* What Add, Update and SetEnabled make of a list is a list of rules again. *)
LEMMA ChangedListType ==
    ASSUME NEW list \in Seq(Rule), NEW rule \in Rule, NEW id, NEW on \in BOOLEAN
    PROVE  /\ Added(list, rule) \in Seq(Rule)
           /\ Has(list, rule.id) => Updated(list, rule) \in Seq(Rule)
           /\ Has(list, id) => WithEnabled(list, id, on) \in Seq(Rule)
<1>1. Added(list, rule) \in Seq(Rule)
  BY DEF Added
<1>2. ASSUME Has(list, rule.id)
      PROVE  Updated(list, rule) \in Seq(Rule)
  BY <1>2, FirstMatch, ExceptSeq DEF Updated
<1>3. ASSUME Has(list, id)
      PROVE  WithEnabled(list, id, on) \in Seq(Rule)
  <2>1. First(list, id) \in 1 .. Len(list)
    BY <1>3, FirstMatch
  <2>2. list[First(list, id)] \in Rule
    BY <2>1, ElementOfSeq
  <2>3. [list[First(list, id)] EXCEPT !.enabled = on] \in Rule
    BY <2>2 DEF Rule
  <2>4. QED
    BY <2>1, <2>3, ExceptSeq DEF WithEnabled
<1>4. QED
  BY <1>1, <1>2, <1>3

(* Deleting shortens the list by one and keeps the order of the others. *)
LEMMA WithoutProperties ==
    ASSUME NEW list \in Seq(Rule), NEW id, Has(list, id)
    PROVE  /\ Without(list, id) \in Seq(Rule)
           /\ Len(Without(list, id)) = Len(list) - 1
           /\ \A k \in 1 .. Len(list) - 1 :
                 Without(list, id)[k] =
                     IF k < First(list, id) THEN list[k] ELSE list[k + 1]
<1> DEFINE f == First(list, id)
           n == Len(list) - 1
<1>1. f \in 1 .. Len(list) /\ Len(list) \in Nat /\ n \in Nat
  BY FirstMatch, LenProperties
<1>2. \A k \in 1 .. n : (IF k < f THEN list[k] ELSE list[k + 1]) \in Rule
  BY <1>1, ElementOfSeq
<1>3. Without(list, id) = [k \in 1 .. n |-> IF k < f THEN list[k] ELSE list[k + 1]]
  BY DEF Without
<1>4. QED
  BY <1>1, <1>2, <1>3

-------------------------------------------------------------------------------
(* Type correctness. *)

(* Every variable keeps its type under every action, for every choice of    *)
(* clients, ids and names and with client-supplied ids or without.          *)
THEOREM TypeCorrect == Spec => []TypeOK
<1>1. Init => TypeOK
  BY EmptySeq DEF Init, TypeOK
<1>2. TypeOK /\ [Next]_vars => TypeOK'
  <2> SUFFICES ASSUME TypeOK, [Next]_vars
               PROVE  TypeOK'
    OBVIOUS
  <2>1. ASSUME NEW c \in Clients, NEW list \in Seq(Rule),
               Change(c, list)
        PROVE  TypeOK'
    BY <2>1 DEF Change, TypeOK
  <2>2. ASSUME NEW c \in Clients, CreateAlert(c)
        PROVE  TypeOK'
    <3>1. PICK rule \in Rule : Change(c, Added(rules, rule))
      BY <2>2 DEF CreateAlert
    <3>2. Added(rules, rule) \in Seq(Rule)
      BY ChangedListType DEF TypeOK, Rule
    <3>3. QED
      BY <2>1, <3>1, <3>2
  <2>3. ASSUME NEW c \in Clients, UpdateAlert(c)
        PROVE  TypeOK'
    <3>1. PICK rule \in Rule : /\ CanUpdate(rules, rule)
                               /\ Change(c, Updated(rules, rule))
      BY <2>3 DEF UpdateAlert
    <3>2. Updated(rules, rule) \in Seq(Rule)
      BY <3>1, ChangedListType DEF TypeOK, Rule, CanUpdate
    <3>3. QED
      BY <2>1, <3>1, <3>2
  <2>4. ASSUME NEW c \in Clients, DeleteAlert(c)
        PROVE  TypeOK'
    <3>1. PICK id \in Ids : Has(rules, id) /\ Change(c, Without(rules, id))
      BY <2>4 DEF DeleteAlert
    <3>2. Without(rules, id) \in Seq(Rule)
      BY <3>1, WithoutProperties DEF TypeOK
    <3>3. QED
      BY <2>1, <3>1, <3>2
  <2>5. ASSUME NEW c \in Clients, EnableAlert(c) \/ DisableAlert(c)
        PROVE  TypeOK'
    <3>1. PICK id \in Ids, on \in BOOLEAN :
              Has(rules, id) /\ Change(c, WithEnabled(rules, id, on))
      BY <2>5 DEF EnableAlert, DisableAlert
    <3>2. WithEnabled(rules, id, on) \in Seq(Rule)
      <4>1. Rule # {}
        BY <3>1, ElementOfSeq, LenProperties DEF Has, TypeOK
      <4>2. QED
        BY <3>1, <4>1, ChangedListType DEF TypeOK
    <3>3. QED
      BY <2>1, <3>1, <3>2
  <2>6. ASSUME NEW c \in Clients, BeginSave(c)
        PROVE  TypeOK'
    BY <2>6, EmptySeq DEF BeginSave, TypeOK
  <2>7. ASSUME NEW c \in Clients, FinishSave(c) \/ SaveFails(c)
        PROVE  TypeOK'
    <3>1. Reply(c)
      BY <2>7 DEF FinishSave, SaveFails
    <3>2. pc' \in [Clients -> {"idle", "changed", "writing"}]
      BY <3>1 DEF Reply, TypeOK
    <3>3. image' \in [Clients -> Seq(Rule)]
      BY <3>1, EmptySeq DEF Reply, TypeOK
    <3>4. rules' \in Seq(Rule) /\ disk' \in Seq(Rule) /\ lastSave' \in {"ok", "failed"}
      BY <2>7 DEF FinishSave, SaveFails, TypeOK
    <3>5. QED
      BY <3>2, <3>3, <3>4 DEF TypeOK
  <2>8. ASSUME Restart
        PROVE  TypeOK'
    BY <2>8, EmptySeq DEF Restart, TypeOK
  <2>9. CASE UNCHANGED vars
    BY <2>9 DEF vars, TypeOK
  <2>10. QED
    BY <2>2, <2>3, <2>4, <2>5, <2>6, <2>7, <2>8, <2>9 DEF Next
<1>3. QED
  BY <1>1, <1>2, PTL DEF Spec

-------------------------------------------------------------------------------
(* Durability. *)

(* SavedWhenQuiet alone is not inductive: while some request is in flight   *)
(* the file may lag behind, so the invariant carries over those moments     *)
(* that a save is still to come and that it will write the current list.    *)
SaveToCome == \E c \in Clients : pc[c] # "idle"

DurabilityInv ==
    /\ TypeOK
    /\ ImageIsCurrent
    /\ lastSave = "ok" => (disk = rules \/ SaveToCome)

(* A change is made while nobody is inside Save, and its client will save. *)
LEMMA ChangeKeepsDurability ==
    ASSUME DurabilityInv, TypeOK', NEW c \in Clients, NEW list,
           Change(c, list)
    PROVE  DurabilityInv'
<1>1. ImageIsCurrent'
  BY DEF DurabilityInv, TypeOK, ImageIsCurrent, Change, NoReader
<1>2. SaveToCome'
  BY DEF DurabilityInv, TypeOK, SaveToCome, Change
<1>3. QED
  BY <1>1, <1>2 DEF DurabilityInv

(* Whatever the interleaving of changes, overlapping saves, failed saves    *)
(* and crashes, the file is current or will be.                             *)
LEMMA DurabilityKept == Spec => []DurabilityInv
<1>1. Init => DurabilityInv
  BY EmptySeq DEF Init, DurabilityInv, TypeOK, ImageIsCurrent
<1>2. DurabilityInv /\ TypeOK' /\ [Next]_vars => DurabilityInv'
  <2> SUFFICES ASSUME DurabilityInv, TypeOK', [Next]_vars
               PROVE  DurabilityInv'
    OBVIOUS
  <2>1. ASSUME NEW c \in Clients,
               \/ CreateAlert(c) \/ UpdateAlert(c) \/ DeleteAlert(c)
               \/ EnableAlert(c) \/ DisableAlert(c)
        PROVE  DurabilityInv'
    <3>1. \E list : Change(c, list)
      BY <2>1 DEF CreateAlert, UpdateAlert, DeleteAlert, EnableAlert, DisableAlert
    <3>2. QED
      BY <3>1, ChangeKeepsDurability
  <2>2. ASSUME NEW c \in Clients, BeginSave(c)
        PROVE  DurabilityInv'
    <3>1. ImageIsCurrent'
      BY <2>2 DEF BeginSave, DurabilityInv, TypeOK, ImageIsCurrent
    <3>2. SaveToCome'
      BY <2>2 DEF BeginSave, DurabilityInv, TypeOK, SaveToCome
    <3>3. QED
      BY <3>1, <3>2 DEF DurabilityInv
  <2>3. ASSUME NEW c \in Clients, FinishSave(c)
        PROVE  DurabilityInv'
    <3>1. ImageIsCurrent'
      BY <2>3 DEF FinishSave, Reply, DurabilityInv, TypeOK, ImageIsCurrent
    <3>2. disk' = rules'
      BY <2>3 DEF FinishSave, DurabilityInv, ImageIsCurrent
    <3>3. QED
      BY <3>1, <3>2 DEF DurabilityInv
  <2>4. ASSUME NEW c \in Clients, SaveFails(c)
        PROVE  DurabilityInv'
    <3>1. ImageIsCurrent'
      BY <2>4 DEF SaveFails, Reply, DurabilityInv, TypeOK, ImageIsCurrent
    <3>2. lastSave' = "failed"
      BY <2>4 DEF SaveFails
    <3>3. QED
      BY <3>1, <3>2 DEF DurabilityInv
  <2>5. ASSUME Restart
        PROVE  DurabilityInv'
    BY <2>5 DEF Restart, DurabilityInv, ImageIsCurrent
  <2>6. CASE UNCHANGED vars
    BY <2>6 DEF vars, DurabilityInv, TypeOK, ImageIsCurrent, SaveToCome
  <2>7. QED
    BY <2>1, <2>2, <2>3, <2>4, <2>5, <2>6 DEF Next
<1>3. QED
  BY <1>1, <1>2, TypeCorrect, PTL DEF Spec

(* When all requests are answered and the latest save did not fail,         *)
(* configs/alerts.json holds the rules in memory.                           *)
THEOREM Durability == Spec => []SavedWhenQuiet
<1>1. DurabilityInv => SavedWhenQuiet
  BY DEF DurabilityInv, SavedWhenQuiet, SaveToCome
<1>2. QED
  BY <1>1, DurabilityKept, PTL

(* A goroutine inside Save never writes an outdated list: the list cannot   *)
(* change between marshalling it and writing the file.                      *)
THEOREM SavesAreNotStale == Spec => []ImageIsCurrent
<1>1. DurabilityInv => ImageIsCurrent
  BY DEF DurabilityInv
<1>2. QED
  BY <1>1, DurabilityKept, PTL

-------------------------------------------------------------------------------
(* Uniqueness of ids and names. *)

(* Adding a rule with a new id and a new name keeps a list free of          *)
(* duplicates.                                                              *)
LEMMA AddedDistinct ==
    ASSUME NEW list \in Seq(Rule), NEW rule \in Rule, Distinct(list),
           CanAdd(list, rule), ~Has(list, rule.id)
    PROVE  Distinct(Added(list, rule))
<1> DEFINE new == Append(list, rule)
           n == Len(list)
<1>1. /\ n \in Nat /\ DOMAIN list = 1 .. n
      /\ DOMAIN new = 1 .. n + 1
      /\ \A i \in 1 .. n : new[i] = list[i]
      /\ new[n + 1] = rule
  BY AppendProperties, LenProperties
<1> HIDE DEF new, n
<1>2. \A i \in 1 .. n : list[i].id # rule.id /\ list[i].name # rule.name
  BY <1>1 DEF Has, CanAdd
<1>3. ASSUME NEW i \in 1 .. n + 1, NEW j \in 1 .. n + 1, i # j
      PROVE  new[i].id # new[j].id /\ new[i].name # new[j].name
  <2>1. CASE i \in 1 .. n /\ j \in 1 .. n
    BY <1>1, <1>3, <2>1 DEF Distinct
  <2>2. CASE i = n + 1 /\ j \in 1 .. n
    BY <1>1, <1>2, <2>2
  <2>3. CASE i \in 1 .. n /\ j = n + 1
    BY <1>1, <1>2, <2>3
  <2>4. QED
    BY <1>1, <1>3, <2>1, <2>2, <2>3
<1>4. QED
  BY <1>1, <1>3 DEF Distinct, Added, new

(* Replacing one rule keeps a list free of duplicates when the new record's *)
(* id and name are those of no other rule.                                  *)
LEMMA ReplacedDistinct ==
    ASSUME NEW list \in Seq(Rule), NEW f \in 1 .. Len(list), NEW rule \in Rule,
           Distinct(list),
           \A i \in 1 .. Len(list) : i # f =>
               list[i].id # rule.id /\ list[i].name # rule.name
    PROVE  Distinct([list EXCEPT ![f] = rule])
<1> DEFINE new == [list EXCEPT ![f] = rule]
<1>1. /\ DOMAIN list = 1 .. Len(list)
      /\ DOMAIN new = 1 .. Len(list)
      /\ \A j \in 1 .. Len(list) : new[j] = IF j = f THEN rule ELSE list[j]
  BY LenProperties, ExceptSeq
<1> HIDE DEF new
<1>2. QED
  BY <1>1 DEF Distinct, new

(* An accepted update, which checks names only against other ids, keeps a   *)
(* list with distinct ids free of duplicates.                               *)
LEMMA UpdatedDistinct ==
    ASSUME NEW list \in Seq(Rule), NEW rule \in Rule, Distinct(list),
           CanUpdate(list, rule)
    PROVE  Distinct(Updated(list, rule))
<1> DEFINE f == First(list, rule.id)
<1>1. f \in 1 .. Len(list) /\ list[f].id = rule.id
  BY FirstMatch DEF CanUpdate
<1>2. DOMAIN list = 1 .. Len(list)
  BY LenProperties
<1>3. ASSUME NEW i \in 1 .. Len(list), i # f
      PROVE  list[i].id # rule.id /\ list[i].name # rule.name
  BY <1>1, <1>2, <1>3 DEF Distinct, CanUpdate
<1>4. QED
  BY <1>1, <1>3, ReplacedDistinct DEF Updated

(* Enabling or disabling a rule touches neither ids nor names. *)
LEMMA WithEnabledDistinct ==
    ASSUME NEW list \in Seq(Rule), NEW id, NEW on \in BOOLEAN, Distinct(list),
           Has(list, id)
    PROVE  Distinct(WithEnabled(list, id, on))
<1> DEFINE f == First(list, id)
           rule == [list[f] EXCEPT !.enabled = on]
<1>1. f \in 1 .. Len(list) /\ DOMAIN list = 1 .. Len(list)
  BY FirstMatch, LenProperties
<1>2. list[f] \in Rule
  BY <1>1, ElementOfSeq
<1>3. ASSUME NEW old \in Rule
      PROVE  LET r == [old EXCEPT !.enabled = on]
             IN  r \in Rule /\ r.id = old.id /\ r.name = old.name
  BY DEF Rule
<1>4. rule \in Rule /\ rule.id = list[f].id /\ rule.name = list[f].name
  BY <1>2, <1>3
<1> HIDE DEF rule
<1>5. \A i \in 1 .. Len(list) : i # f =>
          list[i].id # rule.id /\ list[i].name # rule.name
  BY <1>1, <1>4 DEF Distinct
<1>6. Distinct([list EXCEPT ![f] = rule])
  BY <1>1, <1>4, <1>5, ReplacedDistinct
<1>7. QED
  BY <1>6 DEF WithEnabled, rule

(* Deleting a rule introduces no duplicate. *)
LEMMA WithoutDistinct ==
    ASSUME NEW list \in Seq(Rule), NEW id, Distinct(list), Has(list, id)
    PROVE  Distinct(Without(list, id))
<1> DEFINE new == Without(list, id)
           n == Len(list) - 1
           f == First(list, id)
<1>1. /\ f \in 1 .. Len(list) /\ n \in Nat /\ Len(list) = n + 1
      /\ DOMAIN list = 1 .. n + 1
      /\ DOMAIN new = 1 .. n
      /\ \A k \in 1 .. n : new[k] = IF k < f THEN list[k] ELSE list[k + 1]
  BY FirstMatch, LenProperties, WithoutProperties
<1> HIDE DEF new, n, f
<1> DEFINE old(k) == IF k < f THEN k ELSE k + 1
<1>2. \A k \in 1 .. n : old(k) \in 1 .. n + 1 /\ new[k] = list[old(k)]
  BY <1>1
<1>3. \A i, j \in 1 .. n : i # j => old(i) # old(j)
  BY <1>1
<1> HIDE DEF old
<1>4. \A i, j \in 1 .. n : i # j =>
          new[i].id # new[j].id /\ new[i].name # new[j].name
  BY <1>1, <1>2, <1>3 DEF Distinct
<1>5. QED
  BY <1>1, <1>4 DEF Distinct, new

(* Every list a restart may load or a save may write is free of duplicates. *)
DistinctInv ==
    /\ Distinct(rules)
    /\ Distinct(disk)
    /\ \A c \in Clients : Distinct(image[c])

(* A change keeps every list distinct when the list it makes is. *)
LEMMA ChangeKeepsDistinct ==
    ASSUME DistinctInv, NEW c \in Clients, NEW list,
           Change(c, list), Distinct(list)
    PROVE  DistinctInv'
BY DEF DistinctInv, Distinct, Change

(* When ids are generated by the server, no interleaving of requests,       *)
(* overlapping saves, failures and crashes gives two rules the same id or   *)
(* the same name.                                                           *)
THEOREM NoDuplicates ==
    ASSUME ~ClientIds
    PROVE  Spec => []DistinctRules
<1>1. Init => DistinctInv
  <2>1. Distinct(<<>>)
    BY DEF Distinct
  <2>2. QED
    BY <2>1 DEF Init, DistinctInv
<1>2. TypeOK /\ DistinctInv /\ [Next]_vars => DistinctInv'
  <2> SUFFICES ASSUME TypeOK, DistinctInv, [Next]_vars
               PROVE  DistinctInv'
    OBVIOUS
  <2>1. rules \in Seq(Rule) /\ Distinct(rules)
    BY DEF TypeOK, DistinctInv
  <2>2. ASSUME NEW c \in Clients, CreateAlert(c)
        PROVE  DistinctInv'
    <3>1. PICK rule \in Rule : /\ rule.id \in FreshIds
                               /\ CanAdd(rules, rule)
                               /\ Change(c, Added(rules, rule))
      BY <2>2 DEF CreateAlert
    <3>2. Distinct(Added(rules, rule))
      BY <2>1, <3>1, AddedDistinct DEF FreshIds
    <3>3. QED
      BY <3>1, <3>2, ChangeKeepsDistinct
  <2>3. ASSUME NEW c \in Clients, UpdateAlert(c)
        PROVE  DistinctInv'
    <3>1. PICK rule \in Rule : /\ CanUpdate(rules, rule)
                               /\ Change(c, Updated(rules, rule))
      BY <2>3 DEF UpdateAlert
    <3>2. QED
      BY <2>1, <3>1, UpdatedDistinct, ChangeKeepsDistinct
  <2>4. ASSUME NEW c \in Clients, DeleteAlert(c)
        PROVE  DistinctInv'
    <3>1. PICK id \in Ids : Has(rules, id) /\ Change(c, Without(rules, id))
      BY <2>4 DEF DeleteAlert
    <3>2. QED
      BY <2>1, <3>1, WithoutDistinct, ChangeKeepsDistinct
  <2>5. ASSUME NEW c \in Clients, EnableAlert(c) \/ DisableAlert(c)
        PROVE  DistinctInv'
    <3>1. PICK id \in Ids, on \in BOOLEAN :
              Has(rules, id) /\ Change(c, WithEnabled(rules, id, on))
      BY <2>5 DEF EnableAlert, DisableAlert
    <3>2. QED
      BY <2>1, <3>1, WithEnabledDistinct, ChangeKeepsDistinct
  <2>6. ASSUME NEW c \in Clients, BeginSave(c)
        PROVE  DistinctInv'
    BY <2>6, EmptySeq DEF BeginSave, DistinctInv, Distinct, TypeOK
  <2>7. ASSUME NEW c \in Clients, FinishSave(c) \/ SaveFails(c)
        PROVE  DistinctInv'
    <3>1. rules' = rules /\ disk' \in {disk, image[c]}
      BY <2>7 DEF FinishSave, SaveFails
    <3>2. image' = [image EXCEPT ![c] = <<>>]
      BY <2>7 DEF FinishSave, SaveFails, Reply
    <3>3. QED
      BY <3>1, <3>2, EmptySeq DEF DistinctInv, Distinct, TypeOK
  <2>8. ASSUME Restart
        PROVE  DistinctInv'
    BY <2>8, EmptySeq DEF Restart, DistinctInv, Distinct
  <2>9. CASE UNCHANGED vars
    BY <2>9 DEF vars, DistinctInv, Distinct
  <2>10. QED
    BY <2>2, <2>3, <2>4, <2>5, <2>6, <2>7, <2>8, <2>9 DEF Next
<1>3. DistinctInv => DistinctRules
  BY DEF DistinctInv, DistinctRules
<1>4. QED
  BY <1>1, <1>2, <1>3, TypeCorrect, PTL DEF Spec

===============================================================================
