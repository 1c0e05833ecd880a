------------------------------ MODULE AlertRules ------------------------------
(***************************************************************************)
(* The list of alert rules that alerts.Storage keeps in memory, as pure    *)
(* operators: what each storage operation accepts and what it makes of the *)
(* list (internal/alerts/storage.go).  A rule is any record with the       *)
(* fields id, name and enabled; the list is a sequence, as in the code,    *)
(* because every lookup takes the FIRST rule with a given id.              *)
(***************************************************************************)
EXTENDS Naturals, Sequences

(* An id occurs in the list. *)
Has(rules, id) == \E i \in DOMAIN rules : rules[i].id = id

(* The position every loop of the storage stops at: the first match. *)
First(rules, id) ==
    CHOOSE i \in DOMAIN rules :
        /\ rules[i].id = id
        /\ \A j \in DOMAIN rules : j < i => rules[j].id # id

(* Add refuses a rule whose name is taken; it does not look at the id. *)
CanAdd(rules, rule) ==
    \A i \in DOMAIN rules : rules[i].name # rule.name

Added(rules, rule) == Append(rules, rule)

(* Faulty: the rename check is forgotten. *)
CanUpdateAnyName(rules, rule) == Has(rules, rule.id)

(* Update needs the rule to exist; the name is checked only when it changes, *)
(* and only against rules with another id.                                  *)
CanUpdate(rules, rule) ==
    /\ Has(rules, rule.id)
    /\ \/ rules[First(rules, rule.id)].name = rule.name
       \/ \A i \in DOMAIN rules :
              rules[i].name = rule.name => rules[i].id = rule.id

Updated(rules, rule) == [rules EXCEPT ![First(rules, rule.id)] = rule]

(* Delete closes the gap left by the first rule with the id. *)
Without(rules, id) ==
    LET f == First(rules, id)
    IN  [k \in 1 .. Len(rules) - 1 |-> IF k < f THEN rules[k] ELSE rules[k + 1]]

(* SetEnabled changes one field of the first rule with the id. *)
WithEnabled(rules, id, on) ==
    [rules EXCEPT ![First(rules, id)] = [@ EXCEPT !.enabled = on]]

===============================================================================
