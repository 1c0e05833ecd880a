---------------------------- MODULE MCAlertStorage ----------------------------
(* Small instances of AlertStorage for TLC. *)
EXTENDS AlertStorage, TLC

(* Clients, ids and names are interchangeable. *)
Symmetric == Permutations(Clients) \cup Permutations(Ids) \cup Permutations(Names)

===============================================================================
