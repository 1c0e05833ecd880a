----------------------------- MODULE AlertStorage -----------------------------
(***************************************************************************)
(* alerts.Storage and the goroutines that change it.                       *)
(*                                                                         *)
(* Every HTTP handler and the evaluator change the list in memory under    *)
(* the write lock, release it, and then call Save, which marshals the list *)
(* and rewrites configs/alerts.json under the READ lock.  Two saves may    *)
(* therefore overlap, a change may slip in between another goroutine's     *)
(* change and its save, a save may fail, and the process may die with the  *)
(* file truncated and not yet written.                                     *)
(*                                                                         *)
(* The file is represented by the list that Load makes of it: no file, an  *)
(* empty file and a half-written (unparsable) file all leave the program   *)
(* with no rules at all.                                                   *)
(***************************************************************************)
EXTENDS AlertRules

CONSTANTS
    Clients,    \* goroutines that change rules: HTTP handlers, the evaluator
    Ids,        \* rule ids
    Names,      \* rule names
    ClientIds   \* whether POST /api/alerts bodies may carry an id of their own

ASSUME ClientIdsAssumption == ClientIds \in BOOLEAN

Rule == [id : Ids, name : Names, enabled : BOOLEAN]

VARIABLES
    rules,      \* Storage.rules
    disk,       \* the rules Load would read from configs/alerts.json
    pc,         \* where each client is: "idle", "changed" or "writing"
    image,      \* the list a client inside Save has marshalled
    lastSave    \* how the latest Save ended: "ok" or "failed"

vars == <<rules, disk, pc, image, lastSave>>

-------------------------------------------------------------------------------
(* Faulty: Save lets go of the read lock before it writes the file. *)
NoReaderForgetful == TRUE

(* storage.mu: a writer waits for every reader, and Save reads until the    *)
(* file is written.                                                         *)
NoReader == \A c \in Clients : pc[c] # "writing"

(* generateID: an id no rule in memory, in a marshalled list or on disk has. *)
FreshIds ==
    { id \in Ids :
        /\ ~Has(rules, id)
        /\ ~Has(disk, id)
        /\ \A c \in Clients : ~Has(image[c], id) }

(* The common shape of a change: under the write lock, then Save to come. *)
Change(c, list) ==
    /\ pc[c] = "idle"
    /\ NoReader
    /\ rules' = list
    /\ pc' = [pc EXCEPT ![c] = "changed"]
    /\ UNCHANGED <<disk, image, lastSave>>

(* POST /api/alerts *)
CreateAlert(c) ==
    \E rule \in Rule :
        /\ ClientIds \/ rule.id \in FreshIds
        /\ CanAdd(rules, rule)
        /\ Change(c, Added(rules, rule))

(* PUT /api/alerts/:id; the id comes from the path, the rest from the body. *)
UpdateAlert(c) ==
    \E rule \in Rule :
        /\ CanUpdate(rules, rule)
        /\ Change(c, Updated(rules, rule))

(* DELETE /api/alerts/:id *)
DeleteAlert(c) ==
    \E id \in Ids :
        /\ Has(rules, id)
        /\ Change(c, Without(rules, id))

(* POST /api/alerts/:id/enable *)
EnableAlert(c) ==
    \E id \in Ids :
        /\ Has(rules, id)
        /\ Change(c, WithEnabled(rules, id, TRUE))

(* POST /api/alerts/:id/disable *)
DisableAlert(c) ==
    \E id \in Ids :
        /\ Has(rules, id)
        /\ Change(c, WithEnabled(rules, id, FALSE))

(* Save takes the read lock, marshals the list, and os.WriteFile truncates. *)
BeginSave(c) ==
    /\ pc[c] = "changed"
    /\ image' = [image EXCEPT ![c] = rules]
    /\ disk' = <<>>
    /\ pc' = [pc EXCEPT ![c] = "writing"]
    /\ UNCHANGED <<rules, lastSave>>

(* Faulty: the goroutine does not come back from its save. *)
ReplyStuck(c) ==
    /\ pc' = [pc EXCEPT ![c] = "saved"]
    /\ image' = [image EXCEPT ![c] = <<>>]

(* The lock is released and the request answered. *)
Reply(c) ==
    /\ pc' = [pc EXCEPT ![c] = "idle"]
    /\ image' = [image EXCEPT ![c] = <<>>]

(* The marshalled bytes reach the file in one write call. *)
FinishSave(c) ==
    /\ pc[c] = "writing"
    /\ disk' = image[c]
    /\ lastSave' = "ok"
    /\ Reply(c)
    /\ UNCHANGED rules

(* os.WriteFile reports an error: the file could not be opened, or the      *)
(* write came out short.  A short write leaves a truncated file truncated   *)
(* and rewrites the same bytes over another save's complete file.           *)
SaveFails(c) ==
    /\ pc[c] \in {"changed", "writing"}
    /\ lastSave' = "failed"
    /\ Reply(c)
    /\ UNCHANGED <<rules, disk>>

(* The process dies, whatever its goroutines were doing, and main loads the *)
(* file again.                                                              *)
Restart ==
    /\ rules' = disk
    /\ pc' = [c \in Clients |-> "idle"]
    /\ image' = [c \in Clients |-> <<>>]
    /\ lastSave' = "ok"
    /\ UNCHANGED disk

Init ==
    /\ rules = <<>>
    /\ disk = <<>>
    /\ pc = [c \in Clients |-> "idle"]
    /\ image = [c \in Clients |-> <<>>]
    /\ lastSave = "ok"

Next ==
    \/ \E c \in Clients :
        \/ CreateAlert(c)
        \/ UpdateAlert(c)
        \/ DeleteAlert(c)
        \/ EnableAlert(c)
        \/ DisableAlert(c)
        \/ BeginSave(c)
        \/ FinishSave(c)
        \/ SaveFails(c)
    \/ Restart

Spec == Init /\ [][Next]_vars

-------------------------------------------------------------------------------
(* The types of the variables of alerts.Storage and of its clients. *)
TypeOK ==
    /\ rules \in Seq(Rule)
    /\ disk \in Seq(Rule)
    /\ pc \in [Clients -> {"idle", "changed", "writing"}]
    /\ image \in [Clients -> Seq(Rule)]
    /\ lastSave \in {"ok", "failed"}

(* A goroutine inside Save writes what the list still is: the read lock     *)
(* held across marshal and write keeps every change out, so overlapping     *)
(* saves write the same bytes and no save can undo a newer one.             *)
ImageIsCurrent ==
    \A c \in Clients : pc[c] = "writing" => image[c] = rules

(* Once every request is answered, and unless the latest save failed, the   *)
(* file holds exactly the rules in memory, whatever the order in which      *)
(* overlapping changes and saves took the lock.                             *)
SavedWhenQuiet ==
    (lastSave = "ok" /\ \A c \in Clients : pc[c] = "idle") => disk = rules

Distinct(list) ==
    \A i, j \in DOMAIN list :
        i # j => list[i].id # list[j].id /\ list[i].name # list[j].name

(* No two rules of the list share an id or a name, whatever interleaving of *)
(* adds, renames, deletes, saves and restarts led to it.                    *)
DistinctRules == Distinct(rules)

===============================================================================
