------------------------- MODULE DataSourceSettings -------------------------
(***************************************************************************)
(* The settings of one data source, and what one change of the user in     *)
(* the console's form makes of them, kind by kind.  They are a record whose*)
(* "main" stands for the plain fields that the form requires; the other    *)
(* fields are those whose editing has rules of its own.                    *)
(***************************************************************************)
Kinds == {"mysql", "iotdb", "redis", "restapi"}

Mains == {"blank", "old", "new"}

(* The header Authorization: absent, present and empty, a token or the     *)
(* bare prefix "Bearer ", a key.                                           *)
Headers == {"absent", "empty", "bearer", "token", "key"}

Settings(kind) ==
    CASE kind = "redis" -> [main: Mains, tls: BOOLEAN, skip: BOOLEAN]
      [] kind = "restapi" -> [main: Mains, skip: BOOLEAN, auth: Headers]
      [] OTHER -> [main: Mains]

Fields == {"main", "tls", "skip", "auth"}

(* A field set to a value, under the field's name.                         *)
Set(field, values) == {[field |-> field, value |-> v] : v \in values}

MySQLEdits(s) == Set("main", {"new"})

IoTDBEdits(s) == Set("main", {"new"})

(* The box for skipping the verification shows only while TLS is on, and   *)
(* its value stays when TLS is switched off.                               *)
RedisEdits(s) ==
    Set("main", {"new"}) \cup Set("tls", {~s.tls})
        \cup (IF s.tls THEN Set("skip", {~s.skip}) ELSE {})

(* The selector shows an empty header as "none", and choosing what is      *)
(* shown changes nothing; the input shows for every header that is there.  *)
AuthKind(auth) ==
    CASE auth \in {"absent", "empty"} -> "none"
      [] auth \in {"bearer", "token"} -> "bearer"
      [] OTHER -> "apikey"

AuthChosen(kind) ==
    CASE kind = "none" -> "absent" [] kind = "bearer" -> "bearer" [] OTHER -> "empty"

AuthTyped(auth) ==
    CASE auth = "absent" -> {}
      [] AuthKind(auth) = "bearer" -> {"bearer", "token"}
      [] OTHER -> {"empty", "key", "token"}     \* "Bearer ..." typed as a key

RestAPIEdits(s) ==
    Set("main", {"new"}) \cup Set("skip", {~s.skip})
        \cup Set("auth", {AuthChosen(kind) : kind \in
                              {"none", "bearer", "apikey"} \ {AuthKind(s.auth)}})
        \cup Set("auth", AuthTyped(s.auth))

Edits(kind, s) ==
    CASE kind = "mysql" -> MySQLEdits(s)
      [] kind = "iotdb" -> IoTDBEdits(s)
      [] kind = "redis" -> RedisEdits(s)
      [] kind = "restapi" -> RestAPIEdits(s)

(* The fields that the form requires are filled in.                        *)
Complete(s) == s.main # "blank"

(* The settings a connection has before it is saved for the first time.    *)
DefaultSettings(kind) ==
    CASE kind = "redis" -> [main |-> "blank", tls |-> FALSE, skip |-> FALSE]
      [] kind = "restapi" -> [main |-> "blank", skip |-> FALSE, auth |-> "absent"]
      [] OTHER -> [main |-> "blank"]
=============================================================================
