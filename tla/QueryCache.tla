----------------------------- MODULE QueryCache -----------------------------
(***************************************************************************)
(* One entry of the console's query cache (React Query 5, as main.tsx      *)
(* sets it up and as the pages use it): the data it holds, and the fetch   *)
(* that is running, if any.  A fetch is asked, then answered with what the *)
(* server held at that moment, and the answer arrives later.               *)
(***************************************************************************)
CONSTANT None       \* no data, no answer

EmptyQuery == [data |-> None, fetch |-> "idle", answer |-> None]

Query(D) == [data: D \cup {None}, fetch: {"idle", "asked", "answered"},
             answer: D \cup {None}]

Fetching(q) == q.fetch # "idle"

Asked(q) == [q EXCEPT !.fetch = "asked", !.answer = None]

(* useQuery in a page that opens: data are stale as soon as they arrive,   *)
(* so it fetches, unless a fetch of the same key is running already.       *)
Mounted(q) == IF Fetching(q) THEN q ELSE Asked(q)

(* invalidateQueries: an entry in use that has data drops the running      *)
(* fetch and asks again; one that nobody uses waits for the next page.     *)
Invalidated(q, used) ==
    IF ~used THEN q ELSE IF q.data # None THEN Asked(q) ELSE Mounted(q)

(* The change finds an older fetch running that goes on: its answer may be *)
(* from before the change, and nothing asks again.                         *)
Overtaken(q, used) == Fetching(q) /\ (~used \/ q.data = None)

Answered(q, v) == [q EXCEPT !.fetch = "answered", !.answer = v]

Arrived(q) == [data |-> q.answer, fetch |-> "idle", answer |-> None]

(* Both attempts failed (retry: 1): the old data stay.                     *)
Failed(q) == [q EXCEPT !.fetch = "idle", !.answer = None]
=============================================================================
