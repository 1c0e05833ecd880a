------------------------------ MODULE ChatPage ------------------------------
(***************************************************************************)
(* The console's page of the assistant: it sends a message, reads the      *)
(* answer as a stream of server-sent events, shows the messages and keeps  *)
(* them in the browser's storage when an answer is complete.  An event is  *)
(* three lines; what one read returns may end after any line (part of a    *)
(* line waits in the buffer, so it counts as not read).  What an event     *)
(* does to the messages is an update of React's state, and a complete      *)
(* answer is stored by that update: React runs it at once or when it       *)
(* renders next, in the order in which the updates were made.              *)
(***************************************************************************)
EXTENDS Naturals, Sequences, SequencesExt, FiniteSets

CONSTANTS
    None,           \* nothing
    Scripts,        \* the answers the service may give: sequences of events
    MaxStored,      \* MAX_MESSAGES: how many messages are kept
    MaxClicks,      \* cap on the messages sent and on clearing
    MaxEvents       \* cap on clicks, visits, failures and expiries together

VARIABLES
    messages,       \* what the page shows
    thread,         \* threadId
    loading,        \* isLoading
    controller,     \* abortControllerRef: the request it belongs to, or None
    stored,         \* the browser's storage: thread and messages, or None
    storing,        \* what an update that has still to run will store, or None
    requests,       \* the requests that run
    visit,          \* how many times the page was opened
    ended,          \* how the last answer of this visit ended
    strayed,        \* a request outlived its visit, or such an update a clear
    cuts,           \* whether a read may end inside an event
    clicks, troubles

vars == <<messages, thread, loading, controller, stored, storing, requests,
          visit, ended, strayed, cuts, clicks, troubles>>

Events == {"chunk", "tool_call", "done", "error"}
Lines == 3          \* of an event: its type, its data and an empty one

Mine == {r \in requests : r.visit = visit}
Spare == clicks + troubles < MaxEvents

Message(role, n) == [role |-> role, n |-> n, parts |-> <<>>, streaming |-> FALSE]

Roles == {"user", "assistant", "tool", "error"}
Messages ==
    Seq([role : Roles, n : Nat, parts : Seq(Nat \X Nat), streaming : BOOLEAN])
Histories == [thread : {None} \cup Nat, expired : BOOLEAN, messages : Messages]

-----------------------------------------------------------------------------
(* chat-storage.ts *)

History(id, list) ==
    [thread |-> id, expired |-> FALSE,
     messages |-> SubSeq(list, IF Len(list) > MaxStored THEN Len(list) - MaxStored + 1 ELSE 1,
                         Len(list))]

NoHistory == [thread |-> None, messages |-> <<>>]

(* A history without messages is not loaded, so its thread is dropped.     *)
Usable(history) ==
    history # None /\ ~history.expired /\ history.messages # <<>>

Loaded ==
    IF Usable(stored) THEN [thread |-> stored.thread, messages |-> stored.messages]
    ELSE NoHistory

-----------------------------------------------------------------------------
(* What an event does to the page: s is what it shows, its thread and what *)
(* is stored when all updates have run.  e is the number of the event      *)
(* among those of request r.                                               *)

Streaming(list) ==
    list # <<>> /\ Last(list).role = "assistant" /\ Last(list).streaming

WithPart(m, part) == [m EXCEPT !.parts = Append(@, part)]
NewAnswer(n) == [Message("assistant", n) EXCEPT !.streaming = TRUE]

(* Faulty: any message of the assistant is continued. *)
OnChunkAnyMessage(s, r, e) ==
    [s EXCEPT !.messages =
        IF @ # <<>> /\ Last(@).role \in {"assistant", "tool"}
        THEN Append(Front(@), WithPart(Last(@), <<r.n, e>>))
        ELSE Append(@, WithPart(NewAnswer(r.n), <<r.n, e>>))]

OnChunk(s, r, e) ==
    [s EXCEPT !.messages =
        IF Streaming(@)
        THEN Append(Front(@), WithPart(Last(@), <<r.n, e>>))
        ELSE Append(@, WithPart(NewAnswer(r.n), <<r.n, e>>))]

OnToolCall(s, r) == [s EXCEPT !.messages = Append(@, Message("tool", r.n))]

Finished(list) ==
    IF Streaming(list) THEN Append(Front(list), [Last(list) EXCEPT !.streaming = FALSE])
    ELSE list

(* The service goes on with the thread it was given, or starts one.        *)
AnswerThread(r) == IF r.thread = None THEN r.n ELSE r.thread

(* Faulty: the list is stored as it was before the last message ended. *)
OnCompleteEarly(s, r) ==
    [s EXCEPT !.messages = Finished(@), !.thread = AnswerThread(r), !.ended = "done",
              !.stored = History(AnswerThread(r), s.messages)]

OnComplete(s, r) ==
    [s EXCEPT !.messages = Finished(@), !.thread = AnswerThread(r), !.ended = "done",
              !.stored = History(AnswerThread(r), Finished(s.messages))]

OnError(s, r) ==
    [s EXCEPT !.messages = Append(@, Message("error", r.n)), !.ended = "error"]

Handled(s, r, e) ==
    CASE r.script[e] = "chunk" -> OnChunk(s, r, e)
      [] r.script[e] = "tool_call" -> OnToolCall(s, r)
      [] r.script[e] = "done" -> OnComplete(s, r)
      [] r.script[e] = "error" -> OnError(s, r)

(* Every read starts with no event type and no data: an event is handled   *)
(* when all its lines come in one read.                                    *)
WholeEvents(r, upto) ==
    {e \in DOMAIN r.script : Lines * (e - 1) >= r.lines /\ Lines * e <= upto}

Due == IF storing = None THEN stored ELSE storing

(* What reading the lines up to this one makes of the page, event by event.*)
AfterRead(r, upto) ==
    LET after[e \in 0 .. Len(r.script)] ==
            IF e = 0
            THEN [messages |-> messages, thread |-> thread, stored |-> Due,
                  ended |-> ended]
            ELSE IF e \in WholeEvents(r, upto) THEN Handled(after[e - 1], r, e)
            ELSE after[e - 1]
    IN  after[Len(r.script)]

-----------------------------------------------------------------------------
(* The user. *)

Request(n) == [n |-> n, visit |-> visit, thread |-> thread, phase |-> "sent",
               script |-> <<>>, lines |-> 0, handled |-> 0, aborted |-> FALSE,
               page |-> <<>>]

CanSend == clicks < MaxClicks /\ Spare /\ ~loading

(* sendMessage: the request before, if it still has the controller, is     *)
(* aborted.                                                                *)
Aborted(S) == {IF r.n = controller THEN [r EXCEPT !.aborted = TRUE] ELSE r : r \in S}

HandleSend ==
    /\ CanSend
    /\ clicks' = clicks + 1
    /\ messages' = Append(messages, Message("user", clicks'))
    /\ requests' = Aborted(requests) \cup {Request(clicks')}
    /\ controller' = clicks'
    /\ loading' = TRUE
    /\ ended' = "open"
    /\ UNCHANGED <<thread, stored, storing, visit, strayed, cuts, troubles>>

(* The button is there also while an answer streams.  An update that has   *)
(* still to run goes on to store its answer.                               *)
HandleClearHistory ==
    /\ messages # <<>>
    /\ Spare
    /\ troubles' = troubles + 1
    /\ stored' = None /\ messages' = <<>> /\ thread' = None
    /\ strayed' = (strayed \/ storing # None)
    /\ UNCHANGED <<storing, loading, controller, requests, visit, ended, cuts, clicks>>

(* The user leaves and comes back: a new page with what is stored, while   *)
(* requests of the old one go on; its updates that did not run never do.   *)
Reopen ==
    /\ Spare
    /\ troubles' = troubles + 1
    /\ visit' = visit + 1
    /\ messages' = Loaded.messages /\ thread' = Loaded.thread
    /\ stored' = IF stored # None /\ stored.expired THEN None ELSE stored
    /\ storing' = None
    /\ loading' = FALSE /\ controller' = None
    /\ ended' = "done"
    /\ strayed' = (strayed \/ Mine # {})
    /\ requests' = {IF r \in Mine THEN [r EXCEPT !.page = messages] ELSE r : r \in requests}
    /\ UNCHANGED <<cuts, clicks>>

(* Seven days pass.                                                        *)
Expire ==
    /\ Spare /\ stored # None /\ storing = None /\ requests = {}
    /\ troubles' = troubles + 1
    /\ stored' = [stored EXCEPT !.expired = TRUE]
    /\ UNCHANGED <<messages, thread, storing, loading, controller, requests, visit,
                   ended, strayed, cuts, clicks>>

-----------------------------------------------------------------------------
(* The network. *)

Become(r, q) == requests' = (requests \ {r}) \cup {q}

Answer(r) ==
    /\ r.phase = "sent" /\ ~r.aborted
    /\ \E script \in Scripts : Become(r, [r EXCEPT !.phase = "open", !.script = script])
    /\ UNCHANGED <<messages, thread, loading, controller, stored, storing, visit,
                   ended, strayed, cuts, clicks, troubles>>

Completes(r, upto) == \E e \in WholeEvents(r, upto) : r.script[e] = "done"

(* An old visit's page shows nothing any more; React may or may not run    *)
(* the update in which a complete answer is stored, and then with the list *)
(* that page had.                                                          *)
StrayStored(r, upto) ==
    IF Completes(r, upto)
    THEN {stored, History(AnswerThread(r), Finished(r.page))}
    ELSE {stored}

Read(r) ==
    /\ r.phase = "open" /\ ~r.aborted
    /\ \E upto \in r.lines + 1 .. Lines * Len(r.script) :
           /\ ~cuts => upto % Lines = 0
           /\ Become(r, [r EXCEPT !.lines = upto,
                             !.handled = @ + Cardinality(WholeEvents(r, upto))])
           /\ IF r.visit = visit
              THEN LET s == AfterRead(r, upto)
                   IN  /\ messages' = s.messages /\ thread' = s.thread
                       /\ ended' = s.ended
                       /\ \/ stored' = s.stored /\ storing' = None
                          \/ /\ storing # None \/ Completes(r, upto)
                             /\ s.stored # None
                             /\ storing' = s.stored /\ UNCHANGED stored
              ELSE /\ stored' \in StrayStored(r, upto)
                   /\ UNCHANGED <<messages, thread, storing, ended>>
    /\ UNCHANGED <<loading, controller, visit, strayed, cuts, clicks, troubles>>

(* React renders, and runs the updates that wait.                          *)
Render ==
    /\ storing # None
    /\ stored' = storing /\ storing' = None
    /\ UNCHANGED <<messages, thread, loading, controller, requests, visit, ended,
                   strayed, cuts, clicks, troubles>>

(* Faulty: the flag stays when the request failed. *)
FinishIfOk(r, failed) ==
    /\ requests' = requests \ {r}
    /\ IF r.visit = visit /\ ~failed THEN loading' = FALSE /\ controller' = None
       ELSE UNCHANGED <<loading, controller>>

(* finally, whatever request has the controller by now.                    *)
Finish(r, failed) ==
    /\ requests' = requests \ {r}
    /\ IF r.visit = visit THEN loading' = FALSE /\ controller' = None
       ELSE UNCHANGED <<loading, controller>>

(* The stream is over; an aborted request ends in silence as well.         *)
End(r) ==
    /\ r.aborted \/ (r.phase = "open" /\ r.lines = Lines * Len(r.script))
    /\ Finish(r, FALSE)
    /\ UNCHANGED <<messages, thread, stored, storing, visit, ended, strayed, cuts,
                   clicks, troubles>>

(* The request is refused or the connection breaks.                        *)
Break(r) ==
    /\ ~r.aborted /\ Spare
    /\ troubles' = troubles + 1
    /\ IF r.visit = visit
       THEN messages' = Append(messages, Message("error", r.n)) /\ ended' = "error"
       ELSE UNCHANGED <<messages, ended>>
    /\ Finish(r, TRUE)
    /\ UNCHANGED <<thread, stored, storing, visit, strayed, cuts, clicks>>

-----------------------------------------------------------------------------
Init ==
    /\ messages = <<>> /\ thread = None
    /\ loading = FALSE /\ controller = None
    /\ stored = None /\ storing = None
    /\ requests = {}
    /\ visit = 1 /\ ended = "done" /\ strayed = FALSE
    /\ cuts \in BOOLEAN
    /\ clicks = 0 /\ troubles = 0

User == HandleSend \/ HandleClearHistory \/ Reopen \/ Expire
Serve == Render \/ \E r \in requests : Answer(r) \/ Read(r) \/ End(r)

Next == User \/ Serve \/ \E r \in requests : Break(r)

Spec == Init /\ [][Next]_vars

-----------------------------------------------------------------------------
TypeOK ==
    /\ messages \in Messages
    /\ thread \in {None} \cup 1 .. clicks
    /\ loading \in BOOLEAN /\ controller \in {None} \cup 1 .. clicks
    /\ \A h \in {stored, storing} \ {None} :
           h \in Histories /\ Len(h.messages) <= MaxStored
    /\ \A r \in requests :
           r.n <= clicks /\ r.visit <= visit /\ r.lines <= Lines * Len(r.script)

(* The page is loading just as long as a request of its own runs; there is *)
(* one at most, it has the controller and it was not aborted.              *)
LoadingIsRunning ==
    /\ loading <=> Mine # {}
    /\ \A r \in Mine : r.n = controller /\ ~r.aborted

(* Answers stay apart: what streams in goes to the assistant's message of  *)
(* the same request, each part once and in order, never to a tool's.       *)
AnswersStayApart ==
    \A i \in DOMAIN messages :
        LET m == messages[i]
        IN  /\ m.role # "assistant" => m.parts = <<>>
            /\ \A j \in DOMAIN m.parts : m.parts[j][1] = m.n
            /\ \A j \in 1 .. Len(m.parts) - 1 : m.parts[j][2] < m.parts[j + 1][2]

(* After a complete answer the storage holds what the page shows, once the *)
(* updates have run, so that opening the page again shows the same         *)
(* messages and thread.                                                    *)
HistoryIsKept ==
    ended = "done" /\ ~loading /\ storing = None /\ ~strayed
        /\ (stored # None => ~stored.expired) =>
        /\ Loaded.messages = History(thread, messages).messages
        /\ messages # <<>> => Loaded.thread = thread

(* No event of a stream that was read to its end was dropped.              *)
EventsAreHandled ==
    \A r \in requests : r.lines = Lines * Len(r.script) => r.handled = Len(r.script)

(* Every request ends, and the page can send again.                        *)
Settled == requests = {} /\ ~loading /\ storing = None
=============================================================================
