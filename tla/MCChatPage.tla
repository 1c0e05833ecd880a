----------------------------- MODULE MCChatPage -----------------------------
(* A small instance of ChatPage for TLC. *)
EXTENDS ChatPage

SomeScripts == {<<"chunk", "chunk", "done">>, <<"chunk", "tool_call", "done">>}
=============================================================================
