---------------------------- MODULE ChatTranscript ---------------------------
(***************************************************************************)
(* What a chat model expects of the transcript it is sent, turn after turn:*)
(* one system message first; an assistant turn only after the user or the  *)
(* tools have spoken; and after an assistant turn that calls tools, one    *)
(* result for each call, in the order of the calls, before anyone else     *)
(* speaks.  The Agent module keeps its history that way.                   *)
(***************************************************************************)
EXTENDS Naturals, Sequences

CONSTANTS CallLists   \* the lists of tool names an assistant turn may call

VARIABLE log

Message(role, calls, tool) == [role |-> role, calls |-> calls, tool |-> tool]
System == Message("system", <<>>, "none")
User == Message("user", <<>>, "none")
Assistant == Message("assistant", <<>>, "none")
Calls(names) == Message("calls", names, "none")
Result(name) == Message("tool", <<>>, name)

Last == log[Len(log)]

\* The position of the last turn that is not a tool result.
LastTurn == CHOOSE i \in DOMAIN log :
                /\ log[i].role # "tool"
                /\ \A j \in (i + 1)..Len(log) : log[j].role = "tool"

\* The calls of that turn that have no result yet.
Outstanding == SubSeq(log[LastTurn].calls, Len(log) - LastTurn + 1,
                      Len(log[LastTurn].calls))

Init == log = <<System>>

UserSpeaks == Outstanding = <<>> /\ log' = Append(log, User)

AssistantSpeaks ==
    /\ Outstanding = <<>> /\ Last.role \in {"user", "tool"}
    /\ \/ log' = Append(log, Assistant)
       \/ \E names \in CallLists : log' = Append(log, Calls(names))

ToolSpeaks == /\ Outstanding # <<>>
              /\ log' = Append(log, Result(Head(Outstanding)))

Forget == Outstanding = <<>> /\ log' = <<System>>

Next == UserSpeaks \/ AssistantSpeaks \/ ToolSpeaks \/ Forget

Spec == Init /\ [][Next]_log
==============================================================================
