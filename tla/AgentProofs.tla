----------------------------- MODULE AgentProofs -----------------------------
(***************************************************************************)
(* The history of an agent is a well-formed transcript, and its rounds are *)
(* bounded, for any tools, bounds and number of prompts.                   *)
(***************************************************************************)
EXTENDS Agent, FiniteSetTheorems, SequenceTheorems, TLAPS

Messages == [role : {"system", "user", "assistant", "calls", "tool"},
             calls : CallLists \cup {<<>>}, tool : Tools \cup {"none"}]

Types == /\ history \in Seq(Messages) /\ Len(history) >= 1
         /\ history[1] = Transcript!System
         /\ pc \in {"idle", "chat", "tool"}
         /\ round \in 0..max_tool_rounds
         /\ tool_calls \in CallLists \cup {<<>>}
         /\ done \in 0..MaxCalls
         /\ outcome \in {"none", "answered", "failed", "exceeded"}

\* The turn at i is the last that is no tool result.
IsLastTurn(i) == /\ i \in DOMAIN history /\ history[i].role # "tool"
                 /\ \A j \in (i + 1)..Len(history) : history[j].role = "tool"

\* Inside the inner loop the calls of the last turn are those of the loop, and
\* it has had one result for each of those that are done.
InRound == pc = "tool" => /\ IsLastTurn(Len(history) - done)
                          /\ history[Len(history) - done] = Transcript!Calls(tool_calls)
                          /\ tool_calls \in CallLists /\ done < Len(tool_calls)

\* Outside of it nothing is left to be answered.
Answered == pc # "tool" =>
                \E i \in DOMAIN history : /\ IsLastTurn(i)
                                          /\ Len(history) - i >= Len(history[i].calls)

\* Where the LLM is asked, it is its turn.
ItsTurn == pc = "chat" => history[Len(history)].role \in {"user", "tool"}

\* Every round has left one turn with calls.
Counted == /\ IsFiniteSet(Rounds)
           /\ pc = "chat" => Cardinality(Rounds) = round /\ round < max_tool_rounds
           /\ pc = "tool" => Cardinality(Rounds) = round + 1 /\ round < max_tool_rounds
           /\ pc # "idle" => outcome = "none"
           /\ RoundsBounded

IInv == Types /\ InRound /\ Answered /\ ItsTurn /\ Counted

------------------------------------------------------------------------------
\* A list of calls is a sequence of tools, no longer than the bound.
LEMMA CallListFacts ==
  ASSUME NEW c \in CallLists \cup {<<>>}
  PROVE  /\ c \in Seq(Tools) /\ Len(c) \in 0..MaxCalls
         /\ c \in CallLists => Len(c) > 0
  <1>1. CASE c = <<>>
    <2>1. Len(c) = 0 /\ c \in Seq(Tools) /\ c \notin CallLists
      BY <1>1 DEF CallLists
    <2> QED
      BY <2>1, BoundsAreNat
  <1>2. CASE c \in CallLists
    <2>1. PICK m \in 0..MaxCalls : c \in [1..m -> Tools]
      BY <1>2 DEF CallLists, SeqOf
    <2>2. c \in Seq(Tools) /\ Len(c) = m
      BY <2>1, BoundsAreNat
    <2>3. m # 0
      BY <1>2, <2>1, <2>2 DEF CallLists
    <2> QED
      BY <2>2, <2>3, BoundsAreNat
  <1> QED
    BY <1>1, <1>2

\* What chat gives as calls is a list of calls.
LEMMA ChatFacts ==
  ASSUME NEW r \in ChatResults, r.is = "calls"
  PROVE  r.calls \in CallLists
  <1>1. PICK resp \in HttpResponses : r = Chat(resp)
    BY DEF ChatResults
  <1>2. resp.calls # <<>> /\ r.calls = Names(resp.calls)
    BY <1>1 DEF Chat, Err
  <1>3. PICK m \in 0..MaxCalls : resp.calls \in [1..m -> ToolCalls]
    BY <1>1 DEF HttpResponses, SeqOf
  <1>4. r.calls \in [1..m -> Tools]
    BY <1>2, <1>3 DEF Names, ToolCalls
  <1>5. m # 0
    BY <1>2, <1>3
  <1>6. r.calls # <<>>
    BY <1>4, <1>5, BoundsAreNat
  <1> QED
    BY <1>4, <1>6 DEF CallLists, SeqOf

\* The last turn that is no tool result is the only one of its kind.
LEMMA LastTurnIs ==
  ASSUME Types, NEW i, IsLastTurn(i)
  PROVE  Transcript!LastTurn = i
  <1>1. \A k \in DOMAIN history : IsLastTurn(k) => k = i
    <2> SUFFICES ASSUME NEW k \in DOMAIN history, IsLastTurn(k), k # i PROVE FALSE
      OBVIOUS
    <2>1. DOMAIN history = 1..Len(history) /\ Len(history) \in Nat
      BY DEF Types
    <2>2. i \in 1..Len(history) /\ k \in 1..Len(history)
      BY <2>1 DEF IsLastTurn
    <2> QED
      BY <2>2, <2>1 DEF IsLastTurn
  <1> QED
    BY <1>1 DEF IsLastTurn, Transcript!LastTurn

\* Nothing is outstanding once the last turn has a result for each of its calls.
LEMMA NoneOutstanding ==
  ASSUME Types, NEW i \in DOMAIN history, IsLastTurn(i),
         Len(history) - i >= Len(history[i].calls)
  PROVE  Transcript!Outstanding = <<>>
  <1> DEFINE c == history[i].calls
  <1>1. i \in 1..Len(history) /\ Len(history) \in Nat
    BY DEF Types
  <1>2. history[i] \in Messages
    BY <1>1 DEF Types
  <1>3. c \in Seq(Tools) /\ Len(c) \in Nat
    BY <1>2, CallListFacts, BoundsAreNat DEF Messages
  <1>4. SubSeq(c, Len(history) - i + 1, Len(c)) = <<>>
    BY <1>1, <1>3
  <1> QED
    BY <1>4, LastTurnIs DEF Transcript!Outstanding

\* The messages of the transcript are messages.
LEMMA MessageFacts ==
  /\ Transcript!System \in Messages /\ Transcript!System.role = "system"
  /\ Transcript!System.calls = <<>>
  /\ Transcript!User \in Messages /\ Transcript!User.role = "user"
  /\ Transcript!User.calls = <<>>
  /\ Transcript!Assistant \in Messages /\ Transcript!Assistant.role = "assistant"
  /\ Transcript!Assistant.calls = <<>>
  /\ \A c \in CallLists : /\ Transcript!Calls(c) \in Messages
                          /\ Transcript!Calls(c).role = "calls"
                          /\ Transcript!Calls(c).calls = c
  /\ \A t \in Tools : Transcript!Result(t) \in Messages /\ Transcript!Result(t).role = "tool"
  BY DEF Messages, Transcript!System, Transcript!User, Transcript!Assistant,
         Transcript!Calls, Transcript!Result, Transcript!Message

\* What a push does to the history and to the turns counted.
LEMMA PushFacts ==
  ASSUME Types, IsFiniteSet(Rounds), NEW m \in Messages, Push(m)
  PROVE  /\ history' \in Seq(Messages) /\ Len(history') = Len(history) + 1
         /\ Len(history) \in Nat
         /\ DOMAIN history = 1..Len(history) /\ DOMAIN history' = 1..(Len(history) + 1)
         /\ \A i \in 1..Len(history) : history'[i] = history[i]
         /\ history'[Len(history) + 1] = m
         /\ m.role = "user" => Rounds' = {}
         /\ m.role \notin {"user", "calls"} => Rounds' = Rounds
         /\ m.role = "calls" => /\ IsFiniteSet(Rounds')
                                /\ Cardinality(Rounds') = Cardinality(Rounds) + 1
  <1> DEFINE n == Len(history)
  <1>1. history' = Append(history, m) /\ history \in Seq(Messages)
    BY DEF Push, Types
  <1>2. /\ history' \in Seq(Messages) /\ Len(history') = n + 1 /\ n \in Nat
        /\ DOMAIN history = 1..n /\ DOMAIN history' = 1..(n + 1)
        /\ \A i \in 1..n : history'[i] = history[i]
        /\ history'[n + 1] = m
    BY <1>1
  <1>3. ASSUME NEW i \in 1..(n + 1)
        PROVE  i \in Rounds' <=> /\ m.role # "user"
                                 /\ (i = n + 1 /\ m.role = "calls") \/ i \in Rounds
    <2>1. i \in Rounds' <=> /\ history'[i].role = "calls"
                            /\ \A j \in i..(n + 1) : history'[j].role # "user"
      BY <1>2 DEF Rounds
    <2>2. CASE i = n + 1
      <3>1. i \notin Rounds
        BY <1>2, <2>2 DEF Rounds
      <3> QED
        BY <1>2, <2>1, <2>2, <3>1
    <2>3. CASE i # n + 1
      <3>1. i \in 1..n /\ history'[i] = history[i]
        BY <1>2, <2>3
      <3>2. i \in Rounds <=> /\ history[i].role = "calls"
                             /\ \A j \in i..n : history[j].role # "user"
        BY <1>2, <3>1 DEF Rounds
      <3>3. (\A j \in i..(n + 1) : history'[j].role # "user")
                <=> (\A j \in i..n : history[j].role # "user") /\ m.role # "user"
        BY <1>2, <3>1
      <3> QED
        BY <2>1, <2>3, <3>1, <3>2, <3>3
    <2> QED
      BY <2>2, <2>3
  <1>4. Rounds \subseteq 1..n /\ Rounds' \subseteq 1..(n + 1)
    BY <1>2 DEF Rounds
  <1> HIDE DEF n
  <1>5. m.role = "user" => Rounds' = {}
    BY <1>3, <1>4
  <1>6. m.role \notin {"user", "calls"} => Rounds' = Rounds
    <2> SUFFICES ASSUME m.role \notin {"user", "calls"}
                 PROVE  \A i : i \in Rounds' <=> i \in Rounds
      BY Zenon
    <2>1. Rounds \subseteq 1..(n + 1)
      BY <1>2, <1>4 DEF n
    <2> QED
      BY <2>1, <1>3, <1>4
  <1>7. ASSUME m.role = "calls"
        PROVE  IsFiniteSet(Rounds') /\ Cardinality(Rounds') = Cardinality(Rounds) + 1
    <2>1. Rounds \subseteq 1..(n + 1) /\ n + 1 \in 1..(n + 1) /\ n + 1 \notin Rounds
      BY <1>2, <1>4 DEF n
    <2>2. \A i : i \in Rounds' <=> i \in Rounds \/ i = n + 1
      BY <2>1, <1>3, <1>4, <1>7
    <2>3. Rounds' = Rounds \cup {n + 1}
      BY <2>2, Zenon
    <2> QED
      BY <2>1, <2>3, FS_AddElement
  <1> QED
    BY <1>2, <1>5, <1>6, <1>7 DEF n

------------------------------------------------------------------------------
LEMMA InitIInv == Init => IInv
  <1> SUFFICES ASSUME Init PROVE IInv
    OBVIOUS
  <1>1. history = <<Transcript!System>> /\ pc = "idle"
    BY DEF Init
  <1>2. Len(history) = 1 /\ history[1] = Transcript!System /\ history \in Seq(Messages)
        /\ DOMAIN history = 1..1
    BY <1>1, MessageFacts
  <1>3. Types
    BY <1>2, BoundsAreNat DEF Init, Types
  <1>4. Rounds = {}
    BY <1>2, MessageFacts DEF Rounds
  <1>5. IsFiniteSet(Rounds) /\ Cardinality(Rounds) = 0
    BY <1>4, FS_EmptySet
  <1>6. Counted
    BY <1>1, <1>5, BoundsAreNat DEF Counted, RoundsBounded, Init
  <1>7. IsLastTurn(1) /\ Len(history) - 1 >= Len(history[1].calls)
    BY <1>2, MessageFacts DEF IsLastTurn
  <1>8. Answered
    BY <1>2, <1>7 DEF Answered
  <1> QED
    BY <1>1, <1>3, <1>6, <1>8 DEF IInv, InRound, ItsTurn

\* The history stays one of messages after the system's.
Kept == history \in Seq(Messages) /\ Len(history) >= 1 /\ history[1] = Transcript!System

LEMMA PushKeeps ==
  ASSUME Types, IsFiniteSet(Rounds), NEW m \in Messages, Push(m)
  PROVE  Kept'
  <1>1. 1 \in 1..Len(history) /\ history[1] = Transcript!System
    BY DEF Types
  <1>2. Transcript!System' = Transcript!System
    BY DEF Transcript!System, Transcript!Message
  <1> QED
    BY <1>1, <1>2, PushFacts DEF Kept

\* A turn that is no tool result is the last when it is pushed.
LEMMA NewTurn ==
  ASSUME Types, IsFiniteSet(Rounds), NEW m \in Messages, Push(m), m.role # "tool"
  PROVE  /\ Len(history') \in DOMAIN history' /\ history'[Len(history')] = m
         /\ \A i : i = Len(history') => IsLastTurn(i)'
  BY PushFacts DEF IsLastTurn

\* A turn without calls leaves nothing to be answered.
LEMMA PlainTurn ==
  ASSUME Types, IsFiniteSet(Rounds), NEW m \in Messages, Push(m), m.role # "tool",
         m.calls = <<>>
  PROVE  Answered'
  <1>1. Len(history') \in Nat /\ Len(<<>>) = 0
    BY PushFacts
  <1> QED
    BY <1>1, NewTurn DEF Answered

\* A tool result leaves the last turn where it is.
LEMMA TurnStays ==
  ASSUME Types, IsFiniteSet(Rounds), NEW m \in Messages, Push(m), m.role = "tool",
         NEW i, IsLastTurn(i)
  PROVE  i \in 1..Len(history) /\ history'[i] = history[i] /\ IsLastTurn(i)'
  BY PushFacts DEF IsLastTurn

LEMMA StepIInv == IInv /\ [Next]_vars => IInv'
  <1> SUFFICES ASSUME IInv, [Next]_vars PROVE IInv'
    OBVIOUS
  <1>0. /\ Types /\ IsFiniteSet(Rounds) /\ max_tool_rounds \in Nat /\ MaxCalls \in Nat
        /\ round \in Nat /\ done \in Nat /\ Len(history) \in Nat
    BY BoundsAreNat DEF IInv, Counted, Types
  <1>1. CASE Prompt
    <2> DEFINE m == Transcript!User
    <2>1. /\ Push(m) /\ Iterate(0) /\ UNCHANGED <<tool_calls, done>>
          /\ m \in Messages /\ m.role = "user" /\ m.calls = <<>>
      BY <1>1, MessageFacts DEF Prompt
    <2> HIDE DEF m
    <2>2. Kept' /\ Answered' /\ history'[Len(history')] = m
      BY <1>0, <2>1, PushKeeps, PlainTurn, NewTurn
    <2>3. IsFiniteSet(Rounds') /\ Cardinality(Rounds') = 0
      BY <1>0, <2>1, PushFacts, FS_EmptySet
    <2>4. /\ round' = 0
          /\ \/ pc' = "chat" /\ outcome' = "none" /\ 0 < max_tool_rounds
             \/ pc' = "idle" /\ outcome' = "exceeded"
      BY <1>0, <2>1 DEF Iterate, End
    <2>5. Types'
      BY <1>0, <2>1, <2>2, <2>4 DEF Types, Kept
    <2>6. Counted'
      BY <1>0, <2>3, <2>4 DEF Counted, RoundsBounded
    <2> QED
      BY <2>1, <2>2, <2>4, <2>5, <2>6 DEF IInv, InRound, ItsTurn
  <1>2. CASE LlmFails
    <2>1. /\ pc = "chat" /\ pc' = "idle" /\ outcome' = "failed"
          /\ UNCHANGED <<history, round, tool_calls, done>>
      BY <1>2 DEF LlmFails, End
    <2>2. Types'
      BY <1>0, <2>1 DEF Types, Transcript!System, Transcript!Message
    <2>3. Rounds' = Rounds
      BY <2>1 DEF Rounds
    <2>4. Counted'
      BY <1>0, <2>1, <2>3 DEF IInv, Counted, RoundsBounded
    <2>5. Answered'
      BY <2>1 DEF IInv, Answered, IsLastTurn
    <2> QED
      BY <2>1, <2>2, <2>4, <2>5 DEF IInv, InRound, ItsTurn
  <1>3. CASE LlmAnswers
    <2> DEFINE m == Transcript!Assistant
    <2>1. /\ Push(m) /\ m \in Messages /\ m.role = "assistant" /\ m.calls = <<>>
          /\ pc = "chat" /\ pc' = "idle" /\ outcome' = "answered"
          /\ UNCHANGED <<round, tool_calls, done>>
      BY <1>3, MessageFacts DEF LlmAnswers, End
    <2> HIDE DEF m
    <2>2. Kept' /\ Answered'
      BY <1>0, <2>1, PushKeeps, PlainTurn
    <2>3. Rounds' = Rounds
      BY <1>0, <2>1, PushFacts
    <2>4. Types'
      BY <1>0, <2>1, <2>2 DEF Types, Kept
    <2>5. Counted'
      BY <1>0, <2>1, <2>3 DEF IInv, Counted, RoundsBounded
    <2> QED
      BY <2>1, <2>2, <2>4, <2>5 DEF IInv, InRound, ItsTurn
  <1>4. CASE LlmCallsTools
    <2>1. PICK r \in ChatResults : /\ r.is = "calls" /\ tool_calls' = r.calls
                                   /\ Push(Transcript!Calls(r.calls))
      BY <1>4 DEF LlmCallsTools
    <2> DEFINE m == Transcript!Calls(r.calls)
    <2>2. r.calls \in CallLists /\ Push(m) /\ m \in Messages /\ m.role = "calls"
      BY <2>1, ChatFacts, MessageFacts
    <2>3. /\ pc = "chat" /\ pc' = "tool" /\ done' = 0 /\ UNCHANGED <<round, outcome>>
          /\ Len(tool_calls') > 0 /\ tool_calls' \in CallLists
      BY <1>4, <2>1, <2>2, CallListFacts DEF LlmCallsTools
    <2>4. m = Transcript!Calls(tool_calls)'
      BY <2>1 DEF Transcript!Calls, Transcript!Message
    <2> HIDE DEF m
    <2>5. Kept' /\ Len(history') \in Nat /\ history'[Len(history')] = m
          /\ \A i : i = Len(history') => IsLastTurn(i)'
      BY <1>0, <2>2, PushKeeps, NewTurn, PushFacts
    <2>6. IsFiniteSet(Rounds') /\ Cardinality(Rounds') = Cardinality(Rounds) + 1
      BY <1>0, <2>2, PushFacts
    <2>7. Types'
      BY <1>0, <2>3, <2>5 DEF Types, Kept
    <2>8. Counted'
      BY <1>0, <2>3, <2>6 DEF IInv, Counted, RoundsBounded
    <2>9. Len(history') - done' = Len(history')
      BY <2>3, <2>5
    <2>10. InRound'
      BY <2>3, <2>4, <2>5, <2>9 DEF InRound
    <2> QED
      BY <2>3, <2>7, <2>8, <2>10 DEF IInv, Answered, ItsTurn
  <1>5. CASE ToolReturns
    <2>0. PICK i : i = Len(history) - done
      OBVIOUS
    <2> DEFINE m == Transcript!Result(tool_calls[done + 1])
    <2>1. /\ pc = "tool" /\ IsLastTurn(i) /\ history[i] = Transcript!Calls(tool_calls)
          /\ tool_calls \in CallLists /\ done < Len(tool_calls)
          /\ Cardinality(Rounds) = round + 1 /\ round < max_tool_rounds /\ outcome = "none"
      BY <1>5, <2>0 DEF ToolReturns, IInv, InRound, Counted
    <2>2. tool_calls \in Seq(Tools) /\ Len(tool_calls) \in 0..MaxCalls
      BY <2>1, CallListFacts
    <2>3. tool_calls[done + 1] \in Tools
      BY <1>0, <2>1, <2>2
    <2>4. /\ Push(m) /\ NextCall /\ m \in Messages /\ m.role = "tool"
      BY <1>5, <2>3, MessageFacts DEF ToolReturns, Report
    <2> HIDE DEF m
    <2>5. Kept' /\ i \in 1..Len(history) /\ history'[i] = history[i] /\ IsLastTurn(i)'
      BY <1>0, <2>1, <2>4, PushKeeps, TurnStays
    <2>6. /\ Rounds' = Rounds /\ Len(history') = Len(history) + 1
          /\ history'[Len(history')] = m /\ DOMAIN history' = 1..(Len(history) + 1)
      BY <1>0, <2>4, PushFacts
    <2>7. Transcript!Calls(tool_calls).calls = tool_calls
      BY <2>1, MessageFacts
    <2>8. CASE done + 1 < Len(tool_calls)
      <3>1. done' = done + 1 /\ UNCHANGED <<pc, round, tool_calls, outcome>>
        BY <2>4, <2>8 DEF NextCall
      <3>2. Types'
        BY <1>0, <2>2, <2>5, <2>8, <3>1 DEF Types, Kept
      <3>3. Len(history') - done' = i
        BY <1>0, <2>0, <2>6, <3>1
      <3>4. Transcript!Calls(tool_calls)' = Transcript!Calls(tool_calls)
        BY <3>1 DEF Transcript!Calls, Transcript!Message
      <3>5. InRound'
        BY <2>1, <2>5, <2>8, <3>1, <3>3, <3>4 DEF InRound
      <3>6. Counted'
        BY <1>0, <2>1, <2>6, <3>1 DEF IInv, Counted, RoundsBounded
      <3> QED
        BY <2>1, <3>1, <3>2, <3>5, <3>6 DEF IInv, Answered, ItsTurn
    <2>9. CASE ~(done + 1 < Len(tool_calls))
      <3>1. /\ done' = 0 /\ tool_calls' = <<>> /\ round' = round + 1
            /\ \/ pc' = "chat" /\ outcome' = "none" /\ round + 1 < max_tool_rounds
               \/ pc' = "idle" /\ outcome' = "exceeded"
        BY <2>4, <2>9 DEF NextCall, Iterate, End
      <3>2. Types'
        BY <1>0, <2>1, <2>5, <3>1 DEF Types, Kept
      <3>3. Len(history') - i >= Len(history'[i].calls)
        BY <1>0, <2>0, <2>1, <2>2, <2>5, <2>6, <2>7, <2>9
      <3>4. Answered'
        BY <2>5, <2>6, <3>3 DEF Answered
      <3>5. ItsTurn'
        BY <2>4, <2>6 DEF ItsTurn
      <3>6. Counted'
        BY <1>0, <2>1, <2>6, <3>1 DEF IInv, Counted, RoundsBounded
      <3> QED
        BY <3>1, <3>2, <3>4, <3>5, <3>6 DEF IInv, InRound
    <2> QED
      BY <2>8, <2>9
  <1>6. CASE ClearHistory
    <2>1. /\ pc = "idle" /\ history' = <<history[1]>> /\ history[1] = Transcript!System
          /\ UNCHANGED <<pc, round, tool_calls, done, outcome>>
      BY <1>6 DEF ClearHistory, IInv, Types
    <2>2. /\ Len(history') = 1 /\ history'[1] = Transcript!System
          /\ history' \in Seq(Messages) /\ DOMAIN history' = 1..1
      BY <2>1, MessageFacts
    <2>3. Transcript!System' = Transcript!System
      BY DEF Transcript!System, Transcript!Message
    <2>4. Types'
      BY <1>0, <2>1, <2>2, <2>3 DEF Types
    <2>5. Rounds' = {}
      BY <2>2, MessageFacts DEF Rounds
    <2>6. IsFiniteSet(Rounds') /\ Cardinality(Rounds') = 0
      BY <2>5, FS_EmptySet
    <2>7. history'[Len(history')].role # "assistant"
      BY <2>2, MessageFacts
    <2>8. Counted'
      BY <1>0, <2>1, <2>6, <2>7 DEF Counted, RoundsBounded
    <2>9. IsLastTurn(1)' /\ Len(history') - 1 >= Len(history'[1].calls) /\ 1 \in DOMAIN history'
      BY <2>2, MessageFacts DEF IsLastTurn
    <2>10. Answered'
      BY <2>9 DEF Answered
    <2> QED
      BY <2>1, <2>4, <2>8, <2>10 DEF IInv, InRound, ItsTurn
  <1>7. CASE UNCHANGED vars
    <2>1. UNCHANGED <<history, pc, round, tool_calls, done, outcome>>
      BY <1>7 DEF vars
    <2>2. Types'
      BY <1>0, <2>1 DEF Types, Transcript!System, Transcript!Message
    <2>3. InRound'
      BY <2>1 DEF IInv, InRound, IsLastTurn, Transcript!Calls, Transcript!Message
    <2>4. Answered' /\ ItsTurn'
      BY <2>1 DEF IInv, Answered, IsLastTurn, ItsTurn
    <2>5. Counted'
      BY <2>1 DEF IInv, Counted, RoundsBounded, Rounds
    <2> QED
      BY <2>2, <2>3, <2>4, <2>5 DEF IInv
  <1> QED
    BY <1>1, <1>2, <1>3, <1>4, <1>5, <1>6, <1>7 DEF Next, Loop

LEMMA Invariance == Spec => []IInv
  <1>1. Init => IInv
    BY InitIInv
  <1>2. IInv /\ [Next]_vars => IInv'
    BY StepIInv
  <1> QED
    BY <1>1, <1>2, PTL DEF Spec

LEMMA IInvImpliesTypeOK == IInv => TypeOK
  <1> SUFFICES ASSUME IInv, NEW i \in DOMAIN history
               PROVE  history[i] \in Messages
    BY DEF IInv, Types, TypeOK, Messages
  <1> QED
    BY DEF IInv, Types

\* The history holds messages, and the loop stays in its bounds.
THEOREM TypeInvariant == Spec => []TypeOK
  BY Invariance, IInvImpliesTypeOK, PTL

\* src/src/agent.rs: no prompt, whatever the LLM answers, runs more rounds of
\* tool calls than it may, and one that used them all is not answered.
THEOREM RoundsAreBounded == Spec => []RoundsBounded
  <1>1. IInv => RoundsBounded
    BY DEF IInv, Counted
  <1> QED
    BY <1>1, Invariance, PTL

------------------------------------------------------------------------------
LEMMA InitIsAbstract == Init => Transcript!Init
  BY DEF Init, Transcript!Init

LEMMA StepIsAbstract == IInv /\ [Next]_vars => [Transcript!Next]_history
  <1> SUFFICES ASSUME IInv, [Next]_vars PROVE [Transcript!Next]_history
    OBVIOUS
  <1>0. /\ Types /\ Len(history) \in Nat /\ done \in Nat /\ Len(history) >= 1
    BY DEF IInv, Types
  <1>1. pc # "tool" => Transcript!Outstanding = <<>>
    BY <1>0, NoneOutstanding DEF IInv, Answered
  <1>2. CASE Prompt
    <2>1. Transcript!UserSpeaks
      BY <1>1, <1>2 DEF Prompt, Push, Transcript!UserSpeaks
    <2> QED
      BY <2>1 DEF Transcript!Next
  <1>3. ASSUME pc = "chat",
               \/ Push(Transcript!Assistant)
               \/ \E names \in CallLists : Push(Transcript!Calls(names))
        PROVE  Transcript!Next
    <2>1. Transcript!Last.role \in {"user", "tool"}
      BY <1>3 DEF IInv, ItsTurn, Transcript!Last
    <2>2. Transcript!AssistantSpeaks
      BY <1>1, <1>3, <2>1 DEF Push, Transcript!AssistantSpeaks
    <2> QED
      BY <2>2 DEF Transcript!Next
  <1>4. CASE LlmAnswers
    BY <1>3, <1>4 DEF LlmAnswers
  <1>5. CASE LlmCallsTools
    <2>1. PICK r \in ChatResults : r.is = "calls" /\ Push(Transcript!Calls(r.calls))
      BY <1>5 DEF LlmCallsTools
    <2>2. r.calls \in CallLists
      BY <2>1, ChatFacts
    <2> QED
      BY <1>3, <1>5, <2>1, <2>2 DEF LlmCallsTools
  <1>6. CASE ToolReturns
    <2>0. PICK i : i = Len(history) - done
      OBVIOUS
    <2>1. /\ IsLastTurn(i) /\ history[i] = Transcript!Calls(tool_calls)
          /\ tool_calls \in CallLists /\ done < Len(tool_calls)
          /\ Push(Transcript!Result(tool_calls[done + 1]))
      BY <1>6, <2>0 DEF ToolReturns, Report, IInv, InRound
    <2>2. tool_calls \in Seq(Tools) /\ Len(tool_calls) \in Nat
      BY <2>1, CallListFacts, BoundsAreNat
    <2>3. history[i].calls = tool_calls /\ Transcript!LastTurn = i /\ Len(history) - i = done
      BY <1>0, <2>0, <2>1, LastTurnIs, MessageFacts
    <2>4. Transcript!Outstanding = SubSeq(tool_calls, done + 1, Len(tool_calls))
      BY <2>3 DEF Transcript!Outstanding
    <2>5. /\ SubSeq(tool_calls, done + 1, Len(tool_calls)) # <<>>
          /\ Head(SubSeq(tool_calls, done + 1, Len(tool_calls))) = tool_calls[done + 1]
      <3>1. done + 1 \in 1..Len(tool_calls) /\ Len(tool_calls) \in (done + 1)..Len(tool_calls)
        BY <1>0, <2>1, <2>2
      <3>2. Head(SubSeq(tool_calls, done + 1, Len(tool_calls))) = tool_calls[done + 1]
        BY <2>2, <3>1, HeadTailOfSubSeq
      <3>3. Len(SubSeq(tool_calls, done + 1, Len(tool_calls))) = Len(tool_calls) - done
        BY <1>0, <2>1, <2>2
      <3>4. Len(<<>>) = 0 /\ Len(tool_calls) - done # 0
        BY <1>0, <2>1, <2>2
      <3> QED
        BY <3>2, <3>3, <3>4, Zenon
    <2>6. Transcript!ToolSpeaks
      BY <2>1, <2>4, <2>5 DEF Push, Transcript!ToolSpeaks
    <2> QED
      BY <2>6 DEF Transcript!Next
  <1>7. CASE ClearHistory
    <2>1. history' = <<Transcript!System>> /\ pc = "idle"
      BY <1>7, <1>0 DEF ClearHistory, Types
    <2>2. Transcript!Forget
      BY <1>1, <2>1 DEF Transcript!Forget
    <2> QED
      BY <2>2 DEF Transcript!Next
  <1>8. CASE LlmFails \/ UNCHANGED vars
    BY <1>8 DEF LlmFails, vars
  <1> QED
    BY <1>2, <1>4, <1>5, <1>6, <1>7, <1>8 DEF Next, Loop

\* The history is a transcript a chat model can be sent, at every moment: a
\* call is answered once, in order, before anybody else speaks.
THEOREM KeepsTranscript == Spec => ImplementsTranscript
  <1>1. Init => Transcript!Init
    BY InitIsAbstract
  <1>2. IInv /\ [Next]_vars => [Transcript!Next]_history
    BY StepIsAbstract
  <1> QED
    BY <1>1, <1>2, Invariance, PTL DEF Spec, ImplementsTranscript, Transcript!Spec

------------------------------------------------------------------------------
(* Liveness, as far as it is a matter of steps: what is left of a prompt is  *)
(* a number that every step of the loop takes something from.                *)

\* A round asks the LLM once and calls at most MaxCalls tools.
RoundSteps == MaxCalls + 1
ToGo == CASE pc = "idle" -> 0
          [] pc = "chat" -> (max_tool_rounds - round) * RoundSteps
          [] pc = "tool" -> (max_tool_rounds - round) * RoundSteps - 1 - done

\* Whatever the LLM answers and the tools do, each answer brings the prompt
\* nearer to its end.
GetsNearer == /\ ToGo \in 0..(max_tool_rounds * RoundSteps)
              /\ Loop => ToGo' < ToGo
PromptAdvances == [][GetsNearer]_vars

LEMMA StepGetsNearer == IInv /\ Next => GetsNearer
  <1> SUFFICES ASSUME IInv, Next PROVE GetsNearer
    OBVIOUS
  <1> DEFINE R == max_tool_rounds - round
  <1>1. /\ max_tool_rounds \in Nat /\ MaxCalls \in Nat /\ RoundSteps \in Nat \ {0}
        /\ round \in 0..max_tool_rounds /\ R \in Nat
        /\ pc \in {"idle", "chat", "tool"} /\ done \in 0..MaxCalls
    BY BoundsAreNat DEF IInv, Types, RoundSteps
  <1>2. pc \in {"chat", "tool"} => R >= 1
    BY <1>1 DEF IInv, Counted
  <1>3. pc = "tool" => Len(tool_calls) \in 0..MaxCalls /\ done < Len(tool_calls)
    BY CallListFacts DEF IInv, Types, InRound
  <1>4. /\ R * RoundSteps \in Nat /\ R * RoundSteps <= max_tool_rounds * RoundSteps
        /\ (R - 1) * RoundSteps = R * RoundSteps - RoundSteps
        /\ R >= 1 => R * RoundSteps >= RoundSteps
    <2>1. \A a, b, n \in Nat : a <= b => a * n \in Nat /\ b * n \in Nat /\ a * n <= b * n
      OBVIOUS
    <2>2. \A a, n \in Nat : (a - 1) * n = a * n - n /\ 1 * n = n
      OBVIOUS
    <2> QED
      BY <1>1, <2>1, <2>2
  <1>5. ToGo \in 0..(max_tool_rounds * RoundSteps)
    <2>1. max_tool_rounds * RoundSteps \in Nat
      BY <1>1
    <2> HIDE DEF R
    <2>2. CASE pc = "idle"
      BY <2>1, <2>2 DEF ToGo
    <2>3. CASE pc = "chat"
      BY <1>4, <2>1, <2>3 DEF ToGo, R
    <2>4. CASE pc = "tool"
      <3>1. 1 + done <= R * RoundSteps
        BY <1>1, <1>2, <1>3, <1>4, <2>4 DEF RoundSteps
      <3>2. ToGo = R * RoundSteps - 1 - done
        BY <2>4 DEF ToGo, R
      <3> QED
        BY <1>1, <1>4, <2>1, <3>1, <3>2
    <2> QED
      BY <1>1, <2>2, <2>3, <2>4
  <1>6. ASSUME LlmFails \/ LlmAnswers PROVE ToGo' < ToGo
    BY <1>1, <1>2, <1>4, <1>6 DEF LlmFails, LlmAnswers, End, ToGo
  <1>7. ASSUME LlmCallsTools PROVE ToGo' < ToGo
    BY <1>1, <1>4, <1>7 DEF LlmCallsTools, ToGo
  <1>8. ASSUME ToolReturns PROVE ToGo' < ToGo
    <2>1. pc = "tool" /\ NextCall
      BY <1>8 DEF ToolReturns
    <2>2. CASE done + 1 < Len(tool_calls)
      BY <1>1, <1>4, <2>1, <2>2 DEF NextCall, ToGo
    <2>3. CASE ~ (done + 1 < Len(tool_calls))
      <3>1. round' = round + 1 /\ pc' \in {"chat", "idle"}
        BY <2>1, <2>3 DEF NextCall, Iterate, End
      <3>2. 1 + done < RoundSteps /\ R * RoundSteps - 1 - done > (R - 1) * RoundSteps
        BY <1>1, <1>3, <1>4, <2>1 DEF RoundSteps
      <3>3. R - 1 = max_tool_rounds - round' /\ R - 1 \in Nat
        BY <1>1, <1>2, <2>1, <3>1
      <3>4. (R - 1) * RoundSteps >= 0
        BY <1>1, <3>3
      <3>5. ToGo = R * RoundSteps - 1 - done
        BY <2>1 DEF ToGo
      <3>6. ToGo' = (R - 1) * RoundSteps \/ ToGo' = 0
        BY <3>1, <3>3 DEF ToGo, RoundSteps
      <3> HIDE DEF R
      <3> QED
        BY <1>1, <1>4, <3>2, <3>4, <3>5, <3>6
    <2> QED
      BY <2>2, <2>3
  <1> QED
    BY <1>5, <1>6, <1>7, <1>8 DEF GetsNearer, Loop

\* A prompt is over after at most max_tool_rounds rounds of one answer of the
\* LLM and its tool calls, whatever they are.
THEOREM PromptComesToAnEnd == Spec => PromptAdvances
  <1>1. IInv /\ [Next]_vars => [GetsNearer]_vars
    BY StepGetsNearer
  <1> QED
    BY <1>1, Invariance, PTL DEF Spec, PromptAdvances
==============================================================================
