------------------------ MODULE EngineHistoryProofs ------------------------
(***************************************************************************)
(* What the engine remembers, for any number of handlers and any bounds:   *)
(* KeysIsolated, HistoryChained, TurnsInOrder, QuestionKept,               *)
(* SaveKeepsHistory, and that it implements ConversationMemory; and when   *)
(* what comments promise of calls and clears is true.                      *)
(*                                                                         *)
(* None of the invariants is inductive: a save writes what its run loaded  *)
(* at some earlier time, so HInv also says what histories and steps are    *)
(* while they wait, and that nobody else knows of a turn before it has     *)
(* loaded its history.                                                     *)
(***************************************************************************)
EXTENDS EngineProofs, SequenceTheorems

\* All of s comes from updates of key k.
OfKey(s, k) == \A i \in 1 .. Len(s) : KeyOf[s[i].turn[1]] = k

\* The end of s is no tool call.
Settled(s) == s # <<>> => s[Len(s)].kind # "call"

\* a comes before b if both come from the same update, and from no
\* summarizer; in any case they are not the same message.
Before(a, b) ==
    /\ a # b
    /\ a.turn[1] = b.turn[1] /\ "summary" \notin {a.kind, b.kind} =>
          \/ a.turn[2] < b.turn[2]
          \/ a.turn[2] = b.turn[2] /\ a.idx < b.idx

Ordered(s) == \A i, j \in 1 .. Len(s) : i < j => Before(s[i], s[j])

\* u is in a run whose messages nobody else has seen, nor has the store.
Fresh(u) == pc[u] \in {"load", "start"}

\* m comes from a run that has begun, and not from a fresh one.
Known(m) ==
    LET u == m.turn[1] IN m.turn[2] < run[u] \/ (m.turn[2] = run[u] /\ ~Fresh(u))

StoreInv ==
    \A k \in Keys :
        /\ Linked(store[k]) /\ Settled(store[k]) /\ Ordered(store[k]) /\ OfKey(store[k], k)
        /\ \A i \in 1 .. Len(store[k]) : Known(store[k][i])

\* What u may send to the agent: its own messages in front of the steps,
\* and those of earlier turns.
Sendable(h, u) ==
    /\ Linked(h) /\ Settled(h) /\ Ordered(h) /\ OfKey(h, KeyOf[u])
    /\ \A i \in 1 .. Len(h) :
          IF h[i].turn = Turn(u) THEN h[i].idx <= 0 /\ h[i].kind # "summary"
          ELSE Known(h[i]) /\ (h[i].turn[1] = u => h[i].turn[2] < run[u])

HistoryInv ==
    \A u \in Updates :
        /\ Sendable(history[u], u)
        /\ pc[u] \in {"idle", "handler", "send"} => history[u] = <<>>

StepsInv ==
    \A u \in Updates :
        /\ Linked(steps[u]) /\ Settled(steps[u])
        /\ steps[u] # <<>> => steps[u][1].kind # "result"
        /\ \A i \in 1 .. Len(steps[u]) :
              steps[u][i].turn = Turn(u) /\ steps[u][i].idx = i /\ steps[u][i].kind # "summary"
        /\ pc[u] \in {"idle", "handler", "send", "load", "start"} => steps[u] = <<>>

HInv == TypeOK /\ StoreInv /\ HistoryInv /\ StepsInv

-----------------------------------------------------------------------------
(* What a step does to one goroutine and to one key. *)

Resting == {"idle", "handler", "send"}
BeforeAgent == Resting \cup {"load", "start"}

RunMoves(w) ==
    \/ run'[w] = run[w] /\ (Fresh(w)' => Fresh(w))
    \/ run'[w] = run[w] + 1 /\ pc[w] = "handler"

HistoryMoves(w) ==
    \/ history'[w] = history[w] /\ (pc'[w] \in Resting => pc[w] \in Resting)
    \/ history'[w] = <<>>
    \/ LoadMemory(w)

StepsMoves(w) ==
    \/ steps'[w] = steps[w] /\ (pc'[w] \in BeforeAgent => pc[w] \in BeforeAgent)
    \/ steps'[w] = <<>>
    \/ ToolStep(w) /\ pc'[w] \notin BeforeAgent
    \/ FinalText(w)

StoreMoves(k) ==
    \/ store'[k] = store[k]
    \/ store'[k] = <<>>
    \/ \E u \in Updates : SaveMemory(u) /\ k = KeyOf[u] /\ store'[k] \in Kept(u, Updated(u))

LEMMA Moves ==
  ASSUME TypeOK, [Next]_vars, NEW w \in Updates
  PROVE  RunMoves(w) /\ HistoryMoves(w) /\ StepsMoves(w)
<1> USE DEF TypeOK, Fresh, Resting, BeforeAgent, RunMoves, HistoryMoves, StepsMoves
<1>1. CASE UNCHANGED vars
  BY <1>1 DEF vars, turnVars
<1>2. ASSUME NEW u \in Updates, Handle(u) \/ Return(u) \/ SendReply(u) \/ Expire(u)
      PROVE  RunMoves(w) /\ HistoryMoves(w) /\ StepsMoves(w)
  BY <1>2 DEF Handle, Return, SendReply, Expire, turnVars
<1>3. ASSUME NEW u \in Updates, RunLLM(u)
      PROVE  RunMoves(w) /\ HistoryMoves(w) /\ StepsMoves(w)
  BY <1>3 DEF RunLLM
<1>4. ASSUME NEW u \in Updates, LoadMemory(u)
      PROVE  RunMoves(w) /\ HistoryMoves(w) /\ StepsMoves(w)
  <2>1. run' = run /\ steps' = steps
    BY <1>4 DEF LoadMemory
  <2>2. pc[u] = "load" /\ \E p \in {"start", "llm"} : pc' = [pc EXCEPT ![u] = p]
    BY <1>4 DEF LoadMemory
  <2>3. history'[w] = history[w] \/ w = u
    BY <1>4 DEF LoadMemory
  <2> QED BY <1>4, <2>1, <2>2, <2>3
<1>5. ASSUME NEW u \in Updates, StartStream(u)
      PROVE  RunMoves(w) /\ HistoryMoves(w) /\ StepsMoves(w)
  <2>1. run' = run /\ steps' = steps /\ history' = history
    BY <1>5 DEF StartStream
  <2>2. pc[u] = "start" /\ \E p \in {"load", "llm"} : pc' = [pc EXCEPT ![u] = p]
    BY <1>5 DEF StartStream
  <2> QED BY <2>1, <2>2
<1>6. ASSUME NEW u \in Updates, TextDelta(u) \/ StreamEnd(u)
      PROVE  RunMoves(w) /\ HistoryMoves(w) /\ StepsMoves(w)
  <2>1. run' = run /\ steps' = steps /\ history' = history
    BY <1>6 DEF TextDelta, StreamEnd
  <2>2. \E p \in {"llm", "error", "save"} : pc' = [pc EXCEPT ![u] = p]
    BY <1>6 DEF TextDelta, StreamEnd
  <2> QED BY <2>1, <2>2
<1>7. ASSUME NEW u \in Updates, Tool(u)
      PROVE  RunMoves(w) /\ HistoryMoves(w) /\ StepsMoves(w)
  <2>1. ToolStep(u) /\ UNCHANGED <<run, history>>
    BY <1>7 DEF Tool, ClearContext, SendTool, OtherTool
  <2>2. pc' = pc \/ \E p \in {"end", "save"} : pc' = [pc EXCEPT ![u] = p]
    BY <1>7 DEF Tool, ClearContext, SendTool, OtherTool, AgentDone
  <2>3. w = u \/ steps'[w] = steps[w]
    BY <2>1 DEF ToolStep
  <2>4. pc[u] = "llm"
    BY <2>1 DEF ToolStep
  <2>5. CASE w = u
    <3>1. pc'[w] \notin BeforeAgent
      BY <2>2, <2>4, <2>5
    <3> QED BY <2>1, <2>2, <2>4, <2>5, <3>1
  <2>6. CASE w # u
    BY <2>1, <2>2, <2>3, <2>6
  <2> QED BY <2>5, <2>6
<1>8. ASSUME NEW u \in Updates, FinalText(u) \/ StopAfterTools(u)
      PROVE  RunMoves(w) /\ HistoryMoves(w) /\ StepsMoves(w)
  <2>1. UNCHANGED <<run, history>> /\ (steps' = steps \/ FinalText(u))
    BY <1>8 DEF FinalText, StopAfterTools
  <2>2. pc[u] = "llm" /\ \E p \in {"end", "save"} : pc' = [pc EXCEPT ![u] = p]
    BY <1>8 DEF FinalText, StopAfterTools, AgentDone
  <2>3. w = u \/ steps'[w] = steps[w]
    BY <2>1 DEF FinalText
  <2> QED BY <2>1, <2>2, <2>3
<1>9. ASSUME NEW u \in Updates, AgentFails(u) \/ StreamError(u) \/ SaveMemory(u)
      PROVE  RunMoves(w) /\ HistoryMoves(w) /\ StepsMoves(w)
  <2>1. run' = run /\ DropMessages(u)
    BY <1>9 DEF AgentFails, StreamError, SaveMemory
  <2>2. \E p \in {"error", "handler", "send"} : pc' = [pc EXCEPT ![u] = p]
    BY <1>9 DEF AgentFails, StreamError, SaveMemory
  <2>3. /\ history'[w] = (IF w = u THEN <<>> ELSE history[w])
        /\ steps'[w] = (IF w = u THEN <<>> ELSE steps[w])
    BY <2>1 DEF DropMessages
  <2> QED BY <2>1, <2>2, <2>3
<1>10. CASE Crash \/ \E k \in Keys : DropKey(k)
  BY <1>10 DEF Crash, DropKey, turnVars
<1> QED BY <1>1, <1>2, <1>3, <1>4, <1>5, <1>6, <1>7, <1>8, <1>9, <1>10 DEF Next, Goroutine, Agent

LEMMA StoreMove ==
  ASSUME TypeOK, [Next]_vars, NEW k \in Keys
  PROVE  StoreMoves(k)
<1> USE DEF StoreMoves
<1>1. CASE UNCHANGED store
  BY <1>1
<1>2. ASSUME NEW u \in Updates, ClearContext(u) PROVE StoreMoves(k)
  <2>1. store' = store \/ store' = [store EXCEPT ![KeyOf[u]] = <<>>]
    BY <1>2 DEF ClearContext, ClearKey
  <2> QED BY <2>1 DEF TypeOK
<1>3. ASSUME NEW u \in Updates, SaveMemory(u) PROVE StoreMoves(k)
  <2>1. \/ store' = store
        \/ \E kept \in Kept(u, Updated(u)) : store' = [store EXCEPT ![KeyOf[u]] = kept]
    BY <1>3 DEF SaveMemory, MemKey, StreamKey, CallKey
  <2> QED BY <1>3, <2>1 DEF TypeOK
<1>4. CASE Crash \/ \E x \in Keys : DropKey(x)
  BY <1>4 DEF Crash, DropKey, TypeOK
<1>5. ASSUME NEW u \in Updates,
             Handle(u) \/ RunLLM(u) \/ Return(u) \/ LoadMemory(u) \/ StartStream(u) \/ SendReply(u)
      PROVE  StoreMoves(k)
  <2>1. UNCHANGED store
    BY <1>5 DEF Handle, RunLLM, Return, LoadMemory, StartStream, SendReply
  <2> QED BY <2>1
<1>6. ASSUME NEW u \in Updates,
             \/ StreamError(u) \/ StreamEnd(u) \/ TextDelta(u) \/ SendTool(u) \/ OtherTool(u)
             \/ FinalText(u) \/ StopAfterTools(u) \/ AgentFails(u) \/ Expire(u)
      PROVE  StoreMoves(k)
  <2>1. UNCHANGED store
    BY <1>6 DEF StreamError, StreamEnd, TextDelta, SendTool, OtherTool, FinalText,
                StopAfterTools, AgentFails, Expire
  <2> QED BY <2>1
<1> QED BY <1>1, <1>2, <1>3, <1>4, <1>5, <1>6 DEF Next, Goroutine, Agent, Tool, vars

-----------------------------------------------------------------------------
(* Sequences of messages. *)

LEMMA ConcatElement ==
  ASSUME NEW s \in Seq(Message), NEW t \in Seq(Message), NEW i \in 1 .. Len(s \o t)
  PROVE  /\ i <= Len(s) => i \in 1 .. Len(s) /\ (s \o t)[i] = s[i]
         /\ i > Len(s) => i - Len(s) \in 1 .. Len(t) /\ (s \o t)[i] = t[i - Len(s)]
OBVIOUS

LEMMA ConcatLinked ==
  ASSUME NEW s \in Seq(Message), NEW t \in Seq(Message), Linked(s), Linked(t),
         s # <<>> /\ t # <<>> => Link(s[Len(s)], t[1])
  PROVE  Linked(s \o t)
<1> SUFFICES ASSUME NEW i \in 1 .. Len(s \o t) - 1
             PROVE  Link((s \o t)[i], (s \o t)[i + 1])
  BY DEF Linked
<1>1. Len(s \o t) = Len(s) + Len(t) /\ Len(s) \in Nat /\ Len(t) \in Nat
  OBVIOUS
<1>2. CASE i < Len(s)
  <2>1. (s \o t)[i] = s[i] /\ (s \o t)[i + 1] = s[i + 1] /\ i \in 1 .. Len(s) - 1
    BY <1>1, <1>2
  <2> QED BY <2>1 DEF Linked
<1>3. CASE i = Len(s)
  <2>1. (s \o t)[i] = s[Len(s)] /\ (s \o t)[i + 1] = t[1] /\ s # <<>> /\ t # <<>>
    BY <1>1, <1>3
  <2> QED BY <2>1
<1>4. CASE i > Len(s)
  <2> DEFINE j == i - Len(s)
  <2>1. (s \o t)[i] = t[j] /\ (s \o t)[i + 1] = t[j + 1] /\ j \in 1 .. Len(t) - 1
    BY <1>1, <1>4
  <2> QED BY <2>1 DEF Linked
<1> QED BY <1>1, <1>2, <1>3, <1>4

LEMMA ConcatSettled ==
  ASSUME NEW s \in Seq(Message), NEW t \in Seq(Message), Settled(s), Settled(t)
  PROVE  Settled(s \o t)
<1>1. CASE t = <<>>
  BY <1>1 DEF Settled
<1>2. CASE t # <<>>
  <2>1. (s \o t)[Len(s \o t)] = t[Len(t)]
    BY <1>2
  <2> QED BY <1>2, <2>1 DEF Settled
<1> QED BY <1>1, <1>2

LEMMA ConcatOrdered ==
  ASSUME NEW s \in Seq(Message), NEW t \in Seq(Message), Ordered(s), Ordered(t),
         \A i \in 1 .. Len(s), j \in 1 .. Len(t) : Before(s[i], t[j])
  PROVE  Ordered(s \o t)
<1> SUFFICES ASSUME NEW i \in 1 .. Len(s \o t), NEW j \in 1 .. Len(s \o t), i < j
             PROVE  Before((s \o t)[i], (s \o t)[j])
  BY DEF Ordered
<1>1. Len(s) \in Nat /\ Len(t) \in Nat
  OBVIOUS
<1>2. CASE j <= Len(s)
  BY <1>1, <1>2, ConcatElement DEF Ordered
<1>3. CASE i <= Len(s) /\ j > Len(s)
  BY <1>1, <1>3, ConcatElement
<1>4. CASE i > Len(s)
  <2>1. i - Len(s) < j - Len(s)
    BY <1>1
  <2> QED BY <1>1, <1>4, <2>1, ConcatElement DEF Ordered
<1> QED BY <1>1, <1>2, <1>3, <1>4

\* t is the end of s, from some place on.
EndOf(t, s) ==
    \E d \in Nat : /\ Len(t) = Len(s) - d
                   /\ \A i \in 1 .. Len(s) - d : i + d \in 1 .. Len(s) /\ t[i] = s[i + d]

LEMMA KeepLastSuffix ==
  ASSUME NEW s \in Seq(Message)
  PROVE  EndOf(KeepLast(s), s)
<1>1. CASE MaxMsgs > 0 /\ Len(s) > MaxMsgs
  <2> DEFINE d == Len(s) - MaxMsgs
  <2>0. Len(s) \in Nat /\ MaxMsgs \in Nat
    BY MemoryAssumption
  <2>1. d \in Nat /\ d < Len(s) /\ KeepLast(s) = SubSeq(s, d + 1, Len(s))
    BY <1>1, <2>0 DEF KeepLast
  <2>2. /\ Len(KeepLast(s)) = Len(s) - d
        /\ \A i \in 1 .. Len(s) - d : i + d \in 1 .. Len(s) /\ KeepLast(s)[i] = s[i + d]
    BY <2>0, <2>1
  <2> QED BY <2>1, <2>2 DEF EndOf
<1>2. CASE ~(MaxMsgs > 0 /\ Len(s) > MaxMsgs)
  <2>1. KeepLast(s) = s
    BY <1>2 DEF KeepLast
  <2>2. \A i \in 1 .. Len(s) - 0 : i + 0 \in 1 .. Len(s) /\ s[i] = s[i + 0]
    OBVIOUS
  <2> QED BY <2>1, <2>2 DEF EndOf
<1> QED BY <1>1, <1>2

LEMMA SubSeqSuffix ==
  ASSUME NEW s \in Seq(Message), NEW cut \in 0 .. Len(s)
  PROVE  SubSeq(s, cut + 1, Len(s)) \in Seq(Message) /\ EndOf(SubSeq(s, cut + 1, Len(s)), s)
<1> DEFINE t == SubSeq(s, cut + 1, Len(s))
<1>1. t \in Seq(Message) /\ Len(t) = Len(s) - cut
  OBVIOUS
<1>2. \A i \in 1 .. Len(s) - cut : i + cut \in 1 .. Len(s) /\ t[i] = s[i + cut]
  OBVIOUS
<1>3. cut \in Nat
  OBVIOUS
<1> HIDE DEF t
<1>4. EndOf(t, s)
  BY <1>1, <1>2, <1>3 DEF EndOf
<1> QED BY <1>1, <1>4 DEF t

LEMMA EndKeeps ==
  ASSUME NEW s \in Seq(Message), NEW t \in Seq(Message), EndOf(t, s), NEW k
  PROVE  /\ Linked(s) => Linked(t)
         /\ Settled(s) => Settled(t)
         /\ Ordered(s) => Ordered(t)
         /\ OfKey(s, k) => OfKey(t, k)
<1>1. PICK d \in Nat :
         /\ Len(t) = Len(s) - d
         /\ \A i \in 1 .. Len(s) - d : i + d \in 1 .. Len(s) /\ t[i] = s[i + d]
  BY DEF EndOf
<1>2. Len(s) \in Nat
  OBVIOUS
<1>3. ASSUME Linked(s) PROVE Linked(t)
  <2> SUFFICES ASSUME NEW i \in 1 .. Len(t) - 1
               PROVE  Link(t[i], t[i + 1])
    BY DEF Linked
  <2>1. i \in 1 .. Len(s) - d /\ i + 1 \in 1 .. Len(s) - d
    BY <1>1, <1>2
  <2>2. t[i] = s[i + d] /\ t[i + 1] = s[(i + 1) + d]
    BY <1>1, <2>1
  <2>3. (i + 1) + d = (i + d) + 1 /\ i + d \in 1 .. Len(s) - 1
    BY <1>2, <2>1
  <2> QED BY <1>3, <2>2, <2>3 DEF Linked
<1>4. ASSUME Settled(s) PROVE Settled(t)
  <2> SUFFICES ASSUME t # <<>>
               PROVE  t[Len(t)].kind # "call"
    BY DEF Settled
  <2>1. Len(s) - d \in 1 .. Len(s) - d
    BY <1>1, <1>2
  <2>2. t[Len(t)] = s[Len(s)] /\ s # <<>>
    BY <1>1, <1>2, <2>1
  <2> QED BY <1>4, <2>2 DEF Settled
<1>5. ASSUME Ordered(s) PROVE Ordered(t)
  <2> SUFFICES ASSUME NEW i \in 1 .. Len(t), NEW j \in 1 .. Len(t), i < j
               PROVE  Before(t[i], t[j])
    BY DEF Ordered
  <2>1. /\ t[i] = s[i + d] /\ t[j] = s[j + d]
        /\ i + d \in 1 .. Len(s) /\ j + d \in 1 .. Len(s) /\ i + d < j + d
    BY <1>1, <1>2
  <2> QED BY <1>5, <2>1 DEF Ordered
<1>6. ASSUME OfKey(s, k) PROVE OfKey(t, k)
  BY <1>1, <1>6 DEF OfKey
<1> QED BY <1>3, <1>4, <1>5, <1>6

-----------------------------------------------------------------------------
(* Each part of the invariant is preserved. *)

\* A message stays known, and one of a run that has saved becomes known.
LEMMA KnownStays ==
  ASSUME TypeOK, TypeOK', [Next]_vars, NEW m \in Message, Known(m)
  PROVE  Known(m)'
<1>1. m.turn[1] \in Updates /\ m.turn[2] \in Nat
  BY DEF Message
<1>2. RunMoves(m.turn[1])
  BY <1>1, Moves
<1>3. run[m.turn[1]] \in Nat
  BY <1>1 DEF TypeOK
<1> QED BY <1>1, <1>2, <1>3 DEF Known, RunMoves

(* What a run may leave behind, and the end of it as well. *)
Savable(s, u) ==
    /\ Linked(s) /\ Settled(s) /\ Ordered(s) /\ OfKey(s, KeyOf[u])
    /\ \A i \in 1 .. Len(s) : s[i].turn = Turn(u) \/ Known(s[i])

\* s has no summary of u's turn.
Unsummarized(s, u) == \A i \in 1 .. Len(s) : s[i].turn = Turn(u) => s[i].kind # "summary"

LEMMA EndSavable ==
  ASSUME NEW u \in Updates, NEW s \in Seq(Message), NEW t \in Seq(Message), EndOf(t, s), Savable(s, u)
  PROVE  Savable(t, u)
<1>1. Linked(t) /\ Settled(t) /\ Ordered(t) /\ OfKey(t, KeyOf[u])
  BY EndKeeps DEF Savable
<1>2. ASSUME NEW i \in 1 .. Len(t) PROVE t[i].turn = Turn(u) \/ Known(t[i])
  <2>1. PICK j \in 1 .. Len(s) : t[i] = s[j]
    BY DEF EndOf
  <2> QED BY <2>1 DEF Savable
<1> QED BY <1>1, <1>2 DEF Savable

\* Nothing binds what a summary is followed by.
LEMMA CondensedSavable ==
  ASSUME TypeOK, NEW u \in Updates, NEW n \in Nat, NEW s \in Seq(Message), Savable(s, u),
         Unsummarized(s, u), NEW cut \in 0 .. Len(s)
  PROVE  Savable(Condensed(u, n, s, cut), u)
<1> DEFINE r == Summaries(u, n)
           t == SubSeq(s, cut + 1, Len(s))
<1>1. /\ r \in Seq(Message) /\ Len(r) = n
      /\ \A i \in 1 .. n : r[i].turn = Turn(u) /\ r[i].idx = i - n - 2 /\ r[i].kind = "summary"
  BY SummariesType
<1>2. t \in Seq(Message) /\ Savable(t, u) /\ Unsummarized(t, u)
  <2>1. t \in Seq(Message) /\ EndOf(t, s)
    BY SubSeqSuffix
  <2>2. ASSUME NEW i \in 1 .. Len(t) PROVE \E j \in 1 .. Len(s) : t[i] = s[j]
    BY <2>1 DEF EndOf
  <2> QED BY <2>1, <2>2, EndSavable DEF Unsummarized
<1> HIDE DEF r, t
<1>3. Linked(r) /\ Settled(r) /\ Ordered(r) /\ OfKey(r, KeyOf[u])
  <2>1. Linked(r)
    <3>1. \A i \in 1 .. n : r[i].kind = "summary"
      BY <1>1
    <3> QED BY <1>1, <3>1 DEF Linked, Link
  <2>4. Ordered(r)
    <3> SUFFICES ASSUME NEW i \in 1 .. n, NEW j \in 1 .. n, i < j
                 PROVE  Before(r[i], r[j])
      BY <1>1 DEF Ordered
    <3>1. r[i].idx = i - n - 2 /\ r[j].idx = j - n - 2 /\ r[i].kind = "summary"
      BY <1>1
    <3>2. r[i] # r[j]
      BY <3>1
    <3> QED BY <3>1, <3>2 DEF Before
  <2>2. Settled(r)
    BY <1>1 DEF Settled
  <2>3. OfKey(r, KeyOf[u])
    BY <1>1 DEF OfKey, Turn
  <2> QED BY <2>1, <2>2, <2>3, <2>4
<1>4. r # <<>> /\ t # <<>> => Link(r[Len(r)], t[1])
  BY <1>1 DEF Link
<1>5. \A i \in 1 .. Len(r), j \in 1 .. Len(t) : Before(r[i], t[j])
  BY <1>1, <1>2 DEF Before, Unsummarized
<1>6. Linked(r \o t) /\ Settled(r \o t) /\ Ordered(r \o t)
  BY <1>1, <1>2, <1>3, <1>4, <1>5, ConcatLinked, ConcatSettled, ConcatOrdered DEF Savable
<1>7. ASSUME NEW i \in 1 .. Len(r \o t)
      PROVE  /\ KeyOf[(r \o t)[i].turn[1]] = KeyOf[u]
             /\ (r \o t)[i].turn = Turn(u) \/ Known((r \o t)[i])
  <2>1. CASE i <= Len(r)
    <3>1. i \in 1 .. n /\ (r \o t)[i] = r[i]
      BY <1>1, <1>2, <2>1, ConcatElement
    <3> QED BY <1>1, <3>1 DEF Turn
  <2>2. CASE i > Len(r)
    <3>1. i - Len(r) \in 1 .. Len(t) /\ (r \o t)[i] = t[i - Len(r)]
      BY <1>1, <1>2, <2>2, ConcatElement
    <3> QED BY <1>2, <3>1 DEF Savable, OfKey
  <2> QED BY <1>1, <2>1, <2>2
<1>8. Savable(r \o t, u)
  BY <1>6, <1>7 DEF Savable, OfKey
<1> QED BY <1>8 DEF Condensed, r, t

LEMMA KeptSavable ==
  ASSUME TypeOK, NEW u \in Updates, NEW msgs \in Seq(Message), Savable(msgs, u), Unsummarized(msgs, u),
         NEW s \in Kept(u, msgs)
  PROVE  s \in Seq(Message) /\ Savable(s, u)
<1>1. ASSUME NEW t \in Seq(Message), Savable(t, u), s = KeepLast(t)
      PROVE  s \in Seq(Message) /\ Savable(s, u)
  BY <1>1, KeepLastType, KeepLastSuffix, EndSavable
<1>2. ASSUME NEW n \in 0 .. MaxMsgs, NEW cut \in 0 .. Len(msgs), s = KeepLast(Condensed(u, n, msgs, cut))
      PROVE  s \in Seq(Message) /\ Savable(s, u)
  <2>1. n \in Nat
    BY MemoryAssumption
  <2> QED BY <1>1, <1>2, <2>1, CondensedType, CondensedSavable
<1> QED BY <1>1, <1>2, KeptForms

(* What the messages of a run are like when it is about to save. *)
LEMMA UpdatedFacts ==
  ASSUME HInv, NEW u \in Updates
  PROVE  /\ Updated(u) \in Seq(Message)
         /\ Linked(Updated(u)) /\ Settled(Updated(u)) /\ Ordered(Updated(u))
         /\ OfKey(Updated(u), KeyOf[u])
         /\ \A i \in 1 .. Len(Updated(u)) : Updated(u)[i].turn = Turn(u) \/ Known(Updated(u)[i])
         /\ Unsummarized(Updated(u), u)
<1> DEFINE h == history[u]
           s == steps[u]
<1>1. h \in Seq(Message) /\ s \in Seq(Message)
  BY DEF HInv, TypeOK
<1>2. /\ Linked(s) /\ Settled(s)
      /\ \A i \in 1 .. Len(s) : s[i].turn = Turn(u) /\ s[i].idx = i /\ s[i].kind # "summary"
      /\ s # <<>> => s[1].kind # "result"
  BY DEF HInv, StepsInv
<1>3. /\ Linked(h) /\ Settled(h) /\ Ordered(h) /\ OfKey(h, KeyOf[u])
      /\ \A i \in 1 .. Len(h) :
            IF h[i].turn = Turn(u) THEN h[i].idx <= 0 /\ h[i].kind # "summary"
            ELSE Known(h[i]) /\ (h[i].turn[1] = u => h[i].turn[2] < run[u])
  BY DEF HInv, HistoryInv, Sendable
<1>4. \A i \in 1 .. Len(s) : s[i].turn[1] = u /\ s[i].turn[2] = run[u]
  BY <1>2 DEF Turn
<1>5. Ordered(s)
  <2> SUFFICES ASSUME NEW i \in 1 .. Len(s), NEW j \in 1 .. Len(s), i < j
               PROVE  Before(s[i], s[j])
    BY DEF Ordered
  <2>1. s[i].turn = s[j].turn /\ s[i].idx = i /\ s[j].idx = j
    BY <1>2
  <2>2. s[i] # s[j] /\ s[i].idx < s[j].idx
    BY <2>1
  <2> QED BY <2>1, <2>2 DEF Before
<1>6. OfKey(s, KeyOf[u])
  BY <1>4 DEF OfKey
<1>7. Linked(h \o s)
  <2>1. ASSUME h # <<>>, s # <<>> PROVE Link(h[Len(h)], s[1])
    <3>1. Len(h) \in 1 .. Len(h) /\ 1 \in 1 .. Len(s)
      BY <1>1, <2>1
    <3>2. s[1].idx = 1 /\ s[1].turn = Turn(u) /\ s[1].kind # "result" /\ h[Len(h)].kind # "call"
      BY <1>2, <1>3, <2>1, <3>1 DEF Settled
    <3>3. h[Len(h)].turn = Turn(u) => h[Len(h)].idx <= 0
      BY <1>3, <3>1
    <3>4. h[Len(h)] \in Message
      BY <1>1, <3>1
    <3>5. h[Len(h)].idx \in Int
      BY <3>4 DEF Message
    <3> QED BY <3>2, <3>3, <3>5 DEF Link
  <2> QED BY <1>1, <1>2, <1>3, <2>1, ConcatLinked
<1>8. Settled(h \o s)
  BY <1>1, <1>2, <1>3, ConcatSettled
<1>9. Ordered(h \o s)
  <2>1. ASSUME NEW i \in 1 .. Len(h), NEW j \in 1 .. Len(s) PROVE Before(h[i], s[j])
    <3>1. s[j].turn[1] = u /\ s[j].turn[2] = run[u] /\ s[j].idx = j /\ j > 0
      BY <1>2, <1>4
    <3>2. CASE h[i].turn = Turn(u)
      <4>1. h[i].turn[2] = run[u] /\ h[i].idx <= 0
        BY <1>3, <3>2 DEF Turn
      <4>2. h[i] \in Message
        BY <1>1
      <4>3. h[i].idx \in Int
        BY <4>2 DEF Message
      <4>4. h[i].idx < s[j].idx
        BY <3>1, <4>1, <4>3
      <4>5. h[i] # s[j]
        BY <4>3, <4>4
      <4> QED BY <3>1, <4>1, <4>4, <4>5 DEF Before
    <3>3. CASE h[i].turn # Turn(u)
      BY <1>2, <1>3, <3>1, <3>3 DEF Before
    <3> QED BY <3>2, <3>3
  <2> QED BY <1>1, <1>3, <1>5, <2>1, ConcatOrdered
<1>10. ASSUME NEW i \in 1 .. Len(h \o s)
       PROVE  /\ KeyOf[(h \o s)[i].turn[1]] = KeyOf[u]
              /\ (h \o s)[i].turn = Turn(u) \/ Known((h \o s)[i])
              /\ (h \o s)[i].turn = Turn(u) => (h \o s)[i].kind # "summary"
  <2>1. Len(h) \in Nat /\ i \in Nat
    BY <1>1
  <2>2. CASE i <= Len(h)
    <3>1. i \in 1 .. Len(h) /\ (h \o s)[i] = h[i]
      BY <1>1, <2>2, ConcatElement
    <3> QED BY <1>3, <3>1 DEF OfKey
  <2>3. CASE i > Len(h)
    <3>1. i - Len(h) \in 1 .. Len(s) /\ (h \o s)[i] = s[i - Len(h)]
      BY <1>1, <2>3, ConcatElement
    <3> QED BY <1>2, <1>4, <3>1
  <2> QED BY <2>1, <2>2, <2>3
<1>11. CASE cleared[u]
  <2>1. Updated(u) = s
    BY <1>11 DEF Updated
  <2> QED BY <1>1, <1>2, <1>5, <1>6, <2>1 DEF Unsummarized
<1>12. CASE ~cleared[u]
  <2>1. Updated(u) = h \o s
    BY <1>12 DEF Updated
  <2>2. h \o s \in Seq(Message)
    BY <1>1
  <2>3. OfKey(h \o s, KeyOf[u])
    BY <1>10 DEF OfKey
  <2> QED BY <1>7, <1>8, <1>9, <1>10, <2>1, <2>2, <2>3 DEF Unsummarized
<1> QED BY <1>11, <1>12

LEMMA StorePreserved ==
  ASSUME HInv, TypeOK', [Next]_vars
  PROVE  StoreInv'
<1> SUFFICES ASSUME NEW k \in Keys
             PROVE  /\ Linked(store'[k]) /\ Settled(store'[k]) /\ Ordered(store'[k])
                    /\ OfKey(store'[k], k)
                    /\ \A i \in 1 .. Len(store'[k]) : Known(store[k][i])'
  BY DEF StoreInv, Linked, Link, Settled, Ordered, Before, OfKey
<1>1. TypeOK /\ store[k] \in Seq(Message)
  BY DEF HInv, TypeOK
<1>2. CASE store'[k] = store[k]
  <2>1. /\ Linked(store[k]) /\ Settled(store[k]) /\ Ordered(store[k]) /\ OfKey(store[k], k)
        /\ \A i \in 1 .. Len(store[k]) : Known(store[k][i])
    BY DEF HInv, StoreInv
  <2>2. ASSUME NEW i \in 1 .. Len(store[k]) PROVE Known(store[k][i])'
    <3>1. store[k][i] \in Message /\ Known(store[k][i])
      BY <1>1, <2>1
    <3>2. ASSUME NEW m \in Message, Known(m) PROVE Known(m)'
      BY <1>1, <3>2, KnownStays
    <3> QED BY <1>2, <3>1, <3>2 DEF Known, Fresh
  <2> QED BY <1>2, <2>1, <2>2
<1>3. CASE store'[k] = <<>>
  BY <1>3 DEF Linked, Settled, Ordered, OfKey
<1>4. ASSUME NEW u \in Updates, SaveMemory(u), k = KeyOf[u], store'[k] \in Kept(u, Updated(u))
      PROVE  /\ Linked(store'[k]) /\ Settled(store'[k]) /\ Ordered(store'[k])
             /\ OfKey(store'[k], k)
             /\ \A i \in 1 .. Len(store'[k]) : Known(store[k][i])'
  <2>1. store'[k] \in Seq(Message) /\ Savable(store'[k], u)
    BY <1>1, <1>4, UpdatedFacts, KeptSavable DEF Savable
  <2>2. run'[u] = run[u] /\ pc'[u] \in {"handler", "send"} /\ run[u] \in Nat
    BY <1>1, <1>4 DEF SaveMemory, TypeOK
  <2>3. ASSUME NEW m \in Message, m.turn = Turn(u) \/ Known(m) PROVE Known(m)'
    <3>1. CASE m.turn = Turn(u)
      BY <2>2, <3>1 DEF Known, Fresh, Turn
    <3>2. CASE Known(m)
      BY <1>1, <3>2, KnownStays
    <3> QED BY <2>3, <3>1, <3>2
  <2>4. ASSUME NEW i \in 1 .. Len(store'[k]) PROVE Known(store[k][i])'
    <3>1. store'[k][i] \in Message /\ (store'[k][i].turn = Turn(u) \/ Known(store'[k][i]))
      BY <2>1, <2>4 DEF Savable
    <3> QED BY <2>3, <3>1 DEF Known, Fresh
  <2> QED BY <1>4, <2>1, <2>4 DEF Savable
<1> QED BY <1>1, <1>2, <1>3, <1>4, StoreMove DEF StoreMoves

LEMMA SendableStays ==
  ASSUME TypeOK, TypeOK', [Next]_vars, NEW u \in Updates, NEW h \in Seq(Message),
         Sendable(h, u), history'[u] = h, run'[u] = run[u]
  PROVE  Sendable(history[u], u)'
<1>1. Turn(u)' = Turn(u)
  BY DEF Turn
<1>2. ASSUME NEW i \in 1 .. Len(h), h[i].turn # Turn(u)
      PROVE  Known(history[u][i])' /\ (h[i].turn[1] = u => h[i].turn[2] < run[u])
  <2>1. h[i] \in Message /\ Known(h[i]) /\ (h[i].turn[1] = u => h[i].turn[2] < run[u])
    BY <1>2 DEF Sendable
  <2>2. ASSUME NEW m \in Message, Known(m) PROVE Known(m)'
    BY <2>2, KnownStays
  <2> QED BY <2>1, <2>2 DEF Known, Fresh
<1>3. /\ Linked(history'[u]) /\ Settled(history'[u]) /\ Ordered(history'[u])
      /\ OfKey(history'[u], KeyOf[u])
  BY DEF Sendable
<1>4. \A i \in 1 .. Len(h) : h[i].turn = Turn(u) => h[i].idx <= 0 /\ h[i].kind # "summary"
  BY DEF Sendable
<1> QED BY <1>1, <1>2, <1>3, <1>4 DEF Sendable, Linked, Link, Settled, Ordered, Before, OfKey

\* A run puts its own messages behind what it loaded.
LEMMA AddOwn ==
  ASSUME TypeOK, NEW u \in Updates, NEW h \in Seq(Message), NEW m \in Message, Sendable(h, u),
         m.turn = Turn(u), m.idx <= 0, m.kind \notin {"call", "result", "summary"},
         \A i \in 1 .. Len(h) : h[i].turn = Turn(u) => h[i].idx < m.idx
  PROVE  Append(h, m) \in Seq(Message) /\ Sendable(Append(h, m), u)
<1> DEFINE t == <<m>>
<1>1. /\ t \in Seq(Message) /\ Append(h, m) = h \o t /\ Len(t) = 1 /\ t[1] = m
      /\ Len(h) \in Nat
  OBVIOUS
<1>2. m.turn[1] = u /\ m.turn[2] = run[u] /\ m.idx \in Int
  BY DEF Turn, Message
<1>3. Linked(t) /\ Settled(t) /\ Ordered(t)
  BY <1>1 DEF Linked, Settled, Ordered
<1>4. Linked(h) /\ Settled(h) /\ Ordered(h) /\ OfKey(h, KeyOf[u])
  BY DEF Sendable
<1>5. Linked(h \o t)
  <2>1. ASSUME h # <<>> PROVE Link(h[Len(h)], m)
    <3>1. Len(h) \in 1 .. Len(h)
      BY <2>1, <1>1
    <3>2. h[Len(h)].kind # "call" /\ (h[Len(h)].turn = m.turn => h[Len(h)].idx < m.idx)
      BY <1>4, <2>1, <3>1 DEF Settled
    <3> QED BY <1>2, <3>2 DEF Link
  <2> QED BY <1>1, <1>3, <1>4, <2>1, ConcatLinked
<1>6. Settled(h \o t)
  BY <1>1, <1>3, <1>4, ConcatSettled
<1>7. Ordered(h \o t)
  <2>1. ASSUME NEW i \in 1 .. Len(h), NEW j \in 1 .. Len(t) PROVE Before(h[i], t[j])
    <3>1. t[j] = m /\ h[i] \in Message
      BY <1>1
    <3>2. h[i].idx \in Int /\ h[i].turn[2] \in Nat
      BY <3>1 DEF Message
    <3>3. CASE h[i].turn = Turn(u)
      BY <1>2, <3>1, <3>2, <3>3 DEF Before
    <3>4. CASE h[i].turn # Turn(u)
      BY <1>2, <3>1, <3>4 DEF Before, Sendable
    <3> QED BY <3>3, <3>4
  <2> QED BY <1>1, <1>3, <1>4, <2>1, ConcatOrdered
<1>8. ASSUME NEW i \in 1 .. Len(h \o t)
      PROVE  /\ KeyOf[(h \o t)[i].turn[1]] = KeyOf[u]
             /\ IF (h \o t)[i].turn = Turn(u) THEN (h \o t)[i].idx <= 0 /\ (h \o t)[i].kind # "summary"
                ELSE /\ Known((h \o t)[i])
                     /\ (h \o t)[i].turn[1] = u => (h \o t)[i].turn[2] < run[u]
  <2>1. CASE i <= Len(h)
    <3>1. i \in 1 .. Len(h) /\ (h \o t)[i] = h[i]
      BY <1>1, <2>1, ConcatElement
    <3> QED BY <3>1 DEF Sendable, OfKey
  <2>2. CASE i > Len(h)
    <3>1. (h \o t)[i] = m
      BY <1>1, <2>2
    <3> QED BY <1>2, <3>1
  <2> QED BY <1>1, <2>1, <2>2
<1>9. OfKey(h \o t, KeyOf[u])
  BY <1>8 DEF OfKey
<1> QED BY <1>1, <1>5, <1>6, <1>7, <1>8, <1>9 DEF Sendable

LEMMA LoadSendable ==
  ASSUME HInv, NEW u \in Updates, LoadMemory(u)
  PROVE  history'[u] \in Seq(Message) /\ Sendable(history'[u], u)
<1>1. TypeOK /\ pc[u] = "load" /\ store[KeyOf[u]] \in Seq(Message) /\ run[u] \in Nat
  BY UpdatesAssumption DEF HInv, TypeOK, LoadMemory
<1>2. PICK loaded \in {store[KeyOf[u]], <<>>},
           e \in {<<>>, <<ExtraMessage(u)>>}, m \in {<<>>, <<UserMessage(u)>>} :
        history'[u] = loaded \o e \o m
  <2>1. PICK loaded \in {store[KeyOf[u]], <<>>},
             e \in {<<>>, <<ExtraMessage(u)>>}, m \in {<<>>, <<UserMessage(u)>>} :
          history' = [history EXCEPT ![u] = loaded \o e \o m]
    BY DEF LoadMemory, Loaded, MemKey, StreamKey, CallKey
  <2> QED BY <1>1, <2>1 DEF TypeOK
<1>3. loaded \in Seq(Message)
  <2>1. <<>> \in Seq(Message)
    OBVIOUS
  <2> QED BY <1>1, <1>2, <2>1
<1>4. /\ ExtraMessage(u) \in Message /\ ExtraMessage(u).turn = Turn(u)
      /\ ExtraMessage(u).idx = -1 /\ ExtraMessage(u).kind = "extra"
      /\ UserMessage(u) \in Message /\ UserMessage(u).turn = Turn(u)
      /\ UserMessage(u).idx = 0 /\ UserMessage(u).kind = "user"
  BY <1>1, TurnType DEF ExtraMessage, UserMessage
<1>5. /\ Linked(loaded) /\ Settled(loaded) /\ Ordered(loaded) /\ OfKey(loaded, KeyOf[u])
      /\ \A i \in 1 .. Len(loaded) : Known(loaded[i])
  <2>1. CASE loaded = store[KeyOf[u]]
    <3>1. KeyOf[u] \in Keys
      BY UpdatesAssumption
    <3> QED BY <2>1, <3>1 DEF HInv, StoreInv
  <2>2. CASE loaded = <<>>
    BY <2>2 DEF Linked, Settled, Ordered, OfKey
  <2> QED BY <1>2, <2>1, <2>2
<1>6. ASSUME NEW i \in 1 .. Len(loaded)
      PROVE  loaded[i].turn[1] = u => loaded[i].turn[2] < run[u]
  <2>1. Known(loaded[i]) /\ Fresh(u)
    BY <1>1, <1>5 DEF Fresh
  <2>2. ASSUME loaded[i].turn[1] = u PROVE loaded[i].turn[2] < run[u]
    BY <2>1, <2>2 DEF Known
  <2> QED BY <2>2
<1>7. \A i \in 1 .. Len(loaded) : loaded[i].turn # Turn(u)
  BY <1>1, <1>6 DEF Turn
<1>8. Sendable(loaded, u)
  BY <1>5, <1>6, <1>7 DEF Sendable
<1> DEFINE h == loaded \o e
<1>9. /\ h \in Seq(Message) /\ Sendable(h, u)
      /\ \A i \in 1 .. Len(h) : h[i].turn = Turn(u) => h[i].idx < 0
  <2>1. CASE e = <<>>
    <3>1. h = loaded
      BY <1>3, <2>1
    <3> QED BY <1>3, <1>7, <1>8, <3>1
  <2>2. CASE e = <<ExtraMessage(u)>>
    <3>1. h = Append(loaded, ExtraMessage(u))
      BY <1>3, <2>2
    <3>2. h \in Seq(Message) /\ Sendable(h, u)
      BY <1>1, <1>3, <1>4, <1>7, <1>8, <3>1, AddOwn
    <3>3. ASSUME NEW i \in 1 .. Len(h), h[i].turn = Turn(u) PROVE h[i].idx < 0
      <4>1. CASE i = Len(loaded) + 1
        BY <1>3, <1>4, <3>1, <4>1
      <4>2. CASE i # Len(loaded) + 1
        <5>1. i \in 1 .. Len(loaded) /\ h[i] = loaded[i]
          BY <1>3, <3>1, <4>2
        <5> QED BY <1>7, <3>3, <5>1
      <4> QED BY <4>1, <4>2
    <3> QED BY <3>2, <3>3
  <2> QED BY <1>2, <2>1, <2>2
<1>10. CASE m = <<>>
  <2>1. history'[u] = h
    BY <1>2, <1>9, <1>10
  <2> QED BY <1>9, <2>1
<1>11. CASE m = <<UserMessage(u)>>
  <2>1. history'[u] = Append(h, UserMessage(u))
    BY <1>2, <1>9, <1>11
  <2>2. \A i \in 1 .. Len(h) : h[i].turn = Turn(u) => h[i].idx < UserMessage(u).idx
    BY <1>4, <1>9
  <2>3. UserMessage(u).idx <= 0 /\ UserMessage(u).kind \notin {"call", "result", "summary"}
    BY <1>4
  <2> HIDE DEF h
  <2> QED BY <1>1, <1>4, <1>9, <2>1, <2>2, <2>3, AddOwn
<1> QED BY <1>2, <1>10, <1>11

LEMMA HistoryPreserved ==
  ASSUME HInv, TypeOK', [Next]_vars
  PROVE  HistoryInv'
<1> SUFFICES ASSUME NEW u \in Updates
             PROVE  /\ Sendable(history[u], u)'
                    /\ pc'[u] \in Resting => history'[u] = <<>>
  BY DEF HistoryInv, Resting
<1>1. /\ TypeOK /\ history[u] \in Seq(Message) /\ Sendable(history[u], u)
      /\ pc[u] \in Resting => history[u] = <<>>
  BY DEF HInv, HistoryInv, TypeOK, Resting
<1>2. RunMoves(u) /\ HistoryMoves(u)
  BY <1>1, Moves
<1>3. ASSUME history'[u] = <<>> PROVE Sendable(history[u], u)'
  BY <1>3 DEF Sendable, Linked, Settled, Ordered, OfKey
<1>4. CASE history'[u] = <<>>
  BY <1>3, <1>4
<1>5. CASE history'[u] = history[u] /\ (pc'[u] \in Resting => pc[u] \in Resting)
  <2>1. CASE run'[u] = run[u]
    BY <1>1, <1>5, <2>1, SendableStays
  <2>2. CASE pc[u] = "handler"
    BY <1>1, <1>3, <1>5, <2>2 DEF Resting
  <2> QED BY <1>1, <1>2, <1>5, <2>1, <2>2 DEF RunMoves
<1>6. CASE LoadMemory(u)
  <2>1. history'[u] \in Seq(Message) /\ Sendable(history'[u], u)
    BY <1>6, LoadSendable
  <2>2. run'[u] = run[u] /\ pc'[u] \notin Resting
    BY <1>1, <1>6 DEF LoadMemory, TypeOK, Resting
  <2>3. PICK h \in Seq(Message) : history'[u] = h /\ Sendable(h, u)
    BY <2>1
  <2>4. Sendable(history[u], u)'
    BY <1>1, <2>2, <2>3, SendableStays
  <2> QED BY <2>2, <2>4
<1> QED BY <1>2, <1>4, <1>5, <1>6 DEF HistoryMoves

LEMMA StepsPreserved ==
  ASSUME HInv, TypeOK', [Next]_vars
  PROVE  StepsInv'
<1> SUFFICES ASSUME NEW u \in Updates
             PROVE  /\ Linked(steps'[u]) /\ Settled(steps'[u])
                    /\ steps'[u] # <<>> => steps'[u][1].kind # "result"
                    /\ \A i \in 1 .. Len(steps'[u]) :
                          /\ steps'[u][i].turn = Turn(u)' /\ steps'[u][i].idx = i
                          /\ steps'[u][i].kind # "summary"
                    /\ pc'[u] \in BeforeAgent => steps'[u] = <<>>
  BY DEF StepsInv, Linked, Link, Settled, BeforeAgent, Resting
<1> DEFINE s == steps[u]
           n == Len(s)
<1>1. /\ TypeOK /\ s \in Seq(Message) /\ n \in Nat
      /\ Linked(s) /\ Settled(s) /\ (s # <<>> => s[1].kind # "result")
      /\ \A i \in 1 .. n : s[i].turn = Turn(u) /\ s[i].idx = i /\ s[i].kind # "summary"
      /\ pc[u] \in BeforeAgent => s = <<>>
  BY DEF HInv, StepsInv, TypeOK, BeforeAgent, Resting
<1>2. RunMoves(u) /\ StepsMoves(u)
  BY <1>1, Moves
<1>3. CASE steps'[u] = <<>>
  BY <1>3 DEF Linked, Settled
<1>4. CASE steps'[u] = s /\ (pc'[u] \in BeforeAgent => pc[u] \in BeforeAgent)
  <2>1. CASE run'[u] = run[u]
    BY <1>1, <1>4, <2>1 DEF Turn
  <2>2. CASE pc[u] = "handler"
    BY <1>1, <1>3, <1>4, <2>2 DEF BeforeAgent, Resting
  <2> QED BY <1>2, <2>1, <2>2 DEF RunMoves
<1>5. ASSUME pc[u] = "llm" PROVE run'[u] = run[u]
  BY <1>2, <1>5 DEF RunMoves
\* Steps are added to the ones there are.
<1>6. ASSUME NEW t \in Seq(Message), t # <<>>, Linked(t), Settled(t), t[1].kind # "result", n > 0 => t[1].idx > 1,
             \A i \in 1 .. Len(t) : t[i].turn = Turn(u) /\ t[i].idx = n + i /\ t[i].kind # "summary"
      PROVE  /\ Linked(s \o t) /\ Settled(s \o t) /\ (s \o t)[1].kind # "result"
             /\ \A i \in 1 .. Len(s \o t) :
                   (s \o t)[i].turn = Turn(u) /\ (s \o t)[i].idx = i /\ (s \o t)[i].kind # "summary"
  <2>1. Len(t) \in Nat /\ 1 \in 1 .. Len(t) /\ Len(s \o t) = n + Len(t)
    BY <1>1, <1>6
  <2>2. t[1].turn = Turn(u) /\ t[1].idx = n + 1
    BY <1>6, <2>1
  <2>3. ASSUME s # <<>> PROVE Link(s[n], t[1])
    <3>1. n \in 1 .. n
      BY <1>1, <2>3
    <3>2. s[n].turn = Turn(u) /\ s[n].idx = n /\ s[n].kind # "call"
      BY <1>1, <2>3, <3>1 DEF Settled
    <3> QED BY <1>1, <1>6, <2>2, <3>2 DEF Link
  <2>4. Linked(s \o t)
    BY <1>1, <1>6, <2>3, ConcatLinked
  <2>5. Settled(s \o t)
    BY <1>1, <1>6, ConcatSettled
  <2>6. ASSUME NEW i \in 1 .. Len(s \o t)
        PROVE  (s \o t)[i].turn = Turn(u) /\ (s \o t)[i].idx = i /\ (s \o t)[i].kind # "summary"
    <3>1. CASE i <= n
      BY <1>1, <1>6, <3>1, ConcatElement
    <3>2. CASE i > n
      <4>1. i - n \in 1 .. Len(t) /\ (s \o t)[i] = t[i - n]
        BY <1>1, <1>6, <3>2, ConcatElement
      <4>2. t[i - n].turn = Turn(u) /\ t[i - n].idx = n + (i - n) /\ t[i - n].kind # "summary"
        BY <1>6, <4>1
      <4> QED BY <1>1, <4>1, <4>2
    <3> QED BY <1>1, <2>1, <3>1, <3>2
  <2>7. (s \o t)[1].kind # "result"
    <3>1. CASE s = <<>>
      BY <1>6, <2>1, <3>1
    <3>2. CASE s # <<>>
      <4>1. (s \o t)[1] = s[1]
        BY <1>1, <1>6, <3>2
      <4> QED BY <1>1, <3>2, <4>1
    <3> QED BY <3>1, <3>2
  <2> QED BY <2>4, <2>5, <2>6, <2>7
<1>7. CASE ToolStep(u) /\ pc'[u] \notin BeforeAgent
  <2> DEFINE a == StepMessage(u, n + 1, "call")
             b == StepMessage(u, n + 2, "result")
             t == <<a, b>>
  <2>1. /\ a \in Message /\ a.turn = Turn(u) /\ a.idx = n + 1 /\ a.kind = "call"
        /\ b \in Message /\ b.turn = Turn(u) /\ b.idx = n + 2 /\ b.kind = "result"
    <3>1. n + 1 \in Int /\ n + 2 \in Int /\ "call" \in Kinds /\ "result" \in Kinds
      BY <1>1 DEF Kinds
    <3>2. a \in Message /\ b \in Message
      BY <1>1, <3>1, TurnType
    <3> QED BY <3>2 DEF StepMessage
  <2> HIDE DEF a, b
  <2>2. t \in Seq(Message) /\ Len(t) = 2 /\ t[1] = a /\ t[2] = b /\ t # <<>>
    BY <2>1
  <2>3. Linked(t)
    <3>1. Link(a, b)
      BY <1>1, <2>1 DEF Link
    <3> QED BY <2>2, <3>1 DEF Linked
  <2>4. Settled(t)
    BY <2>1, <2>2 DEF Settled
  <2>5. \A i \in 1 .. Len(t) : t[i].turn = Turn(u) /\ t[i].idx = n + i /\ t[i].kind # "summary"
    BY <1>1, <2>1, <2>2
  <2>6. steps'[u] = s \o t /\ pc[u] = "llm"
    BY <1>1, <1>7 DEF ToolStep, TypeOK, a, b
  <2>7. t[1].kind # "result" /\ (n > 0 => t[1].idx > 1)
    BY <1>1, <2>1, <2>2
  <2> HIDE DEF t
  <2>8. Turn(u)' = Turn(u)
    BY <1>5, <2>6 DEF Turn
  <2> QED BY <1>6, <1>7, <2>2, <2>3, <2>4, <2>5, <2>6, <2>7, <2>8
<1>8. CASE FinalText(u)
  <2> DEFINE a == StepMessage(u, n + 1, "text")
             t == <<a>>
  <2>1. a \in Message /\ a.turn = Turn(u) /\ a.idx = n + 1 /\ a.kind = "text"
    <3>1. n + 1 \in Int /\ "text" \in Kinds
      BY <1>1 DEF Kinds
    <3>2. a \in Message
      BY <1>1, <3>1, TurnType
    <3> QED BY <3>2 DEF StepMessage
  <2> HIDE DEF a
  <2>2. t \in Seq(Message) /\ Len(t) = 1 /\ t[1] = a /\ t # <<>>
    BY <2>1
  <2>3. Linked(t) /\ Settled(t)
    BY <2>1, <2>2 DEF Linked, Settled
  <2>4. \A i \in 1 .. Len(t) : t[i].turn = Turn(u) /\ t[i].idx = n + i /\ t[i].kind # "summary"
    BY <1>1, <2>1, <2>2
  <2>5. /\ steps'[u] = s \o t /\ pc[u] = "llm" /\ pc'[u] \notin BeforeAgent
    BY <1>1, <1>8 DEF FinalText, AgentDone, TypeOK, a, BeforeAgent, Resting
  <2>6. t[1].kind # "result" /\ (n > 0 => t[1].idx > 1)
    BY <1>1, <2>1, <2>2
  <2> HIDE DEF t
  <2>7. Turn(u)' = Turn(u)
    BY <1>5, <2>5 DEF Turn
  <2> QED BY <1>6, <2>2, <2>3, <2>4, <2>5, <2>6, <2>7
<1> QED BY <1>2, <1>3, <1>4, <1>7, <1>8 DEF StepsMoves

-----------------------------------------------------------------------------
(* The invariant, and what follows from it. *)

LEMMA HInvInit == Init => HInv
<1> SUFFICES ASSUME Init PROVE HInv
  OBVIOUS
<1>1. TypeOK
  BY TypeInit
<1>2. \A k \in Keys : store[k] = <<>>
  BY DEF Init
<1>3. \A u \in Updates : history[u] = <<>> /\ steps[u] = <<>>
  BY DEF Init
<1>4. StoreInv
  BY <1>2 DEF StoreInv, Linked, Settled, Ordered, OfKey
<1>5. HistoryInv
  <2> SUFFICES ASSUME NEW u \in Updates PROVE Sendable(history[u], u)
    BY <1>3 DEF HistoryInv
  <2>1. history[u] = <<>> /\ Len(history[u]) = 0
    BY <1>3
  <2> QED BY <2>1 DEF Sendable, Linked, Settled, Ordered, OfKey
<1>6. StepsInv
  <2> SUFFICES ASSUME NEW u \in Updates
               PROVE  /\ Linked(steps[u]) /\ Settled(steps[u])
                      /\ \A i \in 1 .. Len(steps[u]) : /\ steps[u][i].turn = Turn(u) /\ steps[u][i].idx = i
                                                       /\ steps[u][i].kind # "summary"
    BY <1>3 DEF StepsInv
  <2>1. steps[u] = <<>> /\ Len(steps[u]) = 0
    BY <1>3
  <2> QED BY <2>1 DEF Linked, Settled
<1> QED BY <1>1, <1>4, <1>5, <1>6 DEF HInv

LEMMA HInvNext == HInv /\ [Next]_vars => HInv'
<1> SUFFICES ASSUME HInv, [Next]_vars PROVE HInv'
  OBVIOUS
<1>1. TypeOK'
  BY TypeNext DEF HInv
<1> QED BY <1>1, StorePreserved, HistoryPreserved, StepsPreserved DEF HInv

LEMMA HInvAlways == Spec => []HInv
BY HInvInit, HInvNext, PTL DEF Spec

(* However the runs of one conversation interleave, fail, clear, expire or *)
(* crash, the history under a key is always a chain of turns, no turn cut  *)
(* off between a tool call and its result (saveMemory, Save, Clear).       *)
THEOREM HistoryStaysChained == Spec => []HistoryChained
<1>1. HInv => HistoryChained
  BY DEF HInv, StoreInv, Settled, HistoryChained
<1> QED BY <1>1, HInvAlways, PTL

(* Nothing is stored under a key, or sent to the agent for an update of    *)
(* it, that comes from an update of another key (MemoryKey).               *)
THEOREM ConversationsStayApart == Spec => []KeysIsolated
<1>1. HInv => KeysIsolated
  BY DEF HInv, StoreInv, HistoryInv, Sendable, OfKey, KeysIsolated
<1> QED BY <1>1, HInvAlways, PTL

(* The turns of one update are remembered in their order and each message  *)
(* of a turn at most once, also when a save writes an old history back.    *)
THEOREM TurnsStayInOrder == Spec => []TurnsInOrder
<1>1. HInv => TurnsInOrder
  <2> SUFFICES ASSUME HInv, NEW k \in Keys, NEW j \in 1 .. Len(store[k]), NEW i \in 1 .. j - 1,
                      store[k][i].turn[1] = store[k][j].turn[1],
                      "summary" \notin {store[k][i].kind, store[k][j].kind}
               PROVE  \/ store[k][i].turn[2] < store[k][j].turn[2]
                      \/ /\ store[k][i].turn[2] = store[k][j].turn[2]
                         /\ store[k][i].idx < store[k][j].idx
    BY DEF TurnsInOrder
  <2>1. store[k] \in Seq(Message)
    BY DEF HInv, TypeOK
  <2>2. i \in 1 .. Len(store[k]) /\ i < j
    BY <2>1
  <2> QED BY <2>2 DEF HInv, StoreInv, Ordered, Before
<1> QED BY <1>1, HInvAlways, PTL

-----------------------------------------------------------------------------
(* What the limit takes. *)

USE MemoryAssumption

\* s begins with the question of a turn, or with its steps when c holds of
\* its handler or it has no question; else the limit or the summarizer has
\* taken the beginning.
BeginsWhole(s, c) ==
    s # <<>> =>
        \/ s[1].idx <= 0
        \/ s[1].idx = 1 /\ (c[s[1].turn[1]] \/ s[1].turn[1] \notin TextUpdates)
        \/ MaxMsgs > 0 /\ (Len(s) >= MaxMsgs \/ Summarizes)

FitsLimit(s, c) == (MaxMsgs > 0 => Len(s) <= MaxMsgs) /\ BeginsWhole(s, c)

LimitInv ==
    /\ HInv
    /\ \A u \in Updates : /\ pc[u] = "idle" => ~cleared[u]
                          /\ pc[u] \in InTurn /\ u \in TextUpdates => history[u] # <<>>
    /\ \A k \in Keys : FitsLimit(store[k], cleared)
    /\ \A u \in Updates : BeginsWhole(history[u], cleared)

\* The flag of an update is never taken back.
LEMMA ClearedStays ==
  ASSUME TypeOK, [Next]_vars, NEW u \in Updates, pc[u] = "idle" => ~cleared[u]
  PROVE  /\ cleared[u] => cleared'[u]
         /\ pc'[u] = "idle" => ~cleared'[u]
<1> USE DEF TypeOK
<1>1. CASE UNCHANGED vars
  BY <1>1 DEF vars, turnVars, ctxVars
<1>2. ASSUME NEW w \in Updates, Handle(w)
      PROVE  (cleared[u] => cleared'[u]) /\ (pc'[u] = "idle" => ~cleared'[u])
  BY <1>2 DEF Handle
<1>3. ASSUME NEW w \in Updates, ClearContext(w)
      PROVE  (cleared[u] => cleared'[u]) /\ (pc'[u] = "idle" => ~cleared'[u])
  <2>1. pc' = pc /\ pc[w] = "llm" /\ (cleared' = cleared \/ cleared' = [cleared EXCEPT ![w] = TRUE])
    BY <1>3 DEF ClearContext, ToolStep, MarkContextCleared
  <2> QED BY <2>1
<1>4. ASSUME NEW w \in Updates, Goroutine(w) \/ Agent(w) \/ Expire(w), ~ClearContext(w)
      PROVE  cleared' = cleared /\ (pc'[u] = "idle" => pc[u] = "idle")
  <2>1. CASE Goroutine(w)
    <3>1. UNCHANGED cleared /\ \E p \in Places \ {"idle"} : pc' = [pc EXCEPT ![w] = p]
      BY <2>1 DEF Goroutine, RunLLM, Return, LoadMemory, StartStream, StreamError, StreamEnd,
                  SaveMemory, SendReply, ctxVars, Places, Idle
    <3> QED BY <3>1
  <2>2. CASE Agent(w) \/ Expire(w)
    <3>1. UNCHANGED cleared /\ (pc' = pc \/ \E p \in Places \ {"idle"} : pc' = [pc EXCEPT ![w] = p])
      BY <1>4, <2>2 DEF Agent, Tool, TextDelta, SendTool, OtherTool, FinalText, StopAfterTools,
                  AgentFails, AgentDone, Expire, ctxVars, Places, Idle
    <3> QED BY <3>1
  <2> QED BY <1>4, <2>1, <2>2
<1>5. CASE Crash \/ \E k \in Keys : DropKey(k)
  BY <1>5 DEF Crash, DropKey, ctxVars, Active, Idle
<1> QED BY <1>1, <1>2, <1>3, <1>4, <1>5 DEF Next, Agent, Tool

\* Where a run has its history, it has just loaded it or had it before.
LEMMA InTurnMoves ==
  ASSUME TypeOK, [Next]_vars, NEW u \in Updates, pc'[u] \in InTurn
  PROVE  (pc[u] \in InTurn /\ history'[u] = history[u]) \/ LoadMemory(u)
<1> USE DEF TypeOK, InTurn
<1>1. CASE UNCHANGED vars
  BY <1>1 DEF vars, turnVars
<1>2. ASSUME NEW w \in Updates,
             Handle(w) \/ RunLLM(w) \/ Return(w) \/ StartStream(w) \/ SendReply(w) \/ Expire(w)
      PROVE  pc[u] \in InTurn /\ history'[u] = history[u]
  BY <1>2 DEF Handle, RunLLM, Return, StartStream, SendReply, Expire, turnVars
<1>3. ASSUME NEW w \in Updates, LoadMemory(w), w # u
      PROVE  pc[u] \in InTurn /\ history'[u] = history[u]
  <2>1. pc'[u] = pc[u] /\ history'[u] = history[u]
    BY <1>3 DEF LoadMemory
  <2> QED BY <2>1
<1>4. ASSUME NEW w \in Updates, TextDelta(w) \/ StreamEnd(w) \/ FinalText(w) \/ StopAfterTools(w) \/ Tool(w)
      PROVE  pc[u] \in InTurn /\ history'[u] = history[u]
  <2>1. history' = history /\ pc[w] \in InTurn
    BY <1>4 DEF TextDelta, StreamEnd, FinalText, StopAfterTools, Tool, ClearContext, SendTool,
                OtherTool, ToolStep
  <2>2. pc' = pc \/ \E p \in Places : pc' = [pc EXCEPT ![w] = p]
    BY <1>4 DEF TextDelta, StreamEnd, FinalText, StopAfterTools, Tool, ClearContext, SendTool,
                OtherTool, AgentDone, Places, Idle
  <2> QED BY <2>1, <2>2
<1>5. ASSUME NEW w \in Updates, AgentFails(w) \/ StreamError(w) \/ SaveMemory(w)
      PROVE  pc[u] \in InTurn /\ history'[u] = history[u]
  <2>1. /\ DropMessages(w)
        /\ \E p \in {"error", "handler", "send"} : pc' = [pc EXCEPT ![w] = p]
    BY <1>5 DEF AgentFails, StreamError, SaveMemory
  <2>2. u # w /\ history'[u] = history[u]
    BY <2>1 DEF DropMessages
  <2> QED BY <2>1, <2>2
<1>6. CASE Crash \/ \E k \in Keys : DropKey(k)
  BY <1>6 DEF Crash, DropKey, turnVars, Active, Idle
<1> QED BY <1>1, <1>2, <1>3, <1>4, <1>5, <1>6 DEF Next, Goroutine, Agent

LEMMA KeepLastFits ==
  ASSUME NEW s \in Seq(Message), NEW c, BeginsWhole(s, c)
  PROVE  FitsLimit(KeepLast(s), c)
<1>1. CASE MaxMsgs > 0 /\ Len(s) > MaxMsgs
  <2>1. Len(s) \in Nat /\ MaxMsgs \in Nat /\ Len(s) - MaxMsgs + 1 \in 1 .. Len(s)
    BY <1>1
  <2>2. Len(SubSeq(s, Len(s) - MaxMsgs + 1, Len(s))) = MaxMsgs
    BY <2>1
  <2> QED BY <1>1, <2>1, <2>2 DEF FitsLimit, KeepLast, BeginsWhole
<1>2. CASE ~(MaxMsgs > 0 /\ Len(s) > MaxMsgs)
  <2>1. Len(s) \in Nat /\ KeepLast(s) = s
    BY <1>2 DEF KeepLast
  <2> QED BY <1>2, <2>1 DEF FitsLimit
<1> QED BY <1>1, <1>2

\* What is put behind a sequence does not change how it begins.
LEMMA ConcatBeginsWhole ==
  ASSUME NEW s \in Seq(Message), NEW t \in Seq(Message), NEW c, BeginsWhole(s, c),
         s = <<>> => BeginsWhole(t, c)
  PROVE  BeginsWhole(s \o t, c)
<1>1. CASE s = <<>>
  BY <1>1
<1>2. CASE s # <<>>
  <2>1. Len(s) \in Nat /\ Len(t) \in Nat /\ Len(s) >= 1
    BY <1>2
  <2>2. (s \o t)[1] = s[1] /\ Len(s \o t) >= Len(s)
    BY <2>1
  <2> QED BY <1>2, <2>1, <2>2 DEF BeginsWhole
<1> QED BY <1>1, <1>2

LEMMA UpdatedBeginsWhole ==
  ASSUME LimitInv, NEW u \in Updates, pc[u] = "save"
  PROVE  Updated(u) \in Seq(Message) /\ BeginsWhole(Updated(u), cleared)
<1>1. TypeOK /\ history[u] \in Seq(Message) /\ steps[u] \in Seq(Message)
  BY DEF LimitInv, HInv, TypeOK
<1>2. ASSUME cleared[u] \/ u \notin TextUpdates
      PROVE  BeginsWhole(steps[u], cleared)
  <2>1. ASSUME steps[u] # <<>> PROVE steps[u][1].idx = 1 /\ steps[u][1].turn[1] = u
    <3>1. 1 \in 1 .. Len(steps[u])
      BY <1>1, <2>1
    <3> QED BY <3>1 DEF LimitInv, HInv, StepsInv, Turn
  <2> QED BY <1>2, <2>1 DEF BeginsWhole
<1>3. history[u] = <<>> => u \notin TextUpdates
  BY DEF LimitInv, InTurn
<1>4. BeginsWhole(history[u], cleared)
  BY DEF LimitInv
<1>5. BeginsWhole(history[u] \o steps[u], cleared)
  BY <1>1, <1>2, <1>3, <1>4, ConcatBeginsWhole
<1> QED BY <1>1, <1>2, <1>5, UpdatedType DEF Updated

\* The flags of others only add excuses.
LEMMA BeginsWholeStays ==
  ASSUME LimitInv, [Next]_vars, NEW s \in Seq(Message), BeginsWhole(s, cleared)
  PROVE  BeginsWhole(s, cleared')
<1> SUFFICES ASSUME s # <<>> PROVE BeginsWhole(s, cleared')
  BY DEF BeginsWhole
<1>1. s[1].turn[1] \in Updates
  <2>1. s[1] \in Message
    OBVIOUS
  <2> QED BY <2>1 DEF Message
<1>2. cleared[s[1].turn[1]] => cleared'[s[1].turn[1]]
  BY <1>1, ClearedStays DEF LimitInv, HInv
<1> QED BY <1>2 DEF BeginsWhole

LEMMA StoreFits ==
  ASSUME LimitInv, [Next]_vars, NEW k \in Keys, store'[k] \in Seq(Message)
  PROVE  FitsLimit(store'[k], cleared')
<1> SUFFICES FitsLimit(store'[k], cleared)
  BY BeginsWholeStays DEF FitsLimit
<1>1. CASE store'[k] = store[k]
  BY <1>1 DEF LimitInv
<1>2. CASE store'[k] = <<>>
  BY <1>2 DEF FitsLimit, BeginsWhole
<1>3. ASSUME NEW u \in Updates, SaveMemory(u), store'[k] \in Kept(u, Updated(u))
      PROVE  FitsLimit(store'[k], cleared)
  <2>1. TypeOK /\ pc[u] = "save"
    BY <1>3 DEF LimitInv, HInv, SaveMemory
  <2>2. Updated(u) \in Seq(Message) /\ FitsLimit(KeepLast(Updated(u)), cleared)
    BY <2>1, UpdatedBeginsWhole, KeepLastFits
  <2>3. ASSUME Summarizes, MaxMsgs > 0, NEW n \in 0 .. MaxMsgs, NEW cut \in 0 .. Len(Updated(u))
        PROVE  FitsLimit(KeepLast(Condensed(u, n, Updated(u), cut)), cleared)
    <3>1. n \in Nat
      OBVIOUS
    <3>2. Condensed(u, n, Updated(u), cut) \in Seq(Message)
      BY <2>1, <2>2, <3>1, CondensedType
    <3>3. BeginsWhole(Condensed(u, n, Updated(u), cut), cleared)
      BY <2>3 DEF BeginsWhole
    <3> QED BY <3>2, <3>3, KeepLastFits
  <2> QED BY <1>3, <2>2, <2>3, KeptForms
<1>4. TypeOK
  BY DEF LimitInv, HInv
<1> QED BY <1>1, <1>2, <1>3, <1>4, StoreMove DEF StoreMoves

\* The parts of what a run loads: the history, an extra message, the user's.
LEMMA LoadAdds ==
  ASSUME TypeOK, NEW u \in Updates, LoadMemory(u)
  PROVE  \E loaded \in {store[KeyOf[u]], <<>>}, e \in {<<>>, <<ExtraMessage(u)>>} :
            history'[u] = loaded \o e \o (IF u \in TextUpdates THEN <<UserMessage(u)>> ELSE <<>>)
<1>1. PICK loaded \in Loaded(u), extra \in BOOLEAN :
         history'[u] = loaded \o (IF extra THEN <<ExtraMessage(u)>> ELSE <<>>)
                              \o (IF u \in TextUpdates THEN <<UserMessage(u)>> ELSE <<>>)
  BY CallAssumption DEF LoadMemory, TypeOK
<1>2. loaded \in {store[KeyOf[u]], <<>>}
  BY <1>1 DEF Loaded, MemKey, StreamKey, CallKey
<1> QED BY <1>1, <1>2

LEMMA HistoryBeginsWhole ==
  ASSUME LimitInv, [Next]_vars, NEW u \in Updates, history'[u] \in Seq(Message)
  PROVE  /\ BeginsWhole(history'[u], cleared')
         /\ pc'[u] \in InTurn /\ u \in TextUpdates => history'[u] # <<>>
<1>1. TypeOK /\ history[u] \in Seq(Message)
  BY DEF LimitInv, HInv, TypeOK
<1>2. ASSUME LoadMemory(u)
      PROVE  BeginsWhole(history'[u], cleared) /\ (u \in TextUpdates => history'[u] # <<>>)
  <2> DEFINE m == IF u \in TextUpdates THEN <<UserMessage(u)>> ELSE <<>>
  <2>1. PICK loaded \in {store[KeyOf[u]], <<>>}, e \in {<<>>, <<ExtraMessage(u)>>} :
          history'[u] = loaded \o e \o m
    BY <1>1, <1>2, LoadAdds
  <2>2. <<>> \in Seq(Message) /\ BeginsWhole(<<>>, cleared)
    BY DEF BeginsWhole
  <2>3. loaded \in Seq(Message) /\ BeginsWhole(loaded, cleared)
    <3>1. store[KeyOf[u]] \in Seq(Message) /\ BeginsWhole(store[KeyOf[u]], cleared)
      BY <1>1, UpdatesAssumption DEF TypeOK, LimitInv, FitsLimit
    <3> QED BY <2>1, <2>2, <3>1
  <2>4. /\ e \in Seq(Message) /\ BeginsWhole(e, cleared)
        /\ m \in Seq(Message) /\ BeginsWhole(m, cleared)
        /\ u \in TextUpdates => Len(m) = 1
    <3>1. /\ <<ExtraMessage(u)>> \in Seq(Message) /\ <<ExtraMessage(u)>>[1].idx = -1
          /\ <<UserMessage(u)>> \in Seq(Message) /\ <<UserMessage(u)>>[1].idx = 0
      BY <1>1, TurnType DEF ExtraMessage, UserMessage
    <3>2. BeginsWhole(<<ExtraMessage(u)>>, cleared) /\ BeginsWhole(<<UserMessage(u)>>, cleared)
      BY <3>1 DEF BeginsWhole
    <3> QED BY <2>1, <2>2, <3>1, <3>2
  <2>5. loaded \o e \in Seq(Message) /\ BeginsWhole(loaded \o e, cleared)
    BY <2>3, <2>4, ConcatBeginsWhole
  <2> HIDE DEF m
  <2>6. BeginsWhole(history'[u], cleared)
    BY <2>1, <2>4, <2>5, ConcatBeginsWhole
  <2>7. u \in TextUpdates => Len(history'[u]) >= 1
    BY <2>1, <2>4, <2>5
  <2> QED BY <2>6, <2>7
<1>3. BeginsWhole(history'[u], cleared)
  <2>1. CASE history'[u] = history[u]
    BY <2>1 DEF LimitInv
  <2>2. CASE history'[u] = <<>>
    BY <2>2 DEF BeginsWhole
  <2> QED BY <1>1, <1>2, <2>1, <2>2, Moves DEF HistoryMoves
<1>4. ASSUME pc'[u] \in InTurn, u \in TextUpdates PROVE history'[u] # <<>>
  BY <1>1, <1>2, <1>4, InTurnMoves DEF LimitInv
<1> QED BY <1>3, <1>4, BeginsWholeStays

LEMMA LimitInvAlways == Spec => []LimitInv
<1>1. Init /\ HInv => LimitInv
  BY DEF Init, LimitInv, FitsLimit, BeginsWhole, InTurn
<1>2. LimitInv /\ [Next]_vars => LimitInv'
  <2> SUFFICES ASSUME LimitInv, [Next]_vars PROVE LimitInv'
    OBVIOUS
  <2>1. HInv' /\ TypeOK'
    BY HInvNext DEF LimitInv, HInv
  <2>2. ASSUME NEW k \in Keys PROVE FitsLimit(store'[k], cleared')
    BY <2>1, StoreFits DEF TypeOK
  <2>3. ASSUME NEW u \in Updates
        PROVE  /\ BeginsWhole(history'[u], cleared')
               /\ pc'[u] \in InTurn /\ u \in TextUpdates => history'[u] # <<>>
               /\ pc'[u] = "idle" => ~cleared'[u]
    <3>1. history'[u] \in Seq(Message) /\ TypeOK
      BY <2>1 DEF TypeOK, LimitInv, HInv
    <3>2. pc[u] = "idle" => ~cleared[u]
      BY DEF LimitInv
    <3> QED BY <3>1, <3>2, HistoryBeginsWhole, ClearedStays
  <2> QED BY <2>1, <2>2, <2>3 DEF LimitInv
<1> QED BY <1>1, <1>2, HInvInit, PTL DEF Spec

(* However many handlers load, clear and save one key, its history never   *)
(* exceeds the limit, and the oldest remembered turn has lost its question *)
(* only to a limit that is used up, to the summarizer, or because its own  *)
(* handler cleared (saveMemory; InMemoryMemory.Save and RedisMemory.Save). *)
THEOREM QuestionsAreKept == Spec => []QuestionKept
<1>1. LimitInv => QuestionKept
  <2> SUFFICES ASSUME LimitInv, NEW k \in Keys
               PROVE  /\ MaxMsgs > 0 => Len(store[k]) <= MaxMsgs
                      /\ store[k] # <<>> =>
                            \/ store[k][1].idx <= 0
                            \/ /\ store[k][1].idx = 1
                               /\ cleared[store[k][1].turn[1]] \/ store[k][1].turn[1] \notin TextUpdates
                            \/ MaxMsgs > 0 /\ (Len(store[k]) = MaxMsgs \/ Summarizes)
    BY DEF QuestionKept
  <2>1. Len(store[k]) \in Nat
    BY DEF LimitInv, HInv, TypeOK
  <2> QED BY <2>1 DEF LimitInv, FitsLimit, BeginsWhole
<1> QED BY <1>1, LimitInvAlways, PTL

-----------------------------------------------------------------------------
(* The refinement of the abstract memory. *)

USE UpdatesAssumption

\* What the refinement mapping puts for base.
Base == [u \in Updates |-> IF pc[u] \in InTurn THEN {Snapshot(u)} ELSE {}]

\* The first n messages of h, and no more, are not of turn t.
Divides(n, h, t) ==
    /\ \A i \in 1 .. n : h[i].turn # t
    /\ \A i \in n + 1 .. Len(h) : h[i].turn = t

RefInv ==
    /\ LimitInv
    /\ \A u \in Updates : pc[u] \in InTurn =>
          \E n \in 0 .. Len(history[u]) : Divides(n, history[u], Turn(u))

Step(u) == Handle(u) \/ Goroutine(u) \/ Agent(u) \/ Expire(u)

LEMMA LoadedPartIs ==
  ASSUME NEW h \in Seq(Message), NEW t, NEW n \in 0 .. Len(h), Divides(n, h, t)
  PROVE  LoadedPart(h, t) = SubSeq(h, 1, n)
<1> DEFINE First(k) == /\ \A i \in 1 .. k : h[i].turn # t
                       /\ k < Len(h) => h[k + 1].turn = t
<1>1. Len(h) \in Nat
  OBVIOUS
<1>2. First(n)
  BY <1>1 DEF Divides
<1>3. ASSUME NEW k \in 0 .. Len(h), First(k) PROVE k = n
  <2>1. ~(k < n)
    BY <1>1, <1>3 DEF Divides
  <2>2. ~(n < k)
    BY <1>1, <1>3 DEF Divides
  <2> QED BY <1>1, <2>1, <2>2
<1> HIDE DEF First
<1>4. (CHOOSE k \in 0 .. Len(h) : First(k)) = n
  BY <1>2, <1>3
<1>5. LoadedPart(h, t) = SubSeq(h, 1, CHOOSE k \in 0 .. Len(h) : First(k))
  BY DEF First, LoadedPart
<1> QED BY <1>4, <1>5

LEMMA OthersKept ==
  ASSUME TypeOK, NEW u \in Updates, Step(u), NEW w \in Updates, w # u
  PROVE  /\ pc'[w] = pc[w] /\ history'[w] = history[w]
         /\ cleared'[w] = cleared[w] /\ run'[w] = run[w]
<1>1. /\ pc \in [Updates -> Places] /\ history \in [Updates -> Seq(Message)]
      /\ cleared \in [Updates -> BOOLEAN] /\ run \in [Updates -> Nat]
  BY DEF TypeOK
<1>2. CASE Handle(u) \/ RunLLM(u) \/ Return(u) \/ SendReply(u) \/ Expire(u)
  BY <1>1, <1>2 DEF Handle, RunLLM, Return, SendReply, Expire, turnVars, ctxVars
<1>3. CASE LoadMemory(u)
  BY <1>1, <1>3 DEF LoadMemory, ctxVars
<1>4. CASE StartStream(u) \/ StreamError(u) \/ StreamEnd(u)
  BY <1>1, <1>4 DEF StartStream, StreamError, StreamEnd, DropMessages, ctxVars
<1>5. CASE SaveMemory(u)
  BY <1>1, <1>5 DEF SaveMemory, DropMessages, ctxVars
<1>6. CASE TextDelta(u) \/ FinalText(u) \/ StopAfterTools(u) \/ AgentFails(u)
  BY <1>1, <1>6 DEF TextDelta, FinalText, StopAfterTools, AgentFails, AgentDone, DropMessages, ctxVars
<1>7. CASE Tool(u)
  BY <1>1, <1>7 DEF Tool, ClearContext, SendTool, OtherTool, AgentDone, MarkContextCleared, ctxVars
<1> QED BY <1>2, <1>3, <1>4, <1>5, <1>6, <1>7 DEF Step, Goroutine, Agent

LEMMA SnapshotStays ==
  ASSUME NEW w \in Updates,
         history'[w] = history[w], cleared'[w] = cleared[w], run'[w] = run[w]
  PROVE  Snapshot(w)' = Snapshot(w)
BY DEF Snapshot, Turn, LoadedPart

LEMMA BaseOfOthers ==
  ASSUME TypeOK, NEW u \in Updates, Step(u)
  PROVE  /\ Base' = [Base EXCEPT ![u] = Base'[u]]
         /\ pc'[u] \notin InTurn => Base'[u] = {}
         /\ (pc'[u] \in InTurn <=> pc[u] \in InTurn)
              /\ (pc[u] \in InTurn => history'[u] = history[u] /\ cleared'[u] = cleared[u] /\ run'[u] = run[u])
            => Base' = Base
<1>1. ASSUME NEW w \in Updates, w # u PROVE Base'[w] = Base[w]
  BY <1>1, OthersKept, SnapshotStays DEF Base
<1>2. Base' = [Base EXCEPT ![u] = Base'[u]]
  BY <1>1 DEF Base
<1>3. pc'[u] \notin InTurn => Base'[u] = {}
  BY DEF Base
<1>4. ASSUME pc'[u] \in InTurn <=> pc[u] \in InTurn,
             pc[u] \in InTurn => history'[u] = history[u] /\ cleared'[u] = cleared[u] /\ run'[u] = run[u]
      PROVE  Base' = Base
  <2>1. Base'[u] = Base[u]
    BY <1>4, SnapshotStays DEF Base
  <2> QED BY <1>2, <2>1 DEF Base
<1> QED BY <1>2, <1>3, <1>4

\* A step that leaves what is remembered, and every snapshot, alone.
Quiet(u) ==
    \/ Handle(u) \/ Return(u) \/ SendReply(u) \/ Expire(u) \/ StreamError(u) \/ StreamEnd(u)
    \/ SendTool(u) \/ OtherTool(u) \/ FinalText(u) \/ StopAfterTools(u)
    \/ (StartStream(u) \/ TextDelta(u)) /\ pc'[u] = "llm"

\* A run that ends with nothing saved.
Dropped(u) ==
    \/ (StartStream(u) \/ TextDelta(u)) /\ pc'[u] # "llm"
    \/ AgentFails(u)
    \/ SaveMemory(u) /\ UNCHANGED store

LEMMA QuietStep ==
  ASSUME TypeOK, NEW u \in Updates, Quiet(u)
  PROVE  UNCHANGED <<store, run, Base>>
<1>1. /\ pc \in [Updates -> Places] /\ history \in [Updates -> Seq(Message)]
      /\ cleared \in [Updates -> BOOLEAN] /\ run \in [Updates -> Nat]
  BY DEF TypeOK
<1>2. Step(u) /\ UNCHANGED <<store, run>>
  <2>1. CASE Handle(u) \/ Return(u) \/ SendReply(u) \/ Expire(u)
    BY <2>1 DEF Handle, Return, SendReply, Expire, Step, Goroutine, turnVars
  <2>2. CASE StreamError(u) \/ StreamEnd(u) \/ StartStream(u)
    BY <2>2 DEF StreamError, StreamEnd, StartStream, Step, Goroutine
  <2>3. CASE SendTool(u) \/ OtherTool(u) \/ FinalText(u) \/ StopAfterTools(u) \/ TextDelta(u)
    BY <2>3 DEF SendTool, OtherTool, FinalText, StopAfterTools, TextDelta, Step, Agent, Tool
  <2> QED BY <2>1, <2>2, <2>3 DEF Quiet
<1>3. /\ pc'[u] \in InTurn <=> pc[u] \in InTurn
      /\ pc[u] \in InTurn => history'[u] = history[u] /\ cleared'[u] = cleared[u]
  <2>1. CASE Handle(u) \/ Return(u) \/ SendReply(u) \/ Expire(u)
    BY <1>1, <2>1 DEF Handle, Return, SendReply, Expire, turnVars, ctxVars, InTurn
  <2>2. CASE StreamError(u) \/ StreamEnd(u)
    BY <1>1, <2>2 DEF StreamError, StreamEnd, ctxVars, InTurn
  <2>3. CASE SendTool(u) \/ OtherTool(u) \/ FinalText(u) \/ StopAfterTools(u)
    BY <1>1, <2>3 DEF SendTool, OtherTool, ToolStep, FinalText, StopAfterTools, AgentDone, ctxVars, InTurn
  <2>4. CASE (StartStream(u) \/ TextDelta(u)) /\ pc'[u] = "llm"
    BY <1>1, <2>4 DEF StartStream, TextDelta, ctxVars, InTurn
  <2> QED BY <2>1, <2>2, <2>3, <2>4 DEF Quiet
<1> QED BY <1>2, <1>3, BaseOfOthers

LEMMA DroppedStep ==
  ASSUME TypeOK, NEW u \in Updates, Dropped(u)
  PROVE  Memory!Abandon({u})
<1>1. pc \in [Updates -> Places]
  BY DEF TypeOK
<1>2. Step(u) /\ UNCHANGED <<store, run>> /\ pc'[u] \notin InTurn
  <2>1. CASE (StartStream(u) \/ TextDelta(u)) /\ pc'[u] # "llm"
    BY <1>1, <2>1 DEF StartStream, TextDelta, Step, Goroutine, Agent, InTurn
  <2>2. CASE AgentFails(u)
    BY <1>1, <2>2 DEF AgentFails, Step, Agent, InTurn
  <2>3. CASE SaveMemory(u) /\ UNCHANGED store
    BY <1>1, <2>3 DEF SaveMemory, Step, Goroutine, InTurn
  <2> QED BY <2>1, <2>2, <2>3 DEF Dropped
<1>3. Base' = [Base EXCEPT ![u] = {}]
  BY <1>2, BaseOfOthers
<1>4. Base' = [w \in Updates |-> IF w \in {u} THEN {} ELSE Base[w]]
  BY <1>3 DEF Base
<1> QED BY <1>2, <1>4 DEF Memory!Abandon, Base

LEMMA NumberStep ==
  ASSUME TypeOK, NEW u \in Updates, RunLLM(u)
  PROVE  Memory!Number(u)
<1>1. pc \in [Updates -> Places]
  BY DEF TypeOK
<1>2. Step(u) /\ UNCHANGED store /\ run' = [run EXCEPT ![u] = @ + 1]
  BY DEF RunLLM, Step, Goroutine
<1>3. pc[u] \notin InTurn /\ pc'[u] \notin InTurn
  BY <1>1 DEF RunLLM, InTurn
<1>4. Base' = Base /\ Base[u] = {}
  BY <1>2, <1>3, BaseOfOthers DEF Base
<1> QED BY <1>2, <1>4 DEF Memory!Number, Base

\* What a run adds in front of the steps is of its turn, what it loads is not.
LEMMA LoadDivides ==
  ASSUME RefInv, NEW u \in Updates, LoadMemory(u)
  PROVE  \E b \in {store[KeyOf[u]], <<>>} :
            /\ b \in Seq(Message) /\ history'[u] \in Seq(Message)
            /\ Len(b) \in 0 .. Len(history'[u]) /\ SubSeq(history'[u], 1, Len(b)) = b
            /\ Divides(Len(b), history'[u], Turn(u))
<1>1. TypeOK /\ StoreInv
  BY DEF RefInv, LimitInv, HInv
<1>2. PICK b \in {store[KeyOf[u]], <<>>}, e \in {<<>>, <<ExtraMessage(u)>>}, m \in {<<>>, <<UserMessage(u)>>} :
        history'[u] = b \o e \o m
  BY <1>1, LoadAdds, Zenon
<1>3. ExtraMessage(u) \in Message /\ UserMessage(u) \in Message
      /\ ExtraMessage(u).turn = Turn(u) /\ UserMessage(u).turn = Turn(u)
  BY <1>1, TurnType DEF ExtraMessage, UserMessage
<1> DEFINE t == e \o m
<1>4. /\ e \in Seq(Message) /\ m \in Seq(Message) /\ t \in Seq(Message)
      /\ \A i \in 1 .. Len(t) : t[i].turn = Turn(u)
  <2>1. /\ <<ExtraMessage(u)>> \in Seq(Message) /\ <<UserMessage(u)>> \in Seq(Message)
        /\ Len(<<ExtraMessage(u)>>) = 1 /\ Len(<<UserMessage(u)>>) = 1
        /\ <<ExtraMessage(u)>>[1].turn = Turn(u) /\ <<UserMessage(u)>>[1].turn = Turn(u)
        /\ <<>> \in Seq(Message) /\ Len(<<>>) = 0
    BY <1>3
  <2>2. e \in Seq(Message) /\ \A i \in 1 .. Len(e) : e[i].turn = Turn(u)
    <3>1. CASE e = <<>>
      BY <2>1, <3>1
    <3>2. CASE e = <<ExtraMessage(u)>>
      BY <2>1, <3>2
    <3> QED BY <1>2, <3>1, <3>2
  <2>3. m \in Seq(Message) /\ \A i \in 1 .. Len(m) : m[i].turn = Turn(u)
    <3>1. CASE m = <<>>
      BY <2>1, <3>1
    <3>2. CASE m = <<UserMessage(u)>>
      BY <2>1, <3>2
    <3> QED BY <1>2, <3>1, <3>2
  <2>4. t \in Seq(Message)
    BY <2>2, <2>3
  <2>5. ASSUME NEW i \in 1 .. Len(t) PROVE t[i].turn = Turn(u)
    BY <2>2, <2>3, <2>5, ConcatElement
  <2> QED BY <2>2, <2>3, <2>4, <2>5
<1>5. b \in Seq(Message) /\ \A i \in 1 .. Len(b) : b[i].turn # Turn(u)
  <2>1. <<>> \in Seq(Message) /\ Len(<<>>) = 0 /\ store[KeyOf[u]] \in Seq(Message)
    BY <1>1 DEF TypeOK
  <2>2. Fresh(u)
    BY DEF LoadMemory, Fresh
  <2>3. ASSUME NEW i \in 1 .. Len(store[KeyOf[u]]) PROVE store[KeyOf[u]][i].turn # Turn(u)
    <3>1. Known(store[KeyOf[u]][i]) /\ run[u] \in Nat
      BY <1>1 DEF StoreInv, TypeOK
    <3> QED BY <2>2, <3>1 DEF Known, Turn
  <2>4. CASE b = <<>>
    BY <2>1, <2>4
  <2>5. CASE b = store[KeyOf[u]]
    BY <2>1, <2>3, <2>5
  <2> QED BY <1>2, <2>4, <2>5
<1>6. history'[u] = b \o t
  BY <1>2, <1>4, <1>5, ConcatAssociative
<1> HIDE DEF t
<1>7. /\ history'[u] \in Seq(Message) /\ Len(history'[u]) = Len(b) + Len(t)
      /\ Len(b) \in Nat /\ Len(t) \in Nat
  BY <1>4, <1>5, <1>6
<1>8. Divides(Len(b), history'[u], Turn(u))
  <2>1. ASSUME NEW i \in 1 .. Len(b) PROVE history'[u][i].turn # Turn(u)
    <3>1. i \in 1 .. Len(b \o t)
      BY <1>6, <1>7
    <3> QED BY <1>4, <1>5, <1>6, <3>1, ConcatElement
  <2>2. ASSUME NEW i \in Len(b) + 1 .. Len(history'[u]) PROVE history'[u][i].turn = Turn(u)
    <3>1. i \in 1 .. Len(b \o t) /\ i > Len(b)
      BY <1>6, <1>7
    <3> QED BY <1>4, <1>5, <1>6, <3>1, ConcatElement
  <2> QED BY <2>1, <2>2 DEF Divides
<1>9. SubSeq(history'[u], 1, Len(b)) = b
  <2>1. SubSeq(b \o t, 1, Len(b)) \in Seq(Message) /\ Len(SubSeq(b \o t, 1, Len(b))) = Len(b)
        /\ \A i \in 1 .. Len(b) : SubSeq(b \o t, 1, Len(b))[i] = (b \o t)[i]
    BY <1>4, <1>5, <1>6, <1>7
  <2>2. \A i \in 1 .. Len(b) : (b \o t)[i] = b[i]
    BY <1>4, <1>5
  <2> QED BY <1>5, <1>6, <2>1, <2>2, SeqEqual
<1> QED BY <1>5, <1>7, <1>8, <1>9

LEMMA BeginStep ==
  ASSUME RefInv, NEW u \in Updates, LoadMemory(u)
  PROVE  Memory!Begin(u)
<1>1. TypeOK
  BY DEF RefInv, LimitInv, HInv
<1>2. Step(u) /\ UNCHANGED <<store, run, cleared>>
  BY DEF LoadMemory, Step, Goroutine, ctxVars
<1>3. pc[u] \notin InTurn /\ pc'[u] \in InTurn
  BY <1>1 DEF LoadMemory, TypeOK, InTurn
<1>4. Base[u] = {} /\ Base'[u] = {Snapshot(u)'}
  BY <1>3 DEF Base
<1>5. \E b \in {store[KeyOf[u]], <<>>} : Snapshot(u)' = b
  <2>1. PICK b \in {store[KeyOf[u]], <<>>} :
            /\ b \in Seq(Message) /\ history'[u] \in Seq(Message)
            /\ Len(b) \in 0 .. Len(history'[u]) /\ SubSeq(history'[u], 1, Len(b)) = b
            /\ Divides(Len(b), history'[u], Turn(u))
    BY LoadDivides
  <2>2. LoadedPart(history'[u], Turn(u)) = b
    BY <2>1, LoadedPartIs
  <2>3. CASE cleared[u]
    BY <1>2, <2>3 DEF Snapshot
  <2>4. CASE ~cleared[u]
    BY <1>2, <2>2, <2>4 DEF Snapshot, Turn, LoadedPart
  <2> QED BY <2>3, <2>4
<1>6. Base' = [Base EXCEPT ![u] = Base'[u]]
  BY <1>1, <1>2, BaseOfOthers
<1>7. \E b \in {store[KeyOf[u]], <<>>} : Base' = [Base EXCEPT ![u] = {b}]
  BY <1>4, <1>5, <1>6
<1> QED BY <1>2, <1>4, <1>7 DEF Memory!Begin, Base

LEMMA ClearStep ==
  ASSUME TypeOK, NEW u \in Updates, ClearContext(u)
  PROVE  Memory!Clear(u) \/ UNCHANGED <<store, run, Base>>
<1>1. Step(u) /\ UNCHANGED <<run, pc, history>> /\ pc[u] = "llm"
  BY DEF ClearContext, ToolStep, Step, Agent, Tool
<1>2. pc[u] \in InTurn /\ Base[u] # {} /\ Base'[u] = {Snapshot(u)'}
  BY <1>1 DEF Base, InTurn
<1>3. Base' = [Base EXCEPT ![u] = Base'[u]]
  BY <1>1, BaseOfOthers
<1>4. CASE store' = [store EXCEPT ![KeyOf[u]] = <<>>] /\ cleared' = [cleared EXCEPT ![u] = TRUE]
  <2>1. Base'[u] = {<<>>}
    BY <1>2, <1>4 DEF Snapshot, TypeOK
  <2> QED BY <1>1, <1>2, <1>3, <1>4, <2>1 DEF Memory!Clear, Base
<1>5. CASE UNCHANGED cleared /\ store' \in {store, [store EXCEPT ![KeyOf[u]] = <<>>]}
  <2>1. Base' = Base
    BY <1>1, <1>5, BaseOfOthers
  <2> QED BY <1>1, <1>2, <1>5, <2>1 DEF Memory!Clear, Base
<1> QED BY <1>4, <1>5 DEF ClearContext, ClearKey, MarkContextCleared

\* What a run is about to save is its snapshot, and then its own messages.
LEMMA UpdatedExtends ==
  ASSUME RefInv, NEW u \in Updates, pc[u] \in InTurn
  PROVE  /\ Updated(u) \in Seq(Message) /\ Snapshot(u) \in Seq(Message)
         /\ Len(Snapshot(u)) <= Len(Updated(u))
         /\ \A i \in 1 .. Len(Snapshot(u)) : Updated(u)[i] = Snapshot(u)[i]
         /\ \A i \in Len(Snapshot(u)) + 1 .. Len(Updated(u)) : Updated(u)[i].turn = Turn(u)
<1> DEFINE h == history[u]
           s == steps[u]
<1>1. h \in Seq(Message) /\ s \in Seq(Message) /\ Len(h) \in Nat /\ Len(s) \in Nat
  BY DEF RefInv, LimitInv, HInv, TypeOK
<1>2. \A i \in 1 .. Len(s) : s[i].turn = Turn(u)
  BY DEF RefInv, LimitInv, HInv, StepsInv
<1>3. CASE cleared[u]
  <2>1. Updated(u) = s /\ Snapshot(u) = <<>> /\ <<>> \in Seq(Message) /\ Len(<<>>) = 0
    BY <1>3 DEF Updated, Snapshot
  <2> QED BY <1>1, <1>2, <2>1
<1>4. CASE ~cleared[u]
  <2>1. PICK n \in 0 .. Len(h) : Divides(n, h, Turn(u))
    BY DEF RefInv
  <2>2. Updated(u) = h \o s /\ Snapshot(u) = SubSeq(h, 1, n)
    BY <1>1, <1>4, <2>1, LoadedPartIs DEF Updated, Snapshot
  <2>3. /\ Snapshot(u) \in Seq(Message) /\ Len(Snapshot(u)) = n
        /\ \A i \in 1 .. n : Snapshot(u)[i] = h[i]
    BY <1>1, <2>1, <2>2
  <2>4. h \o s \in Seq(Message) /\ Len(h \o s) = Len(h) + Len(s)
    BY <1>1
  <2>5. ASSUME NEW i \in 1 .. Len(h \o s) PROVE IF i <= n THEN (h \o s)[i] = h[i] ELSE (h \o s)[i].turn = Turn(u)
    <3>1. CASE i <= Len(h)
      <4>1. i \in 1 .. Len(h) /\ (h \o s)[i] = h[i]
        BY <1>1, <3>1, ConcatElement
      <4> QED BY <2>1, <4>1 DEF Divides
    <3>2. CASE i > Len(h)
      <4>1. i - Len(h) \in 1 .. Len(s) /\ (h \o s)[i] = s[i - Len(h)]
        BY <1>1, <3>2, ConcatElement
      <4>2. i \in Nat /\ ~(i <= n)
        BY <1>1, <2>1, <3>2
      <4> QED BY <1>2, <4>1, <4>2
    <3> QED BY <1>1, <3>1, <3>2
  <2> HIDE DEF h, s
  <2>6. Updated(u) \in Seq(Message) /\ Len(Updated(u)) = Len(h) + Len(s) /\ n \in Nat
    BY <1>1, <2>1, <2>2, <2>4
  <2>7. \A i \in 1 .. n : Updated(u)[i] = Snapshot(u)[i]
    BY <1>1, <2>1, <2>2, <2>3, <2>4, <2>5
  <2>8. \A i \in n + 1 .. Len(Updated(u)) : Updated(u)[i].turn = Turn(u)
    BY <1>1, <2>1, <2>2, <2>4, <2>5
  <2>9. n <= Len(Updated(u))
    BY <1>1, <2>1, <2>6
  <2> QED BY <2>3, <2>6, <2>7, <2>8, <2>9
<1> QED BY <1>3, <1>4

\* s is f messages of u's turn, the last n messages of b, and then again
\* messages of u's turn.
Splits(s, b, u, f, n) ==
    /\ f \in Nat /\ n \in 0 .. Len(b) /\ f + n <= Len(s)
    /\ \A i \in 1 .. n : s[f + i] = b[Len(b) - n + i]
    /\ \A i \in 1 .. Len(s) : i <= f \/ i > f + n => s[i].turn = Turn(u)

LEMMA SplitExtends ==
  ASSUME NEW u \in Updates, NEW s \in Seq(Message), NEW b \in Seq(Message), NEW f, NEW n,
         Splits(s, b, u, f, n), f > 0 => Summarizes,
         n < Len(b) => MaxMsgs > 0 /\ (Len(s) = MaxMsgs \/ Summarizes)
  PROVE  Memory!Extends(s, b, u)
<1>1. /\ f \in 0 .. Len(s) /\ n \in 0 .. Len(b) /\ f + n <= Len(s)
      /\ Len(s) \in Nat /\ Len(b) \in Nat /\ f \in Nat /\ n \in Nat
  BY DEF Splits
<1>2. SubSeq(s, f + 1, f + n) = SubSeq(b, Len(b) - n + 1, Len(b))
  <2>1. /\ SubSeq(s, f + 1, f + n) \in Seq(Message) /\ Len(SubSeq(s, f + 1, f + n)) = n
        /\ \A i \in 1 .. n : SubSeq(s, f + 1, f + n)[i] = s[f + i]
    BY <1>1
  <2>2. /\ SubSeq(b, Len(b) - n + 1, Len(b)) \in Seq(Message)
        /\ Len(SubSeq(b, Len(b) - n + 1, Len(b))) = n
        /\ \A i \in 1 .. n : SubSeq(b, Len(b) - n + 1, Len(b))[i] = b[Len(b) - n + i]
    BY <1>1
  <2>3. \A i \in 1 .. n : s[f + i] = b[Len(b) - n + i]
    BY DEF Splits
  <2> QED BY <2>1, <2>2, <2>3, SeqEqual
<1>3. \A i \in (1 .. f) \cup (f + n + 1 .. Len(s)) : s[i].turn = <<u, run[u]>>
  BY <1>1 DEF Splits, Turn
<1> QED BY <1>1, <1>2, <1>3 DEF Memory!Extends

\* The end of a sequence that splits does so too.
LEMMA EndSplits ==
  ASSUME NEW u \in Updates, NEW s \in Seq(Message), NEW t \in Seq(Message), NEW b \in Seq(Message),
         NEW f, NEW n, Splits(s, b, u, f, n), EndOf(t, s)
  PROVE  \E g, m : /\ Splits(t, b, u, g, m) /\ m <= n /\ g <= f
                   /\ m < n => Len(t) < Len(s)
<1>1. PICK d \in Nat :
         /\ Len(t) = Len(s) - d
         /\ \A i \in 1 .. Len(s) - d : i + d \in 1 .. Len(s) /\ t[i] = s[i + d]
  BY DEF EndOf
<1>2. /\ Len(s) \in Nat /\ Len(b) \in Nat /\ Len(t) \in Nat /\ f \in Nat /\ n \in Nat
      /\ n <= Len(b) /\ f + n <= Len(s)
  BY DEF Splits
<1> DEFINE g == IF d <= f THEN f - d ELSE 0
           m == IF d <= f THEN n ELSE IF d <= f + n THEN f + n - d ELSE 0
<1>3. /\ g \in Nat /\ m \in Nat /\ m <= n /\ g <= f /\ g + m <= Len(t)
      /\ m < n => d > 0
      /\ m > 0 => g + m + d = f + n
      /\ g + m + d >= f + n /\ (g > 0 => g + d = f)
  BY <1>1, <1>2
<1> HIDE DEF g, m
<1>4. ASSUME NEW i \in 1 .. m PROVE t[g + i] = b[Len(b) - m + i]
  <2>1. g + m + d = f + n /\ i \in Nat /\ i >= 1 /\ i <= m
    BY <1>3
  <2>2. g + i \in 1 .. Len(s) - d
    BY <1>1, <1>2, <1>3, <2>1
  <2>3. t[g + i] = s[(g + i) + d]
    BY <1>1, <2>2
  <2> DEFINE j == n - m + i
  <2>4. j \in 1 .. n /\ (g + i) + d = f + j /\ Len(b) - m + i = Len(b) - n + j
    BY <1>2, <1>3, <2>1
  <2> HIDE DEF j
  <2>5. s[f + j] = b[Len(b) - n + j]
    BY <2>4 DEF Splits
  <2> QED BY <2>3, <2>4, <2>5
<1>5. ASSUME NEW i \in 1 .. Len(t), i <= g \/ i > g + m PROVE t[i].turn = Turn(u)
  <2>1. i \in 1 .. Len(s) - d /\ i \in Nat
    BY <1>1
  <2>2. i + d \in 1 .. Len(s) /\ t[i] = s[i + d]
    BY <1>1, <2>1
  <2>3. i + d <= f \/ i + d > f + n
    BY <1>2, <1>3, <1>5, <2>1
  <2> QED BY <2>2, <2>3 DEF Splits
<1>6. Splits(t, b, u, g, m)
  <2>1. m \in 0 .. Len(b)
    BY <1>2, <1>3
  <2> QED BY <1>3, <1>4, <1>5, <2>1 DEF Splits
<1> QED BY <1>1, <1>2, <1>3, <1>6

\* Summaries in front of a sequence that splits without any.
LEMMA SummariesSplit ==
  ASSUME TypeOK, NEW u \in Updates, NEW t \in Seq(Message), NEW b \in Seq(Message),
         NEW m, Splits(t, b, u, 0, m), NEW k \in Nat
  PROVE  /\ Summaries(u, k) \o t \in Seq(Message)
         /\ Splits(Summaries(u, k) \o t, b, u, k, m)
<1> DEFINE r == Summaries(u, k)
<1>1. r \in Seq(Message) /\ Len(r) = k /\ \A i \in 1 .. k : r[i].turn = Turn(u)
  BY SummariesType
<1> HIDE DEF r
<1>2. /\ r \o t \in Seq(Message) /\ Len(r \o t) = k + Len(t)
      /\ Len(t) \in Nat /\ m \in 0 .. Len(b) /\ m <= Len(t) /\ m \in Nat /\ k + m <= Len(r \o t)
  <2>1. r \o t \in Seq(Message) /\ Len(r \o t) = k + Len(t) /\ Len(t) \in Nat /\ Len(b) \in Nat
    <3>1. r \in Seq(Message) /\ Len(r) = k
      BY <1>1
    <3> QED BY <3>1
  <2>2. m \in 0 .. Len(b) /\ 0 + m <= Len(t)
    BY DEF Splits
  <2> QED BY <2>1, <2>2
<1>3. ASSUME NEW i \in 1 .. m PROVE (r \o t)[k + i] = b[Len(b) - m + i]
  <2>1. (r \o t)[k + i] = t[i] /\ 0 + i = i
    BY <1>1, <1>2
  <2> QED BY <2>1 DEF Splits
<1>4. ASSUME NEW i \in 1 .. Len(r \o t), i <= k \/ i > k + m PROVE (r \o t)[i].turn = Turn(u)
  <2>1. CASE i <= k
    BY <1>1, <2>1, ConcatElement
  <2>2. CASE i > k + m
    <3>1. i - k \in 1 .. Len(t) /\ (r \o t)[i] = t[i - k] /\ i - k > 0 + m
      BY <1>1, <1>2, <2>2, ConcatElement
    <3> QED BY <3>1 DEF Splits
  <2> QED BY <1>4, <2>1, <2>2
<1>5. Splits(r \o t, b, u, k, m)
  BY <1>2, <1>3, <1>4 DEF Splits
<1> QED BY <1>2, <1>5 DEF r

\* What the limit leaves of a shortened sequence is as long as the limit.
LEMMA KeepLastShorter ==
  ASSUME NEW s \in Seq(Message), Len(KeepLast(s)) < Len(s)
  PROVE  MaxMsgs > 0 /\ Len(KeepLast(s)) = MaxMsgs
<1>1. MaxMsgs > 0 /\ Len(s) > MaxMsgs
  BY DEF KeepLast
<1>2. Len(s) \in Nat /\ MaxMsgs \in Nat
  OBVIOUS
<1> QED BY <1>1, <1>2 DEF KeepLast

LEMMA KeptExtends ==
  ASSUME TypeOK, NEW u \in Updates, NEW s \in Seq(Message), NEW b \in Seq(Message), Len(b) <= Len(s),
         \A i \in 1 .. Len(b) : s[i] = b[i],
         \A i \in Len(b) + 1 .. Len(s) : s[i].turn = Turn(u),
         NEW kept \in Kept(u, s)
  PROVE  Memory!Extends(kept, b, u)
<1>1. Len(b) \in Nat /\ Len(s) \in Nat
  OBVIOUS
<1>2. Splits(s, b, u, 0, Len(b))
  BY <1>1 DEF Splits
<1>3. CASE kept = KeepLast(s)
  <2>1. kept \in Seq(Message) /\ EndOf(kept, s)
    BY <1>3, KeepLastType, KeepLastSuffix
  <2>2. PICK g, m : Splits(kept, b, u, g, m) /\ g <= 0 /\ m <= Len(b) /\ (m < Len(b) => Len(kept) < Len(s))
    BY <1>2, <2>1, EndSplits
  <2>3. g = 0
    BY <2>2 DEF Splits
  <2>4. m < Len(b) => MaxMsgs > 0 /\ Len(kept) = MaxMsgs
    BY <1>3, <2>2, KeepLastShorter
  <2> QED BY <2>1, <2>2, <2>3, <2>4, SplitExtends
<1>4. ASSUME Summarizes, MaxMsgs > 0, NEW k \in 0 .. MaxMsgs, NEW cut \in 0 .. Len(s),
             kept = KeepLast(Condensed(u, k, s, cut))
      PROVE  Memory!Extends(kept, b, u)
  <2> DEFINE t == SubSeq(s, cut + 1, Len(s))
             c == Condensed(u, k, s, cut)
  <2>1. t \in Seq(Message) /\ EndOf(t, s)
    BY SubSeqSuffix
  <2>2. PICK g, m : Splits(t, b, u, g, m) /\ g <= 0
    BY <1>2, <2>1, EndSplits
  <2>3. g = 0 /\ k \in Nat
    BY <2>2 DEF Splits
  <2>4. c \in Seq(Message) /\ Splits(c, b, u, k, m)
    BY <2>1, <2>2, <2>3, SummariesSplit DEF Condensed
  <2> HIDE DEF t, c
  <2>5. kept \in Seq(Message) /\ EndOf(kept, c)
    BY <1>4, <2>4, KeepLastType, KeepLastSuffix DEF c
  <2>6. PICK h, n : Splits(kept, b, u, h, n)
    BY <2>4, <2>5, EndSplits
  <2> QED BY <1>4, <2>5, <2>6, SplitExtends
<1> QED BY <1>3, <1>4, KeptForms

LEMMA CommitStep ==
  ASSUME RefInv, [Next]_vars, NEW u \in Updates, SaveMemory(u), store' # store
  PROVE  Memory!Commit(u)
<1>1. TypeOK /\ LimitInv
  BY DEF RefInv, LimitInv, HInv
<1>2. Step(u) /\ UNCHANGED run /\ pc[u] \in InTurn /\ pc'[u] \notin InTurn
  BY <1>1 DEF SaveMemory, Step, Goroutine, InTurn, TypeOK
<1>3. PICK kept \in Kept(u, Updated(u)) : store' = [store EXCEPT ![KeyOf[u]] = kept]
  BY DEF SaveMemory, MemKey, StreamKey, CallKey
<1>4. store'[KeyOf[u]] = kept /\ store' = [store EXCEPT ![KeyOf[u]] = store'[KeyOf[u]]]
  BY <1>1, <1>3 DEF TypeOK
<1>5. Base[u] = {Snapshot(u)}
  BY <1>2 DEF Base
<1>6. Base' = [Base EXCEPT ![u] = {}]
  BY <1>1, <1>2, BaseOfOthers
<1>7. Memory!Bounded(store'[KeyOf[u]])
  <2>1. store'[KeyOf[u]] \in Seq(Message)
    BY <1>1, <1>3, <1>4, KeptType
  <2>2. FitsLimit(store'[KeyOf[u]], cleared')
    BY <1>1, <2>1, StoreFits
  <2> QED BY <2>2 DEF FitsLimit, Memory!Bounded
<1>8. Memory!Extends(kept, Snapshot(u), u)
  BY <1>1, <1>2, <1>3, UpdatedExtends, KeptExtends
<1> QED BY <1>2, <1>4, <1>5, <1>6, <1>7, <1>8 DEF Memory!Commit, Base

LEMMA ForgetStep ==
  ASSUME TypeOK, Crash \/ \E k \in Keys : DropKey(k)
  PROVE  \E K \in SUBSET Keys : Memory!Forget(K)
<1>1. CASE \E k \in Keys : DropKey(k)
  <2>1. PICK k \in Keys : DropKey(k)
    BY <1>1
  <2>2. UNCHANGED <<pc, history, cleared, run>> /\ store' = [store EXCEPT ![k] = <<>>]
    BY <2>1 DEF DropKey, turnVars, ctxVars
  <2>3. Base' = Base
    BY <2>2, SnapshotStays DEF Base
  <2>4. store' = [x \in Keys |-> IF x \in {k} THEN <<>> ELSE store[x]]
    BY <2>2 DEF TypeOK
  <2>5. Memory!Forget({k})
    BY <2>2, <2>3, <2>4 DEF Memory!Forget, Base
  <2> QED BY <2>5
<1>2. CASE Crash
  <2>1. \A w \in Updates : pc'[w] \notin InTurn
    BY <1>2 DEF Crash, Active, Idle, InTurn
  <2>2. Base' = [w \in Updates |-> {}]
    BY <2>1 DEF Base
  <2>3. UNCHANGED run
    BY <1>2 DEF Crash, turnVars
  <2>4. CASE store' = store
    <3>1. store' = [x \in Keys |-> IF x \in {} THEN <<>> ELSE store[x]]
      BY <2>4 DEF TypeOK
    <3>2. Memory!Forget({})
      BY <2>2, <2>3, <3>1 DEF Memory!Forget, Base
    <3> QED BY <3>2
  <2>5. CASE store' = [k \in Keys |-> <<>>]
    <3>1. store' = [x \in Keys |-> IF x \in Keys THEN <<>> ELSE store[x]]
      BY <2>5
    <3>2. Memory!Forget(Keys)
      BY <2>2, <2>3, <3>1 DEF Memory!Forget, Base
    <3> QED BY <3>2
  <2> QED BY <1>2, <2>4, <2>5 DEF Crash
<1> QED BY <1>1, <1>2

LEMMA MemoryStep == RefInv /\ [Next]_vars => [Memory!Next]_(Memory!vars)
<1> SUFFICES ASSUME RefInv, [Next]_vars PROVE Memory!Next \/ UNCHANGED <<store, run, Base>>
  BY DEF Memory!vars, Base
<1>1. TypeOK
  BY DEF RefInv, LimitInv, HInv
<1>2. CASE UNCHANGED vars
  <2>1. UNCHANGED <<store, pc, run, history, cleared>>
    BY <1>2 DEF vars, turnVars, ctxVars
  <2> QED BY <2>1, SnapshotStays DEF Base
<1>3. CASE Crash \/ \E k \in Keys : DropKey(k)
  BY <1>1, <1>3, ForgetStep DEF Memory!Next
<1>4. ASSUME NEW u \in Updates, Step(u)
      PROVE  Memory!Next \/ UNCHANGED <<store, run, Base>>
  <2>1. CASE Quiet(u)
    BY <1>1, <2>1, QuietStep
  <2>2. CASE Dropped(u)
    <3>1. Memory!Abandon({u})
      BY <1>1, <2>2, DroppedStep
    <3> QED BY <3>1 DEF Memory!Next
  <2>3. CASE RunLLM(u)
    BY <1>1, <2>3, NumberStep DEF Memory!Next
  <2>4. CASE LoadMemory(u)
    BY <2>4, BeginStep DEF Memory!Next
  <2>5. CASE ClearContext(u)
    BY <1>1, <2>5, ClearStep DEF Memory!Next
  <2>6. CASE SaveMemory(u) /\ store' # store
    BY <2>6, CommitStep DEF Memory!Next
  <2> QED BY <1>4, <2>1, <2>2, <2>3, <2>4, <2>5, <2>6
          DEF Step, Goroutine, Agent, Tool, Quiet, Dropped
<1> QED BY <1>2, <1>3, <1>4 DEF Next, Step

LEMMA RefInvAlways == Spec => []RefInv
<1>1. Init /\ LimitInv => RefInv
  BY DEF Init, RefInv, InTurn
<1>2. RefInv /\ LimitInv' /\ [Next]_vars => RefInv'
  <2> SUFFICES ASSUME RefInv, LimitInv', [Next]_vars, NEW w \in Updates, pc'[w] \in InTurn
               PROVE  \E n \in 0 .. Len(history'[w]) : Divides(n, history'[w], Turn(w)')
    BY DEF RefInv, Divides
  <2>1. TypeOK
    BY DEF RefInv, LimitInv, HInv
  <2>2. CASE LoadMemory(w)
    <3>1. Turn(w)' = Turn(w)
      BY <2>2 DEF LoadMemory, Turn
    <3> QED BY <2>2, <3>1, LoadDivides
  <2>3. CASE ~LoadMemory(w)
    <3>1. pc[w] \in InTurn
      <4>1. CASE UNCHANGED vars
        BY <4>1 DEF vars
      <4>2. CASE Crash \/ \E k \in Keys : DropKey(k)
        BY <2>1, <4>2 DEF Crash, DropKey, InTurn, TypeOK
      <4>3. ASSUME NEW u \in Updates, Step(u), u # w PROVE pc[w] \in InTurn
        BY <2>1, <4>3, OthersKept
      <4>4. CASE Handle(w) \/ RunLLM(w) \/ Return(w) \/ SendReply(w) \/ Expire(w)
        BY <2>1, <4>4 DEF Handle, RunLLM, Return, SendReply, Expire, InTurn, TypeOK
      <4>5. CASE StartStream(w) \/ StreamError(w) \/ StreamEnd(w) \/ SaveMemory(w)
        BY <2>1, <4>5 DEF StartStream, StreamError, StreamEnd, SaveMemory, InTurn, TypeOK
      <4>6. CASE TextDelta(w) \/ Tool(w) \/ FinalText(w) \/ StopAfterTools(w) \/ AgentFails(w)
        BY <4>6 DEF TextDelta, Tool, ToolStep, ClearContext, SendTool, OtherTool, FinalText,
                    StopAfterTools, AgentFails, InTurn
      <4> QED BY <2>3, <4>1, <4>2, <4>3, <4>4, <4>5, <4>6 DEF Next, Step, Goroutine, Agent
    <3>2. history'[w] = history[w] \/ history'[w] = <<>>
      BY <2>1, <2>3, Moves DEF HistoryMoves
    <3>3. run'[w] = run[w]
      BY <2>1, <3>1, Moves DEF RunMoves, InTurn
    <3>4. CASE history'[w] = history[w]
      BY <3>1, <3>3, <3>4 DEF RefInv, Turn, Divides
    <3>5. CASE history'[w] = <<>>
      BY <3>5 DEF Divides
    <3> QED BY <3>2, <3>4, <3>5
  <2> QED BY <2>2, <2>3
<1> QED BY <1>1, <1>2, LimitInvAlways, PTL DEF Spec

(* The engine implements the abstract memory: whatever runs interleave,    *)
(* fail or crash, each leaves behind the history it loaded, less what the  *)
(* limit takes, and its own messages, and nothing else changes what is     *)
(* remembered but a clear, an expiry or a crash (loadMemory, saveMemory).  *)
THEOREM EngineImplementsMemory == Spec => ImplementsMemory
<1>1. Init => Memory!Init
  <2> SUFFICES ASSUME Init PROVE Memory!Init
    OBVIOUS
  <2>1. Base = [u \in Updates |-> {}]
    BY DEF Init, Base, InTurn
  <2> QED BY <2>1 DEF Init, Memory!Init, Base
<1> QED BY <1>1, MemoryStep, RefInvAlways, PTL DEF Spec, ImplementsMemory, Memory!Spec

LEMMA SavesIsSave ==
  ASSUME TypeOK, [Next]_vars, NEW u \in Updates, Saves(u)
  PROVE  SaveMemory(u)
<1>1. pc[u] = "save" /\ pc'[u] \in {"handler", "send"} /\ pc \in [Updates -> Places]
  BY DEF Saves, TypeOK
<1>2. ~UNCHANGED vars
  BY <1>1 DEF vars
<1>3. ~(Crash \/ \E k \in Keys : DropKey(k))
  BY <1>1 DEF Crash, DropKey
<1>4. ASSUME NEW w \in Updates, Step(w) PROVE w = u
  BY <1>1, <1>4, OthersKept
<1>5. CASE Handle(u) \/ RunLLM(u) \/ Return(u) \/ LoadMemory(u) \/ StartStream(u) \/ StreamError(u)
           \/ StreamEnd(u) \/ SendReply(u)
  BY <1>1, <1>5 DEF Handle, RunLLM, Return, LoadMemory, StartStream, StreamError, StreamEnd, SendReply
<1>6. CASE TextDelta(u) \/ Tool(u) \/ FinalText(u) \/ StopAfterTools(u) \/ AgentFails(u)
  BY <1>1, <1>6 DEF TextDelta, Tool, ToolStep, ClearContext, SendTool, OtherTool, FinalText,
                    StopAfterTools, AgentFails
<1>7. CASE Expire(u)
  BY <1>1, <1>7 DEF Expire
<1> QED BY <1>2, <1>3, <1>4, <1>5, <1>6, <1>7 DEF Next, Step, Goroutine, Agent

\* Of msgs, kept holds all but the first d, and nothing else but summaries.
Leaves(kept, msgs, d, u) ==
    /\ \A q \in d + 1 .. Len(msgs) : Holds(kept, msgs[q])
    /\ \A p \in 1 .. Len(kept) :
          \/ kept[p].turn = Turn(u) /\ kept[p].kind = "summary"
          \/ \E q \in d + 1 .. Len(msgs) : kept[p] = msgs[q]
    /\ d > 0 => MaxMsgs > 0 /\ (Len(kept) = MaxMsgs \/ Summarizes)

LEMMA CondensedLeaves ==
  ASSUME TypeOK, NEW u \in Updates, NEW msgs \in Seq(Message), NEW k \in Nat,
         NEW cut \in 0 .. Len(msgs), MaxMsgs > 0, Summarizes
  PROVE  \E d \in 0 .. Len(msgs) : Leaves(KeepLast(Condensed(u, k, msgs, cut)), msgs, d, u)
<1> DEFINE r == Summaries(u, k)
           t == SubSeq(msgs, cut + 1, Len(msgs))
           c == r \o t
           kept == KeepLast(c)
<1>1. /\ r \in Seq(Message) /\ Len(r) = k
      /\ \A i \in 1 .. k : r[i].turn = Turn(u) /\ r[i].kind = "summary"
  BY SummariesType
<1>2. /\ t \in Seq(Message) /\ Len(t) = Len(msgs) - cut /\ Len(msgs) \in Nat /\ cut \in Nat
      /\ \A i \in 1 .. Len(msgs) - cut : i + cut \in 1 .. Len(msgs) /\ t[i] = msgs[i + cut]
  OBVIOUS
<1> HIDE DEF r, t
<1>3. c \in Seq(Message) /\ Len(c) = k + (Len(msgs) - cut)
  <2>1. r \in Seq(Message) /\ Len(r) = k
    BY <1>1
  <2>2. t \in Seq(Message) /\ Len(t) = Len(msgs) - cut
    BY <1>2
  <2> QED BY <2>1, <2>2
<1>4. ASSUME NEW i \in 1 .. Len(c)
      PROVE  /\ i <= k => c[i].turn = Turn(u) /\ c[i].kind = "summary"
             /\ i > k => c[i] = msgs[(i - k) + cut]
  <2>1. CASE i <= k
    BY <1>1, <1>2, <2>1, ConcatElement
  <2>2. CASE i > k
    <3>1. i - k \in 1 .. Len(msgs) - cut /\ c[i] = t[i - k]
      BY <1>1, <1>2, <2>2, ConcatElement
    <3> QED BY <1>2, <2>2, <3>1
  <2> QED BY <2>1, <2>2
<1> HIDE DEF c
<1>5. kept \in Seq(Message) /\ EndOf(kept, c)
  BY <1>3, KeepLastType, KeepLastSuffix
<1> HIDE DEF kept
<1>6. PICK e \in Nat :
         /\ Len(kept) = Len(c) - e
         /\ \A i \in 1 .. Len(c) - e : i + e \in 1 .. Len(c) /\ kept[i] = c[i + e]
  BY <1>5 DEF EndOf
<1> DEFINE d == IF e <= k THEN cut ELSE cut + (e - k)
<1>7. d \in 0 .. Len(msgs) /\ d \in Nat /\ d >= cut /\ d >= cut + (e - k) /\ (d = cut \/ d = cut + (e - k))
      /\ Len(kept) \in Nat
  BY <1>2, <1>3, <1>5, <1>6
<1>8. e <= k => d = cut
  OBVIOUS
<1> HIDE DEF d
<1>9. ASSUME NEW q \in d + 1 .. Len(msgs) PROVE Holds(kept, msgs[q])
  <2> DEFINE i == (q - cut) + k
             p == i - e
  <2>1. i \in 1 .. Len(c) /\ i > k /\ (i - k) + cut = q
    BY <1>2, <1>3, <1>7
  <2>2. p \in 1 .. Len(c) - e /\ p + e = i
    BY <1>2, <1>3, <1>6, <1>7, <1>8
  <2> HIDE DEF i, p
  <2>3. kept[p] = msgs[q] /\ p \in 1 .. Len(kept)
    <3>1. c[i] = msgs[(i - k) + cut]
      BY <1>4, <2>1
    <3>2. kept[p] = c[p + e]
      BY <1>6, <2>2
    <3> QED BY <1>6, <2>1, <2>2, <3>1, <3>2
  <2> QED BY <2>3 DEF Holds
<1>10. ASSUME NEW p \in 1 .. Len(kept)
       PROVE  \/ kept[p].turn = Turn(u) /\ kept[p].kind = "summary"
              \/ \E q \in d + 1 .. Len(msgs) : kept[p] = msgs[q]
  <2>1. p + e \in 1 .. Len(c) /\ kept[p] = c[p + e]
    BY <1>6
  <2>2. CASE p + e <= k
    BY <1>4, <2>1, <2>2
  <2>3. CASE p + e > k
    <3> DEFINE q == ((p + e) - k) + cut
    <3>1. c[p + e] = msgs[q]
      BY <1>4, <2>1, <2>3
    <3>2. q \in d + 1 .. Len(msgs)
      BY <1>2, <1>3, <1>7, <2>1, <2>3
    <3> HIDE DEF q
    <3> QED BY <2>1, <3>1, <3>2
  <2> QED BY <2>1, <2>2, <2>3
<1>11. Leaves(kept, msgs, d, u)
  BY <1>9, <1>10 DEF Leaves
<1> QED BY <1>7, <1>11 DEF kept, c, r, t, Condensed

\* What a save stores is the end of what it was given, behind summaries.
LEMMA KeptLeaves ==
  ASSUME TypeOK, NEW u \in Updates, NEW msgs \in Seq(Message), NEW kept \in Kept(u, msgs)
  PROVE  \E d \in 0 .. Len(msgs) : Leaves(kept, msgs, d, u)
<1>1. CASE kept = KeepLast(msgs)
  <2>1. kept \in Seq(Message) /\ EndOf(kept, msgs)
    BY <1>1, KeepLastType, KeepLastSuffix
  <2>2. PICK d \in Nat :
          /\ Len(kept) = Len(msgs) - d
          /\ \A i \in 1 .. Len(msgs) - d : i + d \in 1 .. Len(msgs) /\ kept[i] = msgs[i + d]
    BY <2>1 DEF EndOf
  <2>3. Len(kept) \in Nat /\ Len(msgs) \in Nat /\ d \in 0 .. Len(msgs)
    BY <2>1, <2>2
  <2>4. ASSUME NEW q \in d + 1 .. Len(msgs) PROVE Holds(kept, msgs[q])
    <3>1. q - d \in 1 .. Len(msgs) - d /\ (q - d) + d = q
      BY <2>3
    <3>2. q - d \in 1 .. Len(kept) /\ kept[q - d] = msgs[q]
      BY <2>2, <3>1
    <3> QED BY <3>2 DEF Holds
  <2>5. ASSUME NEW p \in 1 .. Len(kept) PROVE \E q \in d + 1 .. Len(msgs) : kept[p] = msgs[q]
    <3>1. kept[p] = msgs[p + d] /\ p + d \in d + 1 .. Len(msgs)
      BY <2>2, <2>3
    <3> QED BY <3>1
  <2>6. ASSUME d > 0 PROVE MaxMsgs > 0 /\ Len(kept) = MaxMsgs
    <3>1. Len(kept) = Len(msgs) - d
      BY <2>2
    <3>2. Len(kept) < Len(msgs)
      BY <2>3, <2>6, <3>1
    <3> QED BY <1>1, <3>2, KeepLastShorter
  <2>7. Leaves(kept, msgs, d, u)
    BY <2>4, <2>5, <2>6 DEF Leaves
  <2> QED BY <2>3, <2>7
<1>2. ASSUME Summarizes, MaxMsgs > 0, NEW k \in 0 .. MaxMsgs, NEW cut \in 0 .. Len(msgs),
             kept = KeepLast(Condensed(u, k, msgs, cut))
      PROVE  \E d \in 0 .. Len(msgs) : Leaves(kept, msgs, d, u)
  <2>1. k \in Nat
    OBVIOUS
  <2> QED BY <1>2, <2>1, CondensedLeaves
<1> QED BY <1>1, <1>2, KeptForms

\* The parts of a save: what was stored, or a form of what the run has.
LEMMA SaveStores ==
  ASSUME TypeOK, [Next]_vars, NEW u \in Updates, Saves(u), store'[KeyOf[u]] # store[KeyOf[u]]
  PROVE  store'[KeyOf[u]] \in Kept(u, Updated(u))
<1>1. PICK kept \in Kept(u, Updated(u)) : store' = [store EXCEPT ![KeyOf[u]] = kept]
  <2>1. SaveMemory(u) /\ store' # store
    BY SavesIsSave
  <2> QED BY <2>1 DEF SaveMemory, MemKey, StreamKey, CallKey
<1> QED BY <1>1 DEF TypeOK

LEMMA SaveKeeps ==
  ASSUME HInv, [Next]_vars, NEW u \in Updates, Saves(u), ~cleared[u]
  PROVE  Keeps(u)
<1> DEFINE new  == store'[KeyOf[u]]
           h    == history[u]
           msgs == Updated(u)
<1> SUFFICES ASSUME new # store[KeyOf[u]], NEW j \in 1 .. Len(h), ~Holds(new, h[j])
             PROVE  /\ MaxMsgs > 0 /\ (Len(new) = MaxMsgs \/ Summarizes)
                    /\ \A i \in 1 .. j : ~Holds(new, h[i])
  BY DEF Keeps
<1>1. /\ TypeOK /\ h \in Seq(Message) /\ steps[u] \in Seq(Message) /\ Len(h) \in Nat
      /\ msgs \in Seq(Message) /\ Ordered(msgs) /\ Unsummarized(msgs, u) /\ Len(msgs) \in Nat
  BY UpdatedFacts DEF HInv, TypeOK
<1>2. new \in Kept(u, msgs)
  BY <1>1, SaveStores
<1>3. PICK d \in 0 .. Len(msgs) : Leaves(new, msgs, d, u)
  BY <1>1, <1>2, KeptLeaves
<1>4. ASSUME NEW i \in 1 .. Len(h) PROVE i \in 1 .. Len(msgs) /\ msgs[i] = h[i]
  <2>1. h \in Seq(Message) /\ steps[u] \in Seq(Message) /\ Len(h) \in Nat
    BY <1>1
  <2>2. msgs = h \o steps[u]
    BY DEF Updated
  <2> HIDE DEF h, msgs
  <2>3. i \in 1 .. Len(h \o steps[u]) /\ i <= Len(h)
    BY <2>1
  <2> QED BY <2>1, <2>2, <2>3, ConcatElement
<1> HIDE DEF new, h, msgs
<1>5. j <= d
  <2>1. ~Holds(new, msgs[j]) /\ j \in 1 .. Len(msgs)
    BY <1>4
  <2>2. ~(j \in d + 1 .. Len(msgs))
    BY <1>3, <2>1 DEF Leaves
  <2> QED BY <1>1, <2>1, <2>2
<1>6. MaxMsgs > 0 /\ (Len(new) = MaxMsgs \/ Summarizes)
  <2>1. d > 0
    BY <1>1, <1>5
  <2> QED BY <1>3, <2>1 DEF Leaves
<1>7. ASSUME NEW i \in 1 .. j, Holds(new, h[i]) PROVE FALSE
  <2>1. i \in 1 .. Len(h)
    BY <1>1
  <2>2. i \in 1 .. Len(msgs) /\ msgs[i] = h[i]
    BY <1>4, <2>1
  <2>3. PICK p \in 1 .. Len(new) : new[p] = msgs[i]
    BY <1>7, <2>2 DEF Holds
  <2>4. ~(msgs[i].turn = Turn(u) /\ msgs[i].kind = "summary")
    BY <1>1, <2>2 DEF Unsummarized
  <2>5. PICK q \in d + 1 .. Len(msgs) : msgs[i] = msgs[q]
    BY <1>3, <2>3, <2>4 DEF Leaves
  <2>6. q \in 1 .. Len(msgs) /\ i < q
    BY <1>1, <1>5, <2>1
  <2> QED BY <1>1, <2>2, <2>5, <2>6 DEF Ordered, Before
<1> QED BY <1>6, <1>7

-----------------------------------------------------------------------------
(* What comments of the code say, and when it is true.                     *)

\* Of the messages in S: what a save stores, and what a load reads.
LEMMA StoreWithin ==
  ASSUME TypeOK, [Next]_vars, NEW k \in Keys, NEW S \in SUBSET Message, store[k] \in Seq(S),
         \A u \in Updates : SaveMemory(u) /\ KeyOf[u] = k =>
                               Updated(u) \in Seq(S) /\ \A n \in Nat : Summaries(u, n) \in Seq(S)
  PROVE  store'[k] \in Seq(S)
<1>1. <<>> \in Seq(S)
  OBVIOUS
<1>2. ASSUME NEW u \in Updates, SaveMemory(u), KeyOf[u] = k, store'[k] \in Kept(u, Updated(u))
      PROVE  store'[k] \in Seq(S)
  <2>1. Updated(u) \in Seq(S) /\ \A n \in Nat : Summaries(u, n) \in Seq(S)
    BY <1>2
  <2>2. ASSUME NEW t \in Seq(S) PROVE KeepLast(t) \in Seq(S)
    BY DEF KeepLast
  <2>3. ASSUME NEW n \in 0 .. MaxMsgs, NEW cut \in 0 .. Len(Updated(u))
        PROVE  Condensed(u, n, Updated(u), cut) \in Seq(S)
    <3>1. SubSeq(Updated(u), cut + 1, Len(Updated(u))) \in Seq(S)
      BY <2>1
    <3>2. n \in Nat
      OBVIOUS
    <3>3. Summaries(u, n) \in Seq(S)
      BY <2>1, <3>2
    <3> QED BY <3>1, <3>3 DEF Condensed
  <2>4. KeepLast(Updated(u)) \in Seq(S)
    BY <2>1, <2>2
  <2>5. \A n \in 0 .. MaxMsgs, cut \in 0 .. Len(Updated(u)) :
           KeepLast(Condensed(u, n, Updated(u), cut)) \in Seq(S)
    BY <2>2, <2>3
  <2>6. ASSUME NEW s \in Kept(u, Updated(u)) PROVE s \in Seq(S)
    BY <2>4, <2>5, KeptForms
  <2> QED BY <1>2, <2>6
<1> QED BY <1>1, <1>2, StoreMove DEF StoreMoves

LEMMA HistoryWithin ==
  ASSUME TypeOK, [Next]_vars, NEW u \in Updates, NEW S \in SUBSET Message,
         history[u] \in Seq(S),
         LoadMemory(u) => store[KeyOf[u]] \in Seq(S) /\ {ExtraMessage(u), UserMessage(u)} \subseteq S
  PROVE  history'[u] \in Seq(S)
<1>1. <<>> \in Seq(S)
  OBVIOUS
<1>2. CASE LoadMemory(u)
  <2>1. PICK loaded \in {store[KeyOf[u]], <<>>}, e \in {<<>>, <<ExtraMessage(u)>>},
             m \in {<<>>, <<UserMessage(u)>>} : history'[u] = loaded \o e \o m
    BY <1>2, LoadAdds, Zenon
  <2>2. loaded \in Seq(S)
    BY <1>1, <1>2, <2>1
  <2>3. e \in Seq(S) /\ m \in Seq(S)
    <3>1. <<ExtraMessage(u)>> \in Seq(S) /\ <<UserMessage(u)>> \in Seq(S)
      BY <1>2
    <3> QED BY <1>1, <2>1, <3>1
  <2>4. loaded \o e \o m \in Seq(S)
    BY <2>2, <2>3
  <2> QED BY <2>1, <2>4
<1> QED BY <1>1, <1>2, Moves DEF HistoryMoves

\* No result is the first message of its turn.
AfterCalls == {m \in Message : m.kind = "result" => m.idx > 1}

CallsInv ==
    /\ LimitInv
    /\ \A k \in Keys : store[k] \in Seq(AfterCalls)
    /\ \A u \in Updates : history[u] \in Seq(AfterCalls)

LEMMA UpdatedAfterCalls ==
  ASSUME CallsInv, NEW u \in Updates
  PROVE  Updated(u) \in Seq(AfterCalls)
<1>1. TypeOK /\ steps[u] \in Seq(Message)
  BY DEF CallsInv, LimitInv, HInv, TypeOK
<1>2. ASSUME NEW i \in 1 .. Len(steps[u]) PROVE steps[u][i] \in AfterCalls
  <2>1. /\ steps[u][i] \in Message /\ steps[u][i].idx = i
        /\ i = 1 => steps[u][i].kind # "result"
    BY <1>1 DEF CallsInv, LimitInv, HInv, StepsInv
  <2> QED BY <2>1 DEF AfterCalls
<1>3. steps[u] \in Seq(AfterCalls)
  BY <1>1, <1>2
<1>4. history[u] \o steps[u] \in Seq(AfterCalls)
  BY <1>3 DEF CallsInv
<1> QED BY <1>3, <1>4 DEF Updated

LEMMA CallsInvAlways == Spec => []CallsInv
<1>1. Init /\ LimitInv => CallsInv
  BY DEF Init, CallsInv
<1>2. CallsInv /\ LimitInv' /\ [Next]_vars => CallsInv'
  <2> SUFFICES ASSUME CallsInv, LimitInv', [Next]_vars PROVE CallsInv'
    OBVIOUS
  <2>1. TypeOK /\ AfterCalls \in SUBSET Message
    BY DEF CallsInv, LimitInv, HInv, AfterCalls
  <2>2. ASSUME NEW u \in Updates
        PROVE  /\ \A n \in Nat : Summaries(u, n) \in Seq(AfterCalls)
               /\ ExtraMessage(u) \in AfterCalls /\ UserMessage(u) \in AfterCalls
    <3>1. ASSUME NEW n \in Nat PROVE Summaries(u, n) \in Seq(AfterCalls)
      <4>1. /\ Summaries(u, n) \in Seq(Message) /\ Len(Summaries(u, n)) = n
            /\ \A i \in 1 .. n : Summaries(u, n)[i].kind = "summary"
        BY <2>1, SummariesType
      <4>2. \A i \in 1 .. n : Summaries(u, n)[i] \in AfterCalls
        BY <4>1 DEF AfterCalls
      <4> QED BY <4>1, <4>2
    <3> QED BY <2>1, <3>1, TurnType DEF AfterCalls, ExtraMessage, UserMessage
  <2>3. ASSUME NEW k \in Keys PROVE store'[k] \in Seq(AfterCalls)
    BY <2>1, <2>2, StoreWithin, UpdatedAfterCalls DEF CallsInv
  <2>4. ASSUME NEW u \in Updates PROVE history'[u] \in Seq(AfterCalls)
    <3>1. store[KeyOf[u]] \in Seq(AfterCalls) /\ history[u] \in Seq(AfterCalls)
      BY UpdatesAssumption DEF CallsInv
    <3> QED BY <2>1, <2>2, <3>1, HistoryWithin
  <2> QED BY <2>3, <2>4 DEF CallsInv
<1> QED BY <1>1, <1>2, LimitInvAlways, PTL DEF Spec

\* A result without its call comes first in a history that is as long as the
\* limit, or that a summarizer has cut.
CallsLostToTheLimit ==
    \A k \in Keys : store[k] # <<>> /\ store[k][1].kind = "result" =>
                       MaxMsgs > 0 /\ (Len(store[k]) = MaxMsgs \/ Summarizes)

(* A history whose first message is the result of a call that is gone is   *)
(* as long as the limit, if there is no summarizer to cut it: truncation   *)
(* is the only way to lose a call and keep its result, whatever interleaves*)
(* (Save of both memories, "preserve the full tool call/result history").  *)
THEOREM CallsLostOnlyToTheLimit == Spec => []CallsLostToTheLimit
<1>1. CallsInv => CallsLostToTheLimit
  <2> SUFFICES ASSUME CallsInv, NEW k \in Keys, store[k] # <<>>, store[k][1].kind = "result"
               PROVE  MaxMsgs > 0 /\ (Len(store[k]) = MaxMsgs \/ Summarizes)
    BY DEF CallsLostToTheLimit
  <2>1. store[k] \in Seq(AfterCalls)
    BY DEF CallsInv
  <2>2. store[k][1] \in AfterCalls /\ Len(store[k]) \in Nat
    BY <2>1
  <2>3. store[k][1].idx > 1 /\ store[k][1].idx \in Int
    BY <2>2 DEF AfterCalls, Message
  <2>4. FitsLimit(store[k], cleared)
    BY DEF CallsInv, LimitInv
  <2> QED BY <2>2, <2>3, <2>4 DEF FitsLimit, BeginsWhole
<1> QED BY <1>1, CallsInvAlways, PTL

(* So a memory with no limit keeps what its comment promises: no result is *)
(* ever left without its call.                                             *)
THEOREM CallsKeptWithoutLimit == MaxMsgs = 0 => (Spec => []CallsKeptWithResults)
<1> SUFFICES ASSUME MaxMsgs = 0 PROVE Spec => []CallsKeptWithResults
  OBVIOUS
<1>1. CallsLostToTheLimit => CallsKeptWithResults
  BY DEF CallsLostToTheLimit, CallsKeptWithResults
<1> QED BY <1>1, CallsLostOnlyToTheLimit, PTL

\* No two runs of one conversation are between their load and their save.
OneAtATime ==
    \A u, w \in Updates :
        u # w /\ KeyOf[u] = KeyOf[w] => ~(pc[u] \in InTurn /\ pc[w] \in InTurn)

\* What a run has loaded is what is stored, unless it has cleared it.
Intact ==
    \A u \in Updates : pc[u] \in InTurn /\ ~cleared[u] => Snapshot(u) = store[KeyOf[u]]

\* A step of another update does not touch the history of a run in progress.
LEMMA OthersIntact ==
  ASSUME TypeOK, OneAtATime, NEW u \in Updates, Step(u), NEW w \in Updates, w # u, pc[w] \in InTurn
  PROVE  store'[KeyOf[w]] = store[KeyOf[w]]
<1>1. store \in [Keys -> Seq(Message)] /\ KeyOf[u] \in Keys /\ KeyOf[w] \in Keys
  BY DEF TypeOK
<1>2. CASE pc[u] \in InTurn
  <2>1. KeyOf[u] # KeyOf[w]
    BY <1>2 DEF OneAtATime
  <2>2. CASE \E s : store' = [store EXCEPT ![KeyOf[u]] = s]
    BY <1>1, <2>1, <2>2
  <2>3. CASE UNCHANGED store
    BY <2>3
  <2>4. CASE SaveMemory(u) \/ ClearContext(u)
    <3>1. UNCHANGED store \/ \E s : store' = [store EXCEPT ![KeyOf[u]] = s]
      BY <2>4 DEF SaveMemory, ClearContext, MemKey, StreamKey, CallKey, ClearKey
    <3> QED BY <2>2, <2>3, <3>1
  <2>5. CASE ~(SaveMemory(u) \/ ClearContext(u))
    <3>1. UNCHANGED store
      BY <2>5 DEF Step, Goroutine, Agent, Tool, Handle, RunLLM, Return, LoadMemory, StartStream,
                  StreamError, StreamEnd, SendReply, TextDelta, SendTool, OtherTool, FinalText,
                  StopAfterTools, AgentFails, Expire
    <3> QED BY <3>1
  <2> QED BY <2>4, <2>5
<1>3. CASE pc[u] \notin InTurn
  <2>1. ~(SaveMemory(u) \/ ClearContext(u))
    BY <1>3 DEF SaveMemory, ClearContext, ToolStep, InTurn
  <2>2. UNCHANGED store
    BY <2>1 DEF Step, Goroutine, Agent, Tool, Handle, RunLLM, Return, LoadMemory, StartStream,
                StreamError, StreamEnd, SendReply, TextDelta, SendTool, OtherTool, FinalText,
                StopAfterTools, AgentFails, Expire
  <2> QED BY <2>2
<1> QED BY <1>2, <1>3

\* What u loads is what is stored, if a load cannot fail.
LEMMA LoadIntact ==
  ASSUME RefInv, ~Redis, NEW u \in Updates, LoadMemory(u), ~cleared[u]
  PROVE  Snapshot(u)' = store'[KeyOf[u]]
<1>1. TypeOK /\ UNCHANGED <<store, run, cleared>>
  BY DEF LoadMemory, ctxVars, RefInv, LimitInv, HInv
<1>2. PICK b \in {store[KeyOf[u]], <<>>} :
          /\ b \in Seq(Message) /\ history'[u] \in Seq(Message)
          /\ Len(b) \in 0 .. Len(history'[u]) /\ SubSeq(history'[u], 1, Len(b)) = b
          /\ Divides(Len(b), history'[u], Turn(u))
  BY LoadDivides
<1>3. LoadedPart(history'[u], Turn(u)) = b
  BY <1>2, LoadedPartIs
<1>4. Snapshot(u)' = b
  BY <1>1, <1>3 DEF Snapshot, Turn, LoadedPart
<1>5. CASE b = store[KeyOf[u]]
  BY <1>1, <1>4, <1>5
<1>6. CASE b # store[KeyOf[u]]
  <2>1. b = <<>> /\ store[KeyOf[u]] # <<>> /\ Len(b) = 0
    BY <1>2, <1>6
  <2>2. PICK e \in {<<>>, <<ExtraMessage(u)>>}, m \in {<<>>, <<UserMessage(u)>>} :
          history'[u] = store[KeyOf[u]] \o e \o m
    BY <1>1 DEF LoadMemory, Loaded, MemKey, StreamKey, CallKey, TypeOK
  <2>3. /\ store[KeyOf[u]] \in Seq(Message) /\ e \in Seq(Message) /\ m \in Seq(Message)
        /\ Len(store[KeyOf[u]]) >= 1
    <3>1. <<ExtraMessage(u)>> \in Seq(Message) /\ <<UserMessage(u)>> \in Seq(Message)
      BY <1>1, TurnType
    <3>2. store[KeyOf[u]] \in Seq(Message) /\ <<>> \in Seq(Message)
      BY <1>1 DEF TypeOK
    <3>3. Len(store[KeyOf[u]]) >= 1
      BY <2>1, <3>2
    <3>4. e \in Seq(Message) /\ m \in Seq(Message)
      BY <2>2, <3>1, <3>2
    <3> QED BY <3>2, <3>3, <3>4
  <2>4. history'[u][1] = store[KeyOf[u]][1] /\ Len(history'[u]) >= 1
    BY <2>2, <2>3
  <2>5. history'[u][1].turn = Turn(u)
    BY <1>2, <2>1, <2>4 DEF Divides
  <2>6. Known(store[KeyOf[u]][1]) /\ Fresh(u) /\ run[u] \in Nat
    <3>1. 1 \in 1 .. Len(store[KeyOf[u]])
      BY <2>3
    <3>2. StoreInv
      BY DEF RefInv, LimitInv, HInv
    <3> QED BY <1>1, <3>1, <3>2 DEF StoreInv, LoadMemory, Fresh, TypeOK
  <2> QED BY <2>4, <2>5, <2>6 DEF Known, Turn
<1> QED BY <1>5, <1>6

LEMMA IntactNext ==
  ASSUME RefInv, OneAtATime, Intact, ~Redis, [Next]_vars
  PROVE  Intact'
<1> SUFFICES ASSUME NEW w \in Updates, pc'[w] \in InTurn, ~cleared'[w]
             PROVE  Snapshot(w)' = store'[KeyOf[w]]
  BY DEF Intact
<1>1. TypeOK
  BY DEF RefInv, LimitInv, HInv
<1>2. CASE UNCHANGED vars
  BY <1>2 DEF Intact, Snapshot, Turn, LoadedPart, vars, turnVars, ctxVars
<1>3. ~(Crash \/ \E k \in Keys : DropKey(k))
  BY <1>1 DEF Crash, DropKey, Active, Idle, InTurn, TypeOK
<1>4. ASSUME NEW u \in Updates, Step(u), u # w PROVE Snapshot(w)' = store'[KeyOf[w]]
  <2>1. pc[w] \in InTurn /\ ~cleared[w] /\ Snapshot(w)' = Snapshot(w)
    BY <1>1, <1>4, OthersKept, SnapshotStays
  <2>2. store'[KeyOf[w]] = store[KeyOf[w]]
    BY <1>1, <1>4, <2>1, OthersIntact
  <2> QED BY <2>1, <2>2 DEF Intact
<1>5. CASE LoadMemory(w)
  <2>1. ~cleared[w]
    BY <1>5 DEF LoadMemory, ctxVars
  <2> QED BY <1>5, <2>1, LoadIntact
<1>6. CASE Quiet(w)
  <2>1. UNCHANGED <<store, run, Base>>
    BY <1>1, <1>6, QuietStep
  <2>2. Base'[w] = {Snapshot(w)'}
    BY DEF Base
  <2>3. pc[w] \in InTurn /\ Snapshot(w) = Snapshot(w)'
    BY <2>1, <2>2 DEF Base
  <2>4. ~cleared[w]
    BY <1>1, <1>6, <2>3 DEF Quiet, Handle, Return, SendReply, Expire, StreamError, StreamEnd, SendTool,
       OtherTool, FinalText, StopAfterTools, StartStream, TextDelta, ToolStep, ctxVars, InTurn, TypeOK
  <2> QED BY <2>1, <2>3, <2>4 DEF Intact
<1>7. ~(RunLLM(w) \/ AgentFails(w) \/ SaveMemory(w))
  BY <1>1 DEF RunLLM, AgentFails, SaveMemory, InTurn, TypeOK
<1>8. ~(StartStream(w) /\ pc'[w] # "llm") /\ ~(TextDelta(w) /\ pc'[w] # "llm")
  BY <1>1 DEF StartStream, TextDelta, InTurn, TypeOK
<1>9. ~ClearContext(w)
  BY <1>1 DEF ClearContext, MarkContextCleared, TypeOK
<1> QED BY <1>2, <1>3, <1>4, <1>5, <1>6, <1>7, <1>8, <1>9
        DEF Next, Step, Goroutine, Agent, Tool, Quiet

\* What a save stores is what was stored and its own messages.
LEMMA SaveBringsNothingBack ==
  ASSUME RefInv, Intact, [Next]_vars, NEW u \in Updates, Saves(u),
         NEW i \in 1 .. Len(store'[KeyOf[u]])
  PROVE  \/ store'[KeyOf[u]][i].turn = Turn(u)
         \/ \E j \in 1 .. Len(store[KeyOf[u]]) : store[KeyOf[u]][j] = store'[KeyOf[u]][i]
<1> DEFINE new  == store'[KeyOf[u]]
           msgs == Updated(u)
           old  == Snapshot(u)
<1>1. TypeOK /\ pc[u] \in InTurn
  BY DEF RefInv, LimitInv, HInv, Saves, InTurn
<1>2. CASE new = store[KeyOf[u]]
  BY <1>2
<1>3. CASE new # store[KeyOf[u]]
  <2>1. /\ msgs \in Seq(Message) /\ old \in Seq(Message) /\ Len(old) <= Len(msgs)
        /\ \A j \in 1 .. Len(old) : msgs[j] = old[j]
        /\ \A j \in Len(old) + 1 .. Len(msgs) : msgs[j].turn = Turn(u)
    BY <1>1, UpdatedExtends
  <2>2. PICK d \in 0 .. Len(msgs) : Leaves(new, msgs, d, u)
    BY <1>1, <1>3, <2>1, SaveStores, KeptLeaves
  <2> HIDE DEF old, msgs
  <2>3. CASE new[i].turn = Turn(u)
    BY <2>3
  <2>4. ASSUME NEW q \in d + 1 .. Len(msgs), new[i] = msgs[q]
        PROVE  new[i].turn = Turn(u) \/ \E j \in 1 .. Len(store[KeyOf[u]]) : store[KeyOf[u]][j] = new[i]
    <3>1. q \in 1 .. Len(msgs) /\ Len(old) \in Nat
      BY <2>1
    <3>2. CASE q > Len(old)
      BY <2>1, <2>4, <3>1, <3>2
    <3>3. CASE q <= Len(old)
      <4>1. q \in 1 .. Len(old) /\ new[i] = old[q]
        BY <2>1, <2>4, <3>1, <3>3
      <4>2. ~cleared[u]
        BY <4>1 DEF old, Snapshot
      <4>3. old = store[KeyOf[u]]
        BY <1>1, <4>2 DEF old, Intact
      <4> QED BY <4>1, <4>3
    <3> QED BY <3>1, <3>2, <3>3
  <2> QED BY <2>2, <2>3, <2>4 DEF Leaves
<1> QED BY <1>2, <1>3

(* A clear is final, as its tool promises, for as long as no two runs of   *)
(* one conversation overlap and the memory is in the process: then no save *)
(* brings back a message that was removed ("After clearing, the next LLM   *)
(* turn starts with a fresh context", tools/clear.go).                     *)
THEOREM ClearsAreFinalOneAtATime == ~Redis => (Spec /\ []OneAtATime => ClearIsFinal)
<1> SUFFICES ASSUME ~Redis PROVE Spec /\ []OneAtATime => ClearIsFinal
  OBVIOUS
<1>1. Init => Intact
  BY DEF Init, Intact, InTurn
<1>2. RefInv /\ OneAtATime /\ Intact /\ [Next]_vars => Intact'
  BY IntactNext
<1>3. RefInv /\ Intact /\ [Next]_vars =>
        [\A u \in Updates : Saves(u) =>
          \A i \in 1 .. Len(store'[KeyOf[u]]) :
              LET m == store'[KeyOf[u]][i] IN
              \/ m.turn = Turn(u)
              \/ \E j \in 1 .. Len(store[KeyOf[u]]) : store[KeyOf[u]][j] = m]_vars
  BY SaveBringsNothingBack
<1> QED BY <1>1, <1>2, <1>3, RefInvAlways, PTL DEF Spec, ClearIsFinal

\* A run is in progress from the load of its history to its save.
Running(u) == pc[u] = "load" \/ pc[u] \in InTurn

\* The messages of runs that are over, and those of the current run of u.
Past == {m \in Message :
            LET u == m.turn[1] IN m.turn[2] < run[u] \/ (m.turn[2] = run[u] /\ ~Running(u))}
OwnOf(u) == {m \in Message : m.turn = Turn(u)}

\* Nobody has seen the messages of a run in progress but itself.
UnseenInv ==
    /\ HInv
    /\ \A k \in Keys : store[k] \in Seq(Past)
    /\ \A u \in Updates : history[u] \in Seq(Past \cup OwnOf(u))

\* What a handler has done by the places it can be in.
RunInv ==
    \A u \in Updates :
        /\ run[u] <= MaxRuns
        /\ run[u] = 0 => pc[u] \in {"idle", "handler", "done", "dead"}
        /\ pc[u] \in {"end", "save"} => steps[u] # <<>>
        /\ cleared[u] => run[u] > 0
        /\ cleared[u] /\ run[u] = 1 => pc[u] \notin {"idle", "load", "start"}

LEMMA SeqWider ==
  ASSUME NEW S, NEW T, S \subseteq T, NEW s \in Seq(S)
  PROVE  s \in Seq(T)
OBVIOUS

LEMMA StepsOfOthers ==
  ASSUME TypeOK, NEW u \in Updates, Step(u), NEW w \in Updates, w # u
  PROVE  steps'[w] = steps[w]
<1>1. steps \in [Updates -> Seq(Message)]
  BY DEF TypeOK
<1>2. CASE Handle(u) \/ RunLLM(u) \/ Return(u) \/ SendReply(u) \/ Expire(u) \/ LoadMemory(u) \/ StartStream(u)
           \/ StreamEnd(u) \/ TextDelta(u) \/ StopAfterTools(u)
  BY <1>2 DEF Handle, RunLLM, Return, SendReply, Expire, LoadMemory, StartStream, StreamEnd, TextDelta,
              StopAfterTools, turnVars
<1>3. CASE StreamError(u) \/ SaveMemory(u) \/ AgentFails(u)
  BY <1>1, <1>3 DEF StreamError, SaveMemory, AgentFails, DropMessages
<1>4. CASE FinalText(u) \/ Tool(u)
  BY <1>1, <1>4 DEF FinalText, Tool, ToolStep, ClearContext, SendTool, OtherTool
<1> QED BY <1>2, <1>3, <1>4 DEF Step, Goroutine, Agent

\* A tool step leaves messages behind, as does the final text.
LEMMA StepsAdded ==
  ASSUME TypeOK, NEW u \in Updates, ToolStep(u) \/ FinalText(u)
  PROVE  steps'[u] # <<>>
<1>1. steps \in [Updates -> Seq(Message)] /\ Len(steps[u]) \in Nat
  BY DEF TypeOK
<1>2. CASE FinalText(u)
  <2> DEFINE m == StepMessage(u, Len(steps[u]) + 1, "text")
  <2>1. steps'[u] = Append(steps[u], m) /\ m \in Message
    BY <1>1, <1>2, TurnType DEF FinalText, Kinds
  <2> HIDE DEF m
  <2>2. Len(Append(steps[u], m)) = Len(steps[u]) + 1 /\ Len(<<>>) = 0
    BY <1>1, <2>1
  <2> QED BY <1>1, <2>1, <2>2
<1>3. CASE ToolStep(u)
  <2> DEFINE a == StepMessage(u, Len(steps[u]) + 1, "call")
             b == StepMessage(u, Len(steps[u]) + 2, "result")
  <2>1. steps'[u] = steps[u] \o <<a, b>> /\ a \in Message /\ b \in Message
    BY <1>1, <1>3, TurnType DEF ToolStep, Kinds
  <2> HIDE DEF a, b
  <2>2. <<a, b>> \in Seq(Message) /\ Len(<<a, b>>) = 2 /\ Len(<<>>) = 0
    BY <2>1
  <2>3. Len(steps[u] \o <<a, b>>) = Len(steps[u]) + 2
    BY <1>1, <2>2
  <2> QED BY <1>1, <2>1, <2>2, <2>3
<1> QED BY <1>2, <1>3

LEMMA RunInvNext ==
  ASSUME TypeOK, RunInv, [Next]_vars
  PROVE  RunInv'
<1> SUFFICES ASSUME NEW w \in Updates
             PROVE  /\ run'[w] <= MaxRuns
                    /\ run'[w] = 0 => pc'[w] \in {"idle", "handler", "done", "dead"}
                    /\ pc'[w] \in {"end", "save"} => steps'[w] # <<>>
                    /\ cleared'[w] => run'[w] > 0
                    /\ cleared'[w] /\ run'[w] = 1 => pc'[w] \notin {"idle", "load", "start"}
  BY DEF RunInv
<1>0. /\ pc \in [Updates -> Places] /\ cleared \in [Updates -> BOOLEAN] /\ run \in [Updates -> Nat]
      /\ MaxRuns \in Nat
  BY BoundsAssumption DEF TypeOK
<1>1. CASE UNCHANGED vars
  BY <1>1 DEF RunInv, vars, turnVars, ctxVars
<1>2. CASE Crash \/ \E k \in Keys : DropKey(k)
  BY <1>0, <1>2 DEF RunInv, Crash, DropKey, turnVars, ctxVars
<1>3. ASSUME NEW u \in Updates, Step(u), u # w
      PROVE  UNCHANGED <<run[w], pc[w], steps[w], cleared[w]>>
  BY <1>3, OthersKept, StepsOfOthers
<1>4. CASE Handle(w) \/ RunLLM(w) \/ Return(w) \/ SendReply(w) \/ Expire(w)
  BY <1>0, <1>4 DEF RunInv, Handle, RunLLM, Return, SendReply, Expire, turnVars, ctxVars
<1>5. CASE LoadMemory(w) \/ StartStream(w)
  BY <1>0, <1>5 DEF RunInv, LoadMemory, StartStream, ctxVars
<1>6. CASE StreamError(w) \/ SaveMemory(w) \/ AgentFails(w)
  BY <1>0, <1>6 DEF RunInv, StreamError, SaveMemory, AgentFails, DropMessages, ctxVars
<1>7. CASE StreamEnd(w) \/ TextDelta(w) \/ StopAfterTools(w)
  BY <1>0, <1>7 DEF RunInv, StreamEnd, TextDelta, StopAfterTools, AgentDone, ctxVars
<1>8. CASE FinalText(w) \/ Tool(w)
  <2>1. steps'[w] # <<>>
    BY <1>8, StepsAdded DEF Tool, ClearContext, SendTool, OtherTool
  <2>2. pc[w] = "llm" /\ run' = run /\ pc'[w] \in {"llm", "end", "save"}
    BY <1>0, <1>8 DEF FinalText, Tool, ToolStep, ClearContext, SendTool, OtherTool, AgentDone, MarkContextCleared
  <2>3. run[w] # 0 /\ run[w] \in Nat /\ run[w] <= MaxRuns
    BY <1>0, <2>2 DEF RunInv
  <2> QED BY <2>1, <2>2, <2>3
<1> QED BY <1>1, <1>2, <1>3, <1>4, <1>5, <1>6, <1>7, <1>8 DEF RunInv, Next, Step, Goroutine, Agent

\* A run begins only with its number.
LEMMA RunningBegins ==
  ASSUME TypeOK, [Next]_vars, NEW w \in Updates, run'[w] = run[w], ~Running(w)
  PROVE  ~Running(w)'
<1>0. pc \in [Updates -> Places] /\ run \in [Updates -> Nat]
  BY DEF TypeOK
<1>1. CASE UNCHANGED vars
  BY <1>1 DEF Running, vars
<1>2. CASE Crash \/ \E k \in Keys : DropKey(k)
  BY <1>0, <1>2 DEF Running, InTurn, Crash, DropKey
<1>3. ASSUME NEW u \in Updates, Step(u), u # w PROVE ~Running(w)'
  BY <1>3, OthersKept DEF Running
<1>4. CASE Handle(w) \/ RunLLM(w) \/ Return(w) \/ SendReply(w) \/ Expire(w)
  BY <1>0, <1>4 DEF Running, InTurn, Handle, RunLLM, Return, SendReply, Expire
<1>5. CASE LoadMemory(w) \/ StartStream(w) \/ StreamError(w) \/ StreamEnd(w) \/ SaveMemory(w)
  BY <1>0, <1>5 DEF Running, InTurn, LoadMemory, StartStream, StreamError, StreamEnd, SaveMemory
<1>6. CASE TextDelta(w) \/ Tool(w) \/ FinalText(w) \/ StopAfterTools(w) \/ AgentFails(w)
  BY <1>6 DEF Running, InTurn, TextDelta, Tool, ToolStep, ClearContext, SendTool, OtherTool, FinalText,
              StopAfterTools, AgentFails
<1> QED BY <1>1, <1>2, <1>3, <1>4, <1>5, <1>6 DEF Next, Step, Goroutine, Agent

LEMMA PastStays ==
  ASSUME TypeOK, [Next]_vars
  PROVE  Past \subseteq Past'
<1> SUFFICES ASSUME NEW m \in Message, m \in Past PROVE m \in Past'
  BY DEF Past
<1> DEFINE w == m.turn[1]
<1>1. w \in Updates /\ m.turn[2] \in Nat /\ run[w] \in Nat
  BY DEF Message, TypeOK
<1> HIDE DEF w
<1>2. run'[w] = run[w] \/ run'[w] = run[w] + 1
  BY <1>1, Moves DEF RunMoves
<1>3. m.turn[2] < run[w] \/ (m.turn[2] = run[w] /\ ~Running(w))
  BY DEF Past, w
<1>4. m.turn[2] < run'[w] \/ (m.turn[2] = run'[w] /\ ~Running(w)')
  BY <1>1, <1>2, <1>3, RunningBegins
<1> QED BY <1>4 DEF Past, w

\* What u saves comes from the past and from its own run, which is then over.
LEMMA SavedIsPast ==
  ASSUME UnseenInv, [Next]_vars, NEW u \in Updates, SaveMemory(u)
  PROVE  Updated(u) \in Seq(Past') /\ \A n \in Nat : Summaries(u, n) \in Seq(Past')
<1>1. TypeOK /\ steps[u] \in Seq(Message) /\ Turn(u) = <<u, run[u]>>
  BY DEF UnseenInv, HInv, TypeOK, Turn
<1>2. run' = run /\ ~Running(u)'
  BY <1>1 DEF SaveMemory, Running, InTurn, TypeOK
<1>3. OwnOf(u) \subseteq Past'
  BY <1>1, <1>2 DEF OwnOf, Past
<1>4. Past \cup OwnOf(u) \subseteq Past'
  BY <1>1, <1>3, PastStays
<1>5. history[u] \in Seq(Past')
  <2>1. history[u] \in Seq(Past \cup OwnOf(u))
    BY DEF UnseenInv
  <2> QED BY <1>4, <2>1, SeqWider
<1>6. steps[u] \in Seq(Past')
  <2>1. ASSUME NEW i \in 1 .. Len(steps[u]) PROVE steps[u][i] \in OwnOf(u)
    BY <1>1 DEF UnseenInv, HInv, StepsInv, OwnOf
  <2>2. ASSUME NEW i \in 1 .. Len(steps[u]) PROVE steps[u][i] \in Past'
    BY <1>3, <2>1
  <2> QED BY <1>1, <2>2
<1>7. history[u] \o steps[u] \in Seq(Past')
  BY <1>5, <1>6
<1>8. ASSUME NEW n \in Nat PROVE Summaries(u, n) \in Seq(Past')
  <2>1. /\ Summaries(u, n) \in Seq(Message) /\ Len(Summaries(u, n)) = n
        /\ \A i \in 1 .. n : Summaries(u, n)[i].turn = Turn(u)
    BY <1>1, SummariesType
  <2>2. \A i \in 1 .. n : Summaries(u, n)[i] \in OwnOf(u)
    BY <2>1 DEF OwnOf
  <2>3. \A i \in 1 .. n : Summaries(u, n)[i] \in Past'
    BY <1>3, <2>2
  <2> QED BY <2>1, <2>3
<1> QED BY <1>6, <1>7, <1>8 DEF Updated

LEMMA HistoryUnseen ==
  ASSUME UnseenInv, [Next]_vars, NEW w \in Updates
  PROVE  history'[w] \in Seq((Past \cup OwnOf(w))')
<1> DEFINE S == (Past \cup OwnOf(w))'
<1>1. TypeOK /\ HistoryInv
  BY DEF UnseenInv, HInv
<1>2. Past \subseteq Past' /\ S \in SUBSET Message
  BY <1>1, PastStays DEF Past, OwnOf
<1>3. history[w] \in Seq(S)
  <2>1. CASE run'[w] = run[w]
    <3>1. OwnOf(w)' = OwnOf(w)
      BY <2>1 DEF OwnOf, Turn
    <3>2. history[w] \in Seq(Past \cup OwnOf(w)) /\ Past \cup OwnOf(w) \subseteq S
      BY <1>2, <3>1 DEF UnseenInv
    <3> HIDE DEF S
    <3> QED BY <3>2, SeqWider
  <2>2. CASE run'[w] # run[w]
    <3>1. pc[w] = "handler"
      BY <1>1, <2>2, Moves DEF RunMoves
    <3>2. history[w] = <<>>
      BY <1>1, <3>1 DEF HistoryInv
    <3> QED BY <3>2
  <2> QED BY <2>1, <2>2
<1>4. ASSUME LoadMemory(w)
      PROVE  store[KeyOf[w]] \in Seq(S) /\ {ExtraMessage(w), UserMessage(w)} \subseteq S
  <2>1. store[KeyOf[w]] \in Seq(Past) /\ Past \subseteq S
    BY <1>2 DEF UnseenInv
  <2>2. run' = run
    BY <1>4 DEF LoadMemory
  <2>3. ExtraMessage(w) \in OwnOf(w)' /\ UserMessage(w) \in OwnOf(w)'
    BY <1>1, <2>2, TurnType DEF OwnOf, Turn, ExtraMessage, UserMessage
  <2>4. store[KeyOf[w]] \in Seq(S)
    <3> HIDE DEF S
    <3> QED BY <2>1, SeqWider
  <2> QED BY <2>3, <2>4
<1> HIDE DEF S
<1>5. history'[w] \in Seq(S)
  BY <1>1, <1>2, <1>3, <1>4, HistoryWithin
<1> QED BY <1>5 DEF S

LEMMA UnseenAlways == Spec => []UnseenInv
<1>1. Init /\ HInv => UnseenInv
  BY DEF Init, UnseenInv
<1>2. UnseenInv /\ HInv' /\ [Next]_vars => UnseenInv'
  <2> SUFFICES ASSUME UnseenInv, HInv', [Next]_vars PROVE UnseenInv'
    OBVIOUS
  <2>1. ASSUME NEW k \in Keys PROVE store'[k] \in Seq(Past')
    <3>1. TypeOK /\ Past \subseteq Past' /\ Past' \in SUBSET Message
      BY PastStays DEF UnseenInv, HInv, Past
    <3>2. store[k] \in Seq(Past')
      <4>1. store[k] \in Seq(Past)
        BY DEF UnseenInv
      <4> QED BY <3>1, <4>1, SeqWider
    <3>3. \A u \in Updates :
             SaveMemory(u) => Updated(u) \in Seq(Past') /\ \A n \in Nat : Summaries(u, n) \in Seq(Past')
      BY SavedIsPast
    <3> QED BY <3>1, <3>2, <3>3, StoreWithin
  <2>2. ASSUME NEW u \in Updates PROVE history'[u] \in Seq((Past \cup OwnOf(u))')
    BY HistoryUnseen
  <2> QED BY <2>1, <2>2 DEF UnseenInv
<1> QED BY <1>1, <1>2, HInvAlways, PTL DEF Spec

\* The last message of s, if there is one, is not in h.
Newer(s, h) == s # <<>> => \A i \in 1 .. Len(h) : h[i] # s[Len(s)]

\* Once the first run of a handler has cleared its history, what is stored is
\* nothing or was saved after that.
ForgetInv ==
    /\ UnseenInv /\ RunInv
    /\ \A u \in Updates : run[u] = 1 /\ cleared[u] /\ pc[u] \in InTurn =>
                              Newer(store[KeyOf[u]], history[u])

LEMMA LastOfConcat ==
  ASSUME NEW s \in Seq(Message), NEW t \in Seq(Message), t # <<>>
  PROVE  /\ s \o t \in Seq(Message) /\ s \o t # <<>>
         /\ (s \o t)[Len(s \o t)] = t[Len(t)]
<1>1. Len(s) \in Nat /\ Len(t) \in Nat /\ Len(t) > 0
  OBVIOUS
<1>2. s \o t \in Seq(Message) /\ Len(s \o t) = Len(s) + Len(t)
  OBVIOUS
<1>3. Len(s \o t) \in 1 .. Len(s \o t) /\ Len(s \o t) > Len(s) /\ Len(s \o t) - Len(s) = Len(t)
  BY <1>1, <1>2
<1> QED BY <1>2, <1>3, ConcatElement

\* The end of a sequence ends like it.
LEMMA LastOfEnd ==
  ASSUME NEW s \in Seq(Message), NEW t \in Seq(Message), EndOf(t, s), t # <<>>
  PROVE  s # <<>> /\ t[Len(t)] = s[Len(s)]
<1>1. PICK d \in Nat :
         /\ Len(t) = Len(s) - d
         /\ \A i \in 1 .. Len(s) - d : i + d \in 1 .. Len(s) /\ t[i] = s[i + d]
  BY DEF EndOf
<1>2. Len(s) \in Nat /\ Len(t) \in Nat /\ Len(t) > 0
  OBVIOUS
<1>3. Len(s) - d \in 1 .. Len(s) - d /\ (Len(s) - d) + d = Len(s)
  BY <1>1, <1>2
<1>4. t[Len(s) - d] = s[(Len(s) - d) + d]
  BY <1>1, <1>3
<1> QED BY <1>1, <1>2, <1>3, <1>4

\* What a save stores ends with a message of its run.
LEMMA SavedEndsOwn ==
  ASSUME UnseenInv, RunInv, NEW w \in Updates, pc[w] = "save", NEW s \in Kept(w, Updated(w)), s # <<>>
  PROVE  s[Len(s)] \in OwnOf(w)
<1>1. TypeOK /\ steps[w] \in Seq(Message) /\ history[w] \in Seq(Message) /\ steps[w] # <<>>
  BY DEF UnseenInv, HInv, TypeOK, RunInv
<1>2. /\ Updated(w) \in Seq(Message) /\ Updated(w) # <<>>
      /\ Updated(w)[Len(Updated(w))] \in OwnOf(w)
  <2>1. steps[w][Len(steps[w])] \in OwnOf(w)
    <3>1. Len(steps[w]) \in 1 .. Len(steps[w])
      BY <1>1
    <3> QED BY <1>1, <3>1 DEF UnseenInv, HInv, StepsInv, OwnOf
  <2>2. CASE cleared[w]
    BY <1>1, <2>1, <2>2 DEF Updated
  <2>3. CASE ~cleared[w]
    BY <1>1, <2>1, <2>3, LastOfConcat DEF Updated
  <2> QED BY <2>2, <2>3
<1>3. ASSUME NEW t \in Seq(Message), t # <<>> => t[Len(t)] \in OwnOf(w), s = KeepLast(t)
      PROVE  s[Len(s)] \in OwnOf(w)
  BY <1>3, KeepLastType, KeepLastSuffix, LastOfEnd
<1>4. ASSUME NEW n \in Nat, NEW cut \in 0 .. Len(Updated(w))
      PROVE  LET c == Condensed(w, n, Updated(w), cut)
             IN  c \in Seq(Message) /\ (c # <<>> => c[Len(c)] \in OwnOf(w))
  <2> DEFINE r == Summaries(w, n)
             t == SubSeq(Updated(w), cut + 1, Len(Updated(w)))
  <2>1. /\ r \in Seq(Message) /\ Len(r) = n
        /\ \A i \in 1 .. n : r[i].turn = Turn(w)
    BY <1>1, SummariesType
  <2>2. t \in Seq(Message) /\ EndOf(t, Updated(w))
    BY <1>2, SubSeqSuffix
  <2> HIDE DEF r, t
  <2>3. CASE t # <<>>
    <3>1. t[Len(t)] \in OwnOf(w)
      BY <1>2, <2>2, <2>3, LastOfEnd
    <3> QED BY <2>1, <2>2, <2>3, <3>1, LastOfConcat DEF Condensed, r, t
  <2>4. CASE t = <<>>
    <3>1. r \o t = r
      BY <2>1, <2>4
    <3>2. ASSUME r # <<>> PROVE r[Len(r)] \in OwnOf(w)
      <4>1. Len(r) \in 1 .. n
        BY <2>1, <3>2
      <4>2. r[Len(r)] \in Message /\ r[Len(r)].turn = Turn(w)
        BY <2>1, <4>1
      <4> QED BY <4>2 DEF OwnOf
    <3> QED BY <2>1, <3>1, <3>2 DEF Condensed, r, t
  <2> QED BY <2>3, <2>4
<1>5. ASSUME NEW n \in 0 .. MaxMsgs, NEW cut \in 0 .. Len(Updated(w)),
             s = KeepLast(Condensed(w, n, Updated(w), cut))
      PROVE  s[Len(s)] \in OwnOf(w)
  <2>1. n \in Nat
    OBVIOUS
  <2> QED BY <1>3, <1>4, <1>5, <2>1
<1> QED BY <1>2, <1>3, <1>5, KeptForms

\* Another run's save leaves nothing that u has read at the end.
LEMMA OthersSaveNewer ==
  ASSUME UnseenInv, RunInv, NEW u \in Updates, NEW w \in Updates, w # u, pc[w] = "save",
         NEW s \in Kept(w, Updated(w))
  PROVE  Newer(s, history[u])
<1> SUFFICES ASSUME s # <<>>, NEW i \in 1 .. Len(history[u]) PROVE history[u][i] # s[Len(s)]
  BY DEF Newer
<1>1. s[Len(s)] \in OwnOf(w)
  BY SavedEndsOwn
<1>2. run[w] \in Nat /\ Running(w)
  BY DEF UnseenInv, HInv, TypeOK, Running, InTurn
<1>3. s[Len(s)] \notin Past /\ s[Len(s)] \notin OwnOf(u)
  BY <1>1, <1>2 DEF OwnOf, Past, Turn
<1>4. history[u][i] \in Past \cup OwnOf(u)
  <2>1. history[u] \in Seq(Past \cup OwnOf(u))
    BY DEF UnseenInv
  <2> QED BY <2>1
<1> QED BY <1>3, <1>4

LEMMA ForgetInvAlways == Spec => []ForgetInv
<1>1. Init /\ UnseenInv => ForgetInv
  BY BoundsAssumption DEF Init, ForgetInv, RunInv, InTurn
<1>2. ForgetInv /\ UnseenInv' /\ [Next]_vars => ForgetInv'
  <2> SUFFICES ASSUME ForgetInv, UnseenInv', [Next]_vars PROVE ForgetInv'
    OBVIOUS
  <2>1. TypeOK /\ RunInv /\ UnseenInv
    BY DEF ForgetInv, UnseenInv, HInv
  <2>2. RunInv'
    BY <2>1, RunInvNext
  <2>3. ASSUME NEW u \in Updates, run'[u] = 1, cleared'[u], pc'[u] \in InTurn
        PROVE  Newer(store'[KeyOf[u]], history'[u])
    <3>0. ASSUME history'[u] = <<>> \/ store'[KeyOf[u]] = <<>>
          PROVE  Newer(store'[KeyOf[u]], history'[u])
      BY <3>0 DEF Newer
    <3>1. CASE UNCHANGED vars
      BY <2>3, <3>1 DEF ForgetInv, vars, turnVars, ctxVars
    <3>2. CASE Crash
      BY <2>1, <2>3, <3>2 DEF Crash, Active, Idle, InTurn, TypeOK
    <3>3. ASSUME NEW k \in Keys, DropKey(k) PROVE Newer(store'[KeyOf[u]], history'[u])
      <4>1. store'[KeyOf[u]] = <<>> \/ UNCHANGED store[KeyOf[u]]
        BY <2>1, <3>3 DEF DropKey, TypeOK
      <4> QED BY <2>3, <3>0, <3>3, <4>1 DEF ForgetInv, DropKey, turnVars, ctxVars
    <3>4. ASSUME NEW w \in Updates, Step(w), w # u PROVE Newer(store'[KeyOf[u]], history'[u])
      <4>1. /\ run[u] = 1 /\ cleared[u] /\ pc[u] \in InTurn /\ history'[u] = history[u]
            /\ Newer(store[KeyOf[u]], history[u])
        BY <2>1, <2>3, <3>4, OthersKept DEF ForgetInv
      <4>2. StoreMoves(KeyOf[u])
        BY <2>1, StoreMove
      <4>3. ASSUME NEW x \in Updates, SaveMemory(x), store'[KeyOf[u]] \in Kept(x, Updated(x))
            PROVE  Newer(store'[KeyOf[u]], history'[u])
        <5>1. x # u
          BY <2>1, <2>3, <4>3 DEF SaveMemory, InTurn, TypeOK
        <5>2. pc[x] = "save"
          BY <4>3 DEF SaveMemory
        <5> QED BY <2>1, <4>1, <4>3, <5>1, <5>2, OthersSaveNewer
      <4> QED BY <3>0, <4>1, <4>2, <4>3 DEF StoreMoves
    <3>5. CASE Step(u)
      <4>1. ~LoadMemory(u) /\ ~RunLLM(u) /\ ~SaveMemory(u)
        <5>1. ~(RunLLM(u) \/ SaveMemory(u))
          BY <2>1, <2>3 DEF RunLLM, SaveMemory, InTurn, TypeOK
        <5>2. ASSUME LoadMemory(u) PROVE FALSE
          <6>1. run[u] = 1 /\ cleared[u] /\ pc[u] = "load"
            BY <2>3, <5>2 DEF LoadMemory, ctxVars
          <6> QED BY <2>1, <6>1 DEF RunInv
        <5> QED BY <5>1, <5>2
      <4>2. history'[u] = history[u] \/ history'[u] = <<>>
        BY <2>1, <4>1, Moves DEF HistoryMoves
      <4>3. CASE ClearContext(u) /\ ~UNCHANGED cleared
        BY <2>1, <3>0, <4>3 DEF ClearContext, ClearKey, MarkContextCleared, TypeOK
      <4>4. CASE ClearContext(u) /\ UNCHANGED cleared
        <5>1. store'[KeyOf[u]] = <<>> \/ UNCHANGED store
          BY <2>1, <4>4 DEF ClearContext, ClearKey, TypeOK
        <5>2. pc[u] \in InTurn /\ run[u] = 1 /\ cleared[u]
          BY <2>3, <4>4 DEF ClearContext, ToolStep, InTurn
        <5> QED BY <3>0, <4>2, <5>1, <5>2 DEF ForgetInv
      <4>5. CASE ~ClearContext(u)
        <5>1. UNCHANGED store
          BY <3>5, <4>1, <4>5 DEF Step, Goroutine, Agent, Tool, Handle, Return, StartStream,
             StreamError, StreamEnd, SendReply, TextDelta, SendTool, OtherTool, FinalText,
             StopAfterTools, AgentFails, Expire
        <5>2. pc[u] \in InTurn
          BY <2>1, <2>3, <3>5, <4>1, <4>5 DEF Step, Goroutine, Agent, Tool, Handle, Return, StartStream,
             StreamError, StreamEnd, SendReply, TextDelta, SendTool, OtherTool, FinalText,
             StopAfterTools, AgentFails, Expire, ToolStep, InTurn, TypeOK
        <5>3. run[u] = 1
          BY <2>1, <2>3, <5>2, Moves DEF RunMoves, InTurn
        <5>4. cleared[u]
          BY <2>1, <2>3, <3>5, <4>1, <4>5 DEF Step, Goroutine, Agent, Tool, Handle, Return, StartStream,
             StreamError, StreamEnd, SendReply, TextDelta, SendTool, OtherTool, FinalText,
             StopAfterTools, AgentFails, Expire, ctxVars, TypeOK
        <5> QED BY <3>0, <4>2, <5>1, <5>2, <5>3, <5>4 DEF ForgetInv
      <4> QED BY <4>3, <4>4, <4>5
    <3> QED BY <3>1, <3>2, <3>3, <3>4, <3>5 DEF Next, Step
  <2> QED BY <2>2, <2>3 DEF ForgetInv
<1> QED BY <1>1, <1>2, UnseenAlways, PTL DEF Spec

\* The first run of a handler has cleared nothing that is the latest.
LEMMA FirstSaveKeeps ==
  ASSUME ForgetInv, [Next]_vars, NEW u \in Updates, Saves(u), ~cleared[u] \/ (run[u] = 1 /\ Latest(u))
  PROVE  Keeps(u)
<1>1. HInv /\ TypeOK /\ pc[u] \in InTurn
  BY DEF ForgetInv, UnseenInv, HInv, Saves, InTurn
<1>2. CASE ~cleared[u]
  BY <1>1, <1>2, SaveKeeps
<1>3. CASE cleared[u]
  <2>1. Newer(store[KeyOf[u]], history[u]) /\ Latest(u)
    BY <1>1, <1>3 DEF ForgetInv
  <2> QED BY <2>1 DEF Newer, Latest, Holds
<1> QED BY <1>2, <1>3

(* A save that was not told to forget loses nothing its run had loaded and *)
(* that is still remembered, but for what the limit or the summarizer      *)
(* takes; and the first run of a handler is told to forget only what is    *)
(* gone already, for any number of handlers, with any failures of Clear    *)
(* and Save (saveMemory, clear_context).                                   *)
THEOREM SavesKeepHistory == Spec => SaveKeepsHistory
<1>1. ForgetInv /\ [Next]_vars =>
        [\A u \in Updates : Saves(u) /\ (~cleared[u] \/ (run[u] = 1 /\ Latest(u))) => Keeps(u)]_vars
  BY FirstSaveKeeps
<1> QED BY <1>1, ForgetInvAlways, PTL DEF Spec, SaveKeepsHistory

(* So a clear forgets once, as saveMemory's comment has it, if no handler  *)
(* runs the LLM a second time: the flag that outlives the run is the only  *)
(* thing in the way.                                                       *)
THEOREM ClearsForgetOnceInOneRun == MaxRuns <= 1 => (Spec => ClearForgetsOnce)
<1> SUFFICES ASSUME MaxRuns <= 1 PROVE Spec => ClearForgetsOnce
  OBVIOUS
<1>1. ASSUME ForgetInv, [Next]_vars, NEW u \in Updates, Saves(u), ~cleared[u] \/ Latest(u)
      PROVE  Keeps(u)
  <2>1. run[u] \in Nat /\ RunInv
    BY <1>1 DEF ForgetInv, UnseenInv, HInv, TypeOK
  <2>2. run[u] <= MaxRuns /\ run[u] # 0
    BY <1>1, <2>1 DEF RunInv, Saves
  <2>3. run[u] = 1
    <3>1. MaxRuns \in Nat
      BY BoundsAssumption
    <3> QED BY <2>1, <2>2, <3>1
  <2> QED BY <1>1, <2>3, FirstSaveKeeps
<1>2. ForgetInv /\ [Next]_vars =>
        [\A u \in Updates : Saves(u) /\ (~cleared[u] \/ Latest(u)) => Keeps(u)]_vars
  BY <1>1
<1> QED BY <1>2, ForgetInvAlways, PTL DEF Spec, ClearForgetsOnce
=============================================================================
