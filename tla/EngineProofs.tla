---------------------------- MODULE EngineProofs ----------------------------
(* Proofs about Engine, for any number of handlers and any bounds. *)
EXTENDS Engine, TLAPS

USE UpdatesAssumption, MemoryAssumption, CallAssumption

-----------------------------------------------------------------------------
(* Messages and sequences of messages. *)

LEMMA TurnType ==
  ASSUME TypeOK, NEW u \in Updates
  PROVE  /\ ExtraMessage(u) \in Message /\ UserMessage(u) \in Message
         /\ \A n \in Int, k \in Kinds : StepMessage(u, n, k) \in Message
BY DEF TypeOK, Message, Kinds, Turn, ExtraMessage, UserMessage, StepMessage

\* The messages of a summarizer are of the turn that saves, in front of its own.
LEMMA SummariesType ==
  ASSUME TypeOK, NEW u \in Updates, NEW n \in Nat
  PROVE  /\ Summaries(u, n) \in Seq(Message) /\ Len(Summaries(u, n)) = n
         /\ \A i \in 1 .. n : /\ Summaries(u, n)[i].turn = Turn(u)
                              /\ Summaries(u, n)[i].idx = i - n - 2
                              /\ Summaries(u, n)[i].kind = "summary"
<1>1. Turn(u) \in Updates \X Nat
  BY DEF TypeOK, Turn
<1>2. ASSUME NEW i \in 1 .. n
      PROVE  [turn |-> Turn(u), idx |-> i - n - 2, kind |-> "summary"] \in Message
  BY <1>1 DEF Message, Kinds
<1> QED BY <1>2 DEF Summaries

LEMMA KeepLastType ==
  ASSUME NEW s \in Seq(Message)
  PROVE  KeepLast(s) \in Seq(Message)
BY DEF KeepLast

LEMMA UpdatedType ==
  ASSUME TypeOK, NEW u \in Updates
  PROVE  Updated(u) \in Seq(Message)
BY DEF TypeOK, Updated

\* What follows the summaries when the summarizer leaves the first of msgs out.
Condensed(u, n, msgs, cut) == Summaries(u, n) \o SubSeq(msgs, cut + 1, Len(msgs))

\* What a save stores is the end of what it was given, or of what the
\* summarizer made of it.
LEMMA KeptForms ==
  ASSUME NEW u, NEW msgs, NEW s \in Kept(u, msgs)
  PROVE  \/ s = KeepLast(msgs)
         \/ /\ Summarizes /\ MaxMsgs > 0 /\ Len(msgs) > MaxMsgs
            /\ \E n \in 0 .. MaxMsgs, cut \in 0 .. Len(msgs) : s = KeepLast(Condensed(u, n, msgs, cut))
<1> SUFFICES ASSUME s # KeepLast(msgs)
             PROVE  /\ Summarizes /\ MaxMsgs > 0 /\ Len(msgs) > MaxMsgs
                    /\ \E n \in 0 .. MaxMsgs, cut \in 0 .. Len(msgs) :
                          s = KeepLast(Condensed(u, n, msgs, cut))
  OBVIOUS
<1>1. Summarizes /\ MaxMsgs > 0 /\ Len(msgs) > MaxMsgs
  BY DEF Kept
<1>2. PICK made \in Summarized(u, msgs) : s = KeepLast(made)
  BY <1>1 DEF Kept
<1>3. PICK n \in 0 .. MaxMsgs, cut \in 0 .. Len(msgs) : made = Condensed(u, n, msgs, cut)
  BY DEF Summarized, Condensed
<1> QED BY <1>1, <1>2, <1>3

LEMMA CondensedType ==
  ASSUME TypeOK, NEW u \in Updates, NEW n \in Nat, NEW msgs \in Seq(Message),
         NEW cut \in 0 .. Len(msgs)
  PROVE  Condensed(u, n, msgs, cut) \in Seq(Message)
<1>1. SubSeq(msgs, cut + 1, Len(msgs)) \in Seq(Message)
  OBVIOUS
<1>2. Summaries(u, n) \in Seq(Message)
  BY SummariesType
<1> QED BY <1>1, <1>2 DEF Condensed

LEMMA KeptType ==
  ASSUME TypeOK, NEW u \in Updates, NEW s \in Kept(u, Updated(u))
  PROVE  s \in Seq(Message)
<1>1. Updated(u) \in Seq(Message)
  BY UpdatedType
<1>2. KeepLast(Updated(u)) \in Seq(Message)
  BY <1>1, KeepLastType
<1>3. ASSUME NEW n \in 0 .. MaxMsgs, NEW cut \in 0 .. Len(Updated(u))
      PROVE  KeepLast(Condensed(u, n, Updated(u), cut)) \in Seq(Message)
  <2>1. n \in Nat
    BY MemoryAssumption
  <2> QED BY <1>1, <2>1, CondensedType, KeepLastType
<1> QED BY <1>2, <1>3, KeptForms

-----------------------------------------------------------------------------
(* Type correctness. *)

LEMMA TypeInit == Init => TypeOK
BY DEF Init, TypeOK, PlacesFit, Places, Idle, StreamRecord, NoStream

LEMMA TypeHandler ==
  ASSUME TypeOK, PlacesFit', NEW u \in Updates, Handle(u) \/ RunLLM(u) \/ Return(u)
  PROVE  TypeOK'
<1>1. CASE Handle(u)
  BY <1>1 DEF TypeOK, Places, Idle, Handle, turnVars
<1>2. CASE RunLLM(u)
  <2>1. stream' \in [Updates -> StreamRecord]
    BY <1>2 DEF RunLLM, TypeOK, StreamRecord, NoStream
  <2> QED BY <1>2, <2>1 DEF TypeOK, Places, Idle, RunLLM, ChooseMode, ctxVars
<1>3. CASE Return(u)
  BY <1>3 DEF TypeOK, Places, Idle, Return, turnVars, ctxVars
<1> QED BY <1>1, <1>2, <1>3

LEMMA TypeLoad ==
  ASSUME TypeOK, PlacesFit', NEW u \in Updates, LoadMemory(u)
  PROVE  TypeOK'
<1>1. store[KeyOf[u]] \in Seq(Message) /\ <<>> \in Seq(Message)
  BY DEF TypeOK
<1>2. PICK loaded \in Seq(Message), e \in {<<>>, <<ExtraMessage(u)>>}, m \in {<<>>, <<UserMessage(u)>>} :
        history' = [history EXCEPT ![u] = loaded \o e \o m]
  BY <1>1 DEF LoadMemory, Loaded, MemKey, StreamKey, CallKey
<1>3. e \in Seq(Message) /\ m \in Seq(Message)
  <2>1. ExtraMessage(u) \in Message /\ UserMessage(u) \in Message
    BY TurnType
  <2>2. <<ExtraMessage(u)>> \in Seq(Message) /\ <<UserMessage(u)>> \in Seq(Message)
    BY <2>1
  <2> QED BY <1>1, <2>2
<1>4. history' \in [Updates -> Seq(Message)]
  BY <1>2, <1>3 DEF TypeOK
<1> QED BY <1>4 DEF TypeOK, Places, Idle, LoadMemory, ctxVars

LEMMA StreamType ==
  ASSUME TypeOK, NEW u \in Updates, NEW r \in StreamRecord
  PROVE  [stream EXCEPT ![u] = r] \in [Updates -> StreamRecord]
BY DEF TypeOK

LEMMA StreamStatus ==
  ASSUME TypeOK, NEW u \in Updates, NEW s \in {"none", "open", "ended", "errored"}
  PROVE  [stream EXCEPT ![u].status = s] \in [Updates -> StreamRecord]
<1>1. stream[u] \in StreamRecord
  BY DEF TypeOK
<1>2. [stream[u] EXCEPT !.status = s] \in StreamRecord
  BY <1>1 DEF StreamRecord
<1> QED BY <1>2, StreamType

LEMMA TypeStream ==
  ASSUME TypeOK, PlacesFit', NEW u \in Updates, StartStream(u) \/ StreamError(u) \/ StreamEnd(u)
  PROVE  TypeOK'
<1>1. CASE StartStream(u)
  <2>1. PICK s \in {"none", "open", "ended", "errored"} :
          stream' = [stream EXCEPT ![u].status = s]
    BY <1>1 DEF StartStream
  <2>2. stream' \in [Updates -> StreamRecord]
    BY <2>1, StreamStatus
  <2>3. mode' \in [Updates -> {"generate", "stream"}]
    <3>1. CASE UNCHANGED mode
      BY <3>1 DEF TypeOK
    <3>2. CASE mode' = [mode EXCEPT ![u] = "generate"]
      BY <3>2 DEF TypeOK
    <3> QED BY <1>1, <3>1, <3>2 DEF StartStream
  <2>4. pc' \in [Updates -> Places]
    <3>1. PICK p \in {"llm", "load"} : pc' = [pc EXCEPT ![u] = p]
      BY <1>1 DEF StartStream
    <3> QED BY <3>1 DEF TypeOK, Places
  <2> QED BY <1>1, <2>2, <2>3, <2>4 DEF TypeOK, StartStream, ctxVars
<1>2. CASE StreamError(u)
  <2>1. stream' \in [Updates -> StreamRecord]
    <3>1. CASE UNCHANGED stream
      BY <3>1 DEF TypeOK
    <3>2. CASE stream' = [stream EXCEPT ![u].status = "errored"]
      BY <3>2, StreamStatus
    <3> QED BY <1>2, <3>1, <3>2 DEF StreamError
  <2>2. pc' = [pc EXCEPT ![u] = "handler"] /\ DropMessages(u)
    BY <1>2 DEF StreamError
  <2>3. UNCHANGED <<store, mode, run, cleared, expired, crashes>>
    BY <1>2 DEF StreamError, ctxVars
  <2> QED BY <2>1, <2>2, <2>3 DEF TypeOK, Places, Idle, DropMessages
<1>3. CASE StreamEnd(u)
  <2>1. EndedWith(stream[u], stream[u].text) \in StreamRecord
    BY DEF TypeOK, StreamRecord, EndedWith
  <2>2. stream' \in [Updates -> StreamRecord]
    BY <1>3, <2>1, StreamType DEF StreamEnd, TypeOK
  <2> QED BY <1>3, <2>2 DEF TypeOK, Places, Idle, StreamEnd, ctxVars
<1> QED BY <1>1, <1>2, <1>3

LEMMA TypeDelta ==
  ASSUME TypeOK, PlacesFit', NEW u \in Updates, TextDelta(u)
  PROVE  TypeOK'
<1>1. ASSUME NEW a \in BOOLEAN PROVE Pushed(stream[u], a) \in StreamRecord
  BY DEF TypeOK, StreamRecord, Pushed
<1>2. stream' \in [Updates -> StreamRecord]
  BY <1>1, StreamType DEF TextDelta
<1> QED BY <1>2 DEF TypeOK, Places, Idle, TextDelta, ctxVars

LEMMA StoreType ==
  ASSUME TypeOK, NEW u \in Updates, NEW s \in Seq(Message)
  PROVE  [store EXCEPT ![MemKey(u)] = s] \in [Keys -> Seq(Message)]
BY DEF TypeOK, MemKey, StreamKey, CallKey

LEMMA ClearType ==
  ASSUME TypeOK, NEW u \in Updates, NEW s \in Seq(Message)
  PROVE  [store EXCEPT ![ClearKey(u)] = s] \in [Keys -> Seq(Message)]
BY DEF TypeOK, ClearKey

LEMMA TypeSteps ==
  ASSUME TypeOK, PlacesFit', NEW u \in Updates, Tool(u) \/ FinalText(u) \/ StopAfterTools(u) \/ AgentFails(u)
  PROVE  TypeOK'
<1>1. Len(steps[u]) \in Nat
  BY DEF TypeOK
<1>2. ToolStep(u) => steps' \in [Updates -> Seq(Message)]
  <2>1. /\ StepMessage(u, Len(steps[u]) + 1, "call") \in Message
        /\ StepMessage(u, Len(steps[u]) + 2, "result") \in Message
    BY <1>1, TurnType DEF Kinds
  <2> QED BY <2>1 DEF ToolStep, TypeOK
<1>3. CASE ClearContext(u)
  <2>1. cleared' \in [Updates -> BOOLEAN]
    BY <1>3 DEF ClearContext, MarkContextCleared, TypeOK
  <2>2. store' \in [Keys -> Seq(Message)]
    <3>1. <<>> \in Seq(Message)
      OBVIOUS
    <3>2. \/ store' = store
          \/ store' = [store EXCEPT ![ClearKey(u)] = <<>>]
      BY <1>3 DEF ClearContext
    <3> QED BY <3>1, <3>2, ClearType DEF TypeOK
  <2> QED BY <1>2, <1>3, <2>1, <2>2 DEF TypeOK, ClearContext, ToolStep
<1>4. CASE SendTool(u)
  <2>1. pc' \in [Updates -> Places]
    BY <1>4 DEF SendTool, AgentDone, TypeOK, Places
  <2> QED BY <1>2, <1>4, <2>1 DEF TypeOK, SendTool, ToolStep, ctxVars
<1>5. CASE OtherTool(u)
  BY <1>2, <1>5 DEF TypeOK, OtherTool, ToolStep, ctxVars
<1>6. CASE FinalText(u)
  <2>1. StepMessage(u, Len(steps[u]) + 1, "text") \in Message
    BY <1>1, TurnType DEF Kinds
  <2>2. steps' \in [Updates -> Seq(Message)]
    BY <2>1, <1>6 DEF FinalText, TypeOK
  <2> QED BY <2>2, <1>6 DEF TypeOK, Places, Idle, FinalText, AgentDone, ctxVars
<1>7. CASE StopAfterTools(u)
  BY <1>7 DEF TypeOK, Places, Idle, StopAfterTools, AgentDone, ctxVars
<1>8. CASE AgentFails(u)
  BY <1>8 DEF TypeOK, Places, Idle, AgentFails, DropMessages, ctxVars
<1> QED BY <1>3, <1>4, <1>5, <1>6, <1>7, <1>8 DEF Tool

LEMMA TypeSave ==
  ASSUME TypeOK, PlacesFit', NEW u \in Updates, SaveMemory(u) \/ SendReply(u) \/ Expire(u)
  PROVE  TypeOK'
<1>1. CASE SaveMemory(u)
  <2>1. store' \in [Keys -> Seq(Message)]
    <3>1. CASE UNCHANGED store
      BY <3>1 DEF TypeOK
    <3>2. CASE \E kept \in Kept(u, Updated(u)) : store' = [store EXCEPT ![MemKey(u)] = kept]
      BY <3>2, KeptType, StoreType
    <3> QED BY <1>1, <3>1, <3>2 DEF SaveMemory
  <2> QED BY <1>1, <2>1 DEF TypeOK, Places, Idle, SaveMemory, DropMessages, ctxVars
<1>2. CASE SendReply(u)
  BY <1>2 DEF TypeOK, Places, Idle, SendReply, turnVars, ctxVars
<1>3. CASE Expire(u)
  BY <1>3 DEF TypeOK, Places, Idle, Expire, turnVars
<1> QED BY <1>1, <1>2, <1>3

LEMMA TypeEnvironment ==
  ASSUME TypeOK, PlacesFit', Crash \/ \E k \in Keys : DropKey(k)
  PROVE  TypeOK'
<1>1. CASE Crash
  <2>1. store' \in [Keys -> Seq(Message)]
    BY <1>1 DEF Crash, TypeOK
  <2>2. pc' \in [Updates -> Places] /\ crashes' \in Nat
    BY <1>1 DEF Crash, TypeOK, Places, Idle
  <2> QED BY <1>1, <2>1, <2>2 DEF TypeOK, Crash, turnVars, ctxVars
<1>2. ASSUME NEW k \in Keys, DropKey(k) PROVE TypeOK'
  BY <1>2 DEF TypeOK, DropKey, turnVars, ctxVars
<1> QED BY <1>1, <1>2

\* u goes from its place to p in mode m, and nobody else moves.
MovesTo(u, p, m) == pc' = [pc EXCEPT ![u] = p] /\ mode' = [mode EXCEPT ![u] = m]

LEMMA PlaceKept ==
  ASSUME TypeOK, NEW u \in Updates, NEW p, NEW m \in {"generate", "stream"}, MovesTo(u, p, m),
         p \in {"start", "end", "error"} => m = "stream", p = "send" => m = "generate"
  PROVE  PlacesFit'
BY DEF TypeOK, PlacesFit, MovesTo

\* A goroutine ends or fails a stream only if it has begun one, and sends a
\* reply of its own only if it has not.
LEMMA PlacesKept ==
  ASSUME TypeOK, [Next]_vars
  PROVE  PlacesFit'
<1>1. CASE UNCHANGED <<pc, mode>>
  BY <1>1 DEF TypeOK, PlacesFit
<1>2. ASSUME NEW u \in Updates, Handle(u) \/ RunLLM(u) \/ Return(u) \/ SendReply(u)
      PROVE  PlacesFit'
  <2>1. PICK p \in {"handler", "load", "done"}, m \in {"generate", "stream"} : MovesTo(u, p, m)
    BY <1>2, CallAssumption DEF Handle, RunLLM, ChooseMode, Return, SendReply, TypeOK, MovesTo, turnVars
  <2> QED BY <2>1, PlaceKept
<1>3. ASSUME NEW u \in Updates, LoadMemory(u) \/ SaveMemory(u) PROVE PlacesFit'
  <2>1. mode[u] \in {"generate", "stream"}
    BY DEF TypeOK
  <2>2. \/ MovesTo(u, IF mode[u] = "stream" THEN "start" ELSE "llm", mode[u])
        \/ MovesTo(u, IF mode[u] = "stream" THEN "handler" ELSE "send", mode[u])
    BY <1>3, <2>1 DEF LoadMemory, SaveMemory, TypeOK, MovesTo
  <2> QED BY <2>1, <2>2, PlaceKept
<1>4. ASSUME NEW u \in Updates, StartStream(u) PROVE PlacesFit'
  <2>1. MovesTo(u, "llm", mode[u]) \/ MovesTo(u, "load", "generate")
    BY <1>4 DEF StartStream, TypeOK, MovesTo
  <2> QED BY <2>1, PlaceKept DEF TypeOK
<1>5. ASSUME NEW u \in Updates, TextDelta(u) \/ StreamError(u) \/ StreamEnd(u) PROVE PlacesFit'
  <2>1. mode[u] \in {"generate", "stream"} /\ (pc[u] # "llm" => mode[u] = "stream")
    BY <1>5 DEF TypeOK, PlacesFit, TextDelta, StreamError, StreamEnd
  <2>2. TextDelta(u) => mode[u] = "stream"
    BY DEF TextDelta
  <2>3. PICK p \in {"llm", "error", "handler", "save"} : MovesTo(u, p, mode[u])
    BY <1>5 DEF TextDelta, StreamError, StreamEnd, TypeOK, MovesTo
  <2>4. mode[u] = "stream"
    BY <1>5, <2>1, <2>2 DEF StreamError, StreamEnd
  <2> QED BY <2>3, <2>4, PlaceKept
<1>6. ASSUME NEW u \in Updates, Tool(u) \/ FinalText(u) \/ StopAfterTools(u) \/ AgentFails(u)
      PROVE  PlacesFit'
  <2>1. mode[u] \in {"generate", "stream"}
    BY DEF TypeOK
  <2>2. \/ UNCHANGED <<pc, mode>>
        \/ MovesTo(u, IF mode[u] = "stream" THEN "end" ELSE "save", mode[u])
        \/ MovesTo(u, IF mode[u] = "stream" THEN "error" ELSE "handler", mode[u])
    BY <1>6, <2>1 DEF Tool, ClearContext, SendTool, OtherTool, FinalText, StopAfterTools,
                      AgentFails, AgentDone, TypeOK, MovesTo
  <2> QED BY <1>1, <2>1, <2>2, PlaceKept
<1>7. CASE Crash
  BY <1>7 DEF Crash, TypeOK, PlacesFit, turnVars
<1>8. ASSUME NEW u \in Updates, Expire(u) PROVE PlacesFit'
  BY <1>1, <1>8 DEF Expire, turnVars
<1>9. ASSUME NEW k \in Keys, DropKey(k) PROVE PlacesFit'
  BY <1>1, <1>9 DEF DropKey, turnVars
<1> QED BY <1>1, <1>2, <1>3, <1>4, <1>5, <1>6, <1>7, <1>8, <1>9
        DEF Next, Goroutine, Agent, vars, turnVars

LEMMA TypeNext == TypeOK /\ [Next]_vars => TypeOK'
<1> SUFFICES ASSUME TypeOK, [Next]_vars PROVE TypeOK'
  OBVIOUS
<1>0. PlacesFit'
  BY PlacesKept
<1>1. CASE UNCHANGED vars
  BY <1>0, <1>1 DEF TypeOK, vars, turnVars, ctxVars
<1>2. ASSUME NEW u \in Updates, Handle(u) \/ Goroutine(u) \/ Agent(u) \/ Expire(u) PROVE TypeOK'
  BY <1>0, <1>2, TypeHandler, TypeLoad, TypeStream, TypeDelta, TypeSteps, TypeSave
     DEF Goroutine, Agent
<1> QED BY <1>0, <1>1, <1>2, TypeEnvironment DEF Next

(* Every variable of the engine keeps its type, and a goroutine is where    *)
(* its mode takes it: RunLLM ends no stream it has not begun.              *)
THEOREM TypeCorrect == Spec => []TypeOK
BY TypeInit, TypeNext, PTL DEF Spec

-----------------------------------------------------------------------------
(* Streams. *)

\* Between the deltas of a run the server has exactly what is buffered here.
InStep == {"load", "start", "llm", "end"}

\* The stream s of a goroutine at p.
StreamAt(s, p) ==
    /\ \A i \in 1 .. Len(s.got) : s.got[i] = i
    /\ Len(s.got) <= s.text /\ s.seq = s.text
    /\ s.status = "ended" => s.final = Len(s.got)
    /\ p \in InStep => Len(s.got) = s.text
    /\ p \in InStep \cup {"error"} => s.status # "ended"

StreamInv == TypeOK /\ \A u \in Updates : StreamAt(stream[u], pc[u])

\* The server gets the next delta, or gets nothing and the run is over.
LEMMA PushedAt ==
  ASSUME NEW s \in StreamRecord, StreamAt(s, "llm"), NEW accepted \in BOOLEAN,
         NEW p \in {"llm", "error"}, p = "llm" => accepted
  PROVE  StreamAt(Pushed(s, accepted), p)
<1>1. s.got \in Seq(Nat) /\ s.seq \in Nat /\ s.text \in Nat /\ Len(s.got) \in Nat
  BY DEF StreamRecord
<1>2. /\ Len(s.got) = s.text /\ s.seq = s.text /\ s.status # "ended"
      /\ \A i \in 1 .. Len(s.got) : s.got[i] = i
  BY DEF StreamAt, InStep
<1> DEFINE t == Pushed(s, accepted)
<1>3. t.status = s.status /\ t.seq = s.seq + 1 /\ t.text = s.text + 1
  BY DEF Pushed
<1>4. CASE accepted
  <2>1. t.got = Append(s.got, s.seq + 1)
    BY <1>4 DEF Pushed
  <2>2. Len(t.got) = Len(s.got) + 1 /\ t.got[Len(s.got) + 1] = s.seq + 1
    BY <1>1, <2>1
  <2>3. ASSUME NEW i \in 1 .. Len(t.got) PROVE t.got[i] = i
    BY <1>1, <1>2, <2>1, <2>2
  <2> QED BY <1>1, <1>2, <1>3, <2>2, <2>3 DEF StreamAt
<1>5. CASE ~accepted
  <2>1. t.got = s.got /\ p = "error"
    BY <1>5 DEF Pushed
  <2> QED BY <1>1, <1>2, <1>3, <2>1 DEF StreamAt, InStep
<1> QED BY <1>4, <1>5

\* A step of one goroutine leaves the streams of the others alone, and its
\* own as it should be.
LEMMA StreamOfOthers ==
  ASSUME StreamInv, NEW u \in Updates, NEW p \in Places, NEW s \in StreamRecord,
         pc' = [pc EXCEPT ![u] = p], stream' = [stream EXCEPT ![u] = s], StreamAt(s, p),
         NEW v \in Updates
  PROVE  StreamAt(stream'[v], pc'[v])
BY DEF StreamInv, TypeOK

LEMMA StreamMoves ==
  ASSUME StreamInv, NEW u \in Updates, Goroutine(u) \/ Agent(u) \/ Handle(u) \/ Expire(u),
         NEW v \in Updates
  PROVE  StreamAt(stream'[v], pc'[v])
<1>1. /\ StreamAt(stream[u], pc[u]) /\ StreamAt(stream[v], pc[v])
      /\ pc \in [Updates -> Places] /\ stream \in [Updates -> StreamRecord]
      /\ stream[u] \in StreamRecord
  BY DEF StreamInv, TypeOK
<1>2. CASE RunLLM(u)
  <2>1. pc' = [pc EXCEPT ![u] = "load"] /\ stream' = [stream EXCEPT ![u] = NoStream]
    BY <1>2 DEF RunLLM
  <2>2. StreamAt(NoStream, "load") /\ NoStream \in StreamRecord
    BY DEF StreamAt, NoStream, StreamRecord
  <2> QED BY <2>1, <2>2, StreamOfOthers DEF Places
<1>3. CASE StartStream(u)
  <2>1. PICK p \in {"llm", "load"}, s \in {"none", "open"} :
          /\ pc' = [pc EXCEPT ![u] = p]
          /\ stream' = [stream EXCEPT ![u].status = s]
    BY <1>3 DEF StartStream
  <2>2. pc[u] = "start"
    BY <1>3 DEF StartStream
  <2>3. StreamAt([stream[u] EXCEPT !.status = s], p)
    BY <1>1, <2>2 DEF StreamAt, InStep, StreamRecord
  <2>4. [stream[u] EXCEPT !.status = s] \in StreamRecord
    BY <1>1 DEF StreamRecord
  <2> QED BY <2>1, <2>3, <2>4, StreamOfOthers DEF Places
<1>4. CASE TextDelta(u)
  <2>1. PICK accepted \in BOOLEAN, p \in {"llm", "error"} :
          /\ p = "llm" => accepted
          /\ pc' = [pc EXCEPT ![u] = p]
          /\ stream' = [stream EXCEPT ![u] = Pushed(stream[u], accepted)]
    BY <1>4 DEF TextDelta
  <2>2. pc[u] = "llm"
    BY <1>4 DEF TextDelta
  <2>3. StreamAt(Pushed(stream[u], accepted), p)
    BY <1>1, <2>1, <2>2, PushedAt
  <2>4. Pushed(stream[u], accepted) \in StreamRecord
    BY <1>1 DEF StreamRecord, Pushed
  <2> QED BY <2>1, <2>3, <2>4, StreamOfOthers DEF Places
<1>5. CASE StreamError(u)
  <2>1. pc[u] = "error" /\ pc' = [pc EXCEPT ![u] = "handler"]
    BY <1>5 DEF StreamError
  <2>2. CASE stream' = stream
    BY <1>1, <2>1, <2>2 DEF StreamAt, InStep
  <2>3. CASE stream' = [stream EXCEPT ![u].status = "errored"]
    <3>1. /\ StreamAt([stream[u] EXCEPT !.status = "errored"], "handler")
          /\ [stream[u] EXCEPT !.status = "errored"] \in StreamRecord
      BY <1>1 DEF StreamAt, InStep, StreamRecord
    <3> QED BY <2>1, <2>3, <3>1, StreamOfOthers DEF Places
  <2> QED BY <1>5, <2>2, <2>3 DEF StreamError
<1>6. CASE StreamEnd(u)
  <2>1. pc[u] = "end" /\ pc' = [pc EXCEPT ![u] = "save"]
    BY <1>6 DEF StreamEnd
  <2>2. CASE stream' = stream
    BY <1>1, <2>1, <2>2 DEF StreamAt, InStep
  <2>3. CASE stream' = [stream EXCEPT ![u] = EndedWith(stream[u], stream[u].text)]
    <3>1. /\ StreamAt(EndedWith(stream[u], stream[u].text), "save")
          /\ EndedWith(stream[u], stream[u].text) \in StreamRecord
      BY <1>1, <2>1 DEF StreamAt, InStep, StreamRecord, EndedWith
    <3> QED BY <2>1, <2>3, <3>1, StreamOfOthers DEF Places
  <2> QED BY <1>6, <2>2, <2>3 DEF StreamEnd
<1>7. ASSUME Handle(u) \/ Return(u) \/ SaveMemory(u) \/ SendReply(u) \/ Expire(u)
      PROVE  StreamAt(stream'[v], pc'[v])
  <2>1. stream' = stream /\ (pc'[v] = pc[v] \/ pc'[v] \in {"handler", "done", "send"})
    BY <1>1, <1>7 DEF Handle, Return, SaveMemory, SendReply, Expire, turnVars
  <2> QED BY <1>1, <2>1 DEF StreamAt, InStep
<1>8. ASSUME LoadMemory(u) \/ Tool(u) \/ FinalText(u) \/ StopAfterTools(u) \/ AgentFails(u)
      PROVE  StreamAt(stream'[v], pc'[v])
  <2>1. stream' = stream /\ (v # u => pc'[v] = pc[v])
    BY <1>1, <1>8 DEF LoadMemory, Tool, ToolStep, ClearContext, SendTool, OtherTool, FinalText,
       StopAfterTools, AgentFails, AgentDone
  <2>2. pc[u] \in {"load", "llm"}
    BY <1>8 DEF LoadMemory, Tool, ToolStep, ClearContext, SendTool, OtherTool, FinalText,
       StopAfterTools, AgentFails
  <2>3. pc'[u] \in {"start", "llm", "end", "save", "error", "handler"}
    <3>1. CASE LoadMemory(u)
      BY <1>1, <3>1 DEF LoadMemory
    <3>2. CASE Tool(u)
      BY <1>1, <2>2, <3>2 DEF Tool, ToolStep, ClearContext, SendTool, OtherTool, AgentDone
    <3>3. CASE FinalText(u) \/ StopAfterTools(u) \/ AgentFails(u)
      BY <1>1, <3>3 DEF FinalText, StopAfterTools, AgentFails, AgentDone
    <3> QED BY <1>8, <3>1, <3>2, <3>3
  <2> QED BY <1>1, <2>1, <2>2, <2>3 DEF StreamAt, InStep
<1> QED BY <1>2, <1>3, <1>4, <1>5, <1>6, <1>7, <1>8 DEF Goroutine, Agent

LEMMA StreamNext == StreamInv /\ [Next]_vars => StreamInv'
<1> SUFFICES ASSUME StreamInv, [Next]_vars PROVE StreamInv'
  OBVIOUS
<1>1. TypeOK'
  BY TypeNext DEF StreamInv
<1> SUFFICES ASSUME NEW v \in Updates PROVE StreamAt(stream'[v], pc'[v])
  BY <1>1 DEF StreamInv, StreamAt
<1>2. StreamAt(stream[v], pc[v])
  BY DEF StreamInv
<1>3. CASE UNCHANGED vars
  BY <1>2, <1>3 DEF vars, turnVars
<1>4. CASE \E k \in Keys : DropKey(k)
  BY <1>2, <1>4 DEF DropKey, turnVars
<1>5. CASE Crash
  <2>1. stream' = stream /\ pc'[v] \in {pc[v], "dead"}
    BY <1>5 DEF Crash, turnVars
  <2> QED BY <1>2, <2>1 DEF StreamAt, InStep
<1> QED BY <1>3, <1>4, <1>5, StreamMoves DEF Next

(* Whatever deltas are lost, however a stream fails, falls back or runs    *)
(* into the deadline, a stream that has ended shows the whole text, each   *)
(* delta once and in order (streamWriter and the OnTextDelta callback).    *)
THEOREM StreamsAreFaithful == Spec => []StreamFaithful
<1>1. Init => StreamInv
  BY TypeInit DEF Init, StreamInv, StreamAt, NoStream, InStep
<1>2. StreamInv => StreamFaithful
  BY DEF StreamInv, StreamAt, StreamFaithful
<1> QED BY <1>1, <1>2, StreamNext, PTL DEF Spec
=============================================================================
