------------------------------- MODULE Engine -------------------------------
(***************************************************************************)
(* The LLM pipeline of agentic/engine.go over a conversation memory.       *)
(*                                                                         *)
(* The transports start one goroutine per update (client/transport.go), so *)
(* several handlers run at once, and two of them may share a memory key.   *)
(* A handler runs the LLM any number of times; each run loads the history  *)
(* of its key, lets the agent take steps, and writes history plus steps    *)
(* back.  Nothing locks the key between the load and the save.             *)
(*                                                                         *)
(* Messages are abstracted to the turn that produced them, their place in  *)
(* it and their kind; a text delta is its number.                          *)
(***************************************************************************)
EXTENDS Integers, Sequences

CONSTANTS
    Updates,      \* the updates the transport delivers, one goroutine each
    Keys,         \* memory keys (agent, user, conversation)
    KeyOf,        \* the key of each update
    TextUpdates,  \* the updates whose Text is not empty
    Redis,        \* TRUE: RedisMemory, FALSE: InMemoryMemory
    MaxMsgs,      \* maxMsgs of the memory, 0 for no limit
    Summarizes,   \* TRUE if the memory has a Summarizer
    Modes,        \* the modes handlers run the LLM in
    ExtraMsgs,    \* what handlers do: {FALSE}, or with LLMWithExtraMessages too
    MaxRuns,      \* bound on LLM runs of one handler
    MaxSteps,     \* bound on tool steps of one run
    MaxDeltas,    \* bound on text deltas of one stream
    MaxCrashes    \* bound on process crashes

ASSUME UpdatesAssumption == KeyOf \in [Updates -> Keys] /\ TextUpdates \subseteq Updates
ASSUME MemoryAssumption == Redis \in BOOLEAN /\ MaxMsgs \in Nat /\ Summarizes \in BOOLEAN
ASSUME CallAssumption == Modes \subseteq {"generate", "stream"} /\ ExtraMsgs \subseteq BOOLEAN
ASSUME BoundsAssumption == {MaxRuns, MaxSteps, MaxDeltas, MaxCrashes} \subseteq Nat

VARIABLES
    store,     \* the memory: the messages stored under each key
    pc,        \* where the goroutine of each update is
    mode,      \* how the current run calls the agent
    run,       \* LLM runs the handler has started
    history,   \* the messages the current run sends to the agent
    steps,     \* the messages of the agent's steps in the current run
    cleared,   \* the clear flag in the context of the update
    expired,   \* whether the two-minute context of the update is over
    stream,    \* the stream writer of the current run and what the server has
    crashes    \* process crashes so far

turnVars == <<mode, run, history, steps, stream>>
ctxVars  == <<cleared, expired>>
vars     == <<store, pc, turnVars, ctxVars, crashes>>

Kinds == {"extra", "user", "call", "result", "text", "summary"}

(* A message: its turn (an update and the number of the run), its place    *)
(* among the messages of the steps (0 and below: what the run adds before  *)
(* the steps), and its kind.                                               *)
Message == [turn : Updates \X Nat, idx : Int, kind : Kinds]

\* A bug: one key for all conversations.
SharedKey(u) == CHOOSE k \in Keys : TRUE

\* The code puts the key together in three places: a streamed run and CallLLM
\* take the user and the conversation from the update, clear_context takes
\* them from the context.
StreamKey(u) == KeyOf[u]
CallKey(u)   == KeyOf[u]
ClearKey(u)  == KeyOf[u]

\* The key under which the current run of u loads and saves.
MemKey(u) == IF mode[u] = "stream" THEN StreamKey(u) ELSE CallKey(u)

Turn(u)         == <<u, run[u]>>
ExtraMessage(u) == [turn |-> Turn(u), idx |-> -1, kind |-> "extra"]
UserMessage(u)  == [turn |-> Turn(u), idx |-> 0, kind |-> "user"]
StepMessage(u, n, k) == [turn |-> Turn(u), idx |-> n, kind |-> k]

\* The n messages a summarizer may put in the place of older ones.
Summaries(u, n) == [i \in 1 .. n |-> [turn |-> Turn(u), idx |-> i - n - 2, kind |-> "summary"]]

(* A stream: its state, the writer's sequence number, the deltas buffered  *)
(* here, the sequence numbers the server has, and the deltas in the text   *)
(* that ended it.                                                          *)
StreamRecord == [status : {"none", "open", "ended", "errored"},
                 seq : Nat, text : Nat, got : Seq(Nat), final : Nat]

NoStream == [status |-> "none", seq |-> 0, text |-> 0, got |-> <<>>, final |-> 0]

\* Where a goroutine can be; at the idle places there is none.
Idle == {"idle", "done", "dead"}
Places == Idle \cup {"handler", "load", "start", "llm", "error", "end", "save", "send"}
Active(u) == pc[u] \notin Idle

(* The calls that take the update's context fail once it is over.          *)
CallSucceeds(u) == ~expired[u]

\* A goroutine is only where its mode takes it.
PlacesFit == \A u \in Updates : /\ pc[u] \in {"start", "end", "error"} => mode[u] = "stream"
                                /\ pc[u] = "send" => mode[u] = "generate"

TypeOK ==
    /\ store \in [Keys -> Seq(Message)]
    /\ pc \in [Updates -> Places]
    /\ mode \in [Updates -> {"generate", "stream"}]
    /\ run \in [Updates -> Nat]
    /\ history \in [Updates -> Seq(Message)]
    /\ steps \in [Updates -> Seq(Message)]
    /\ cleared \in [Updates -> BOOLEAN]
    /\ expired \in [Updates -> BOOLEAN]
    /\ stream \in [Updates -> StreamRecord]
    /\ crashes \in Nat
    /\ PlacesFit

Init ==
    /\ store = [k \in Keys |-> <<>>]
    /\ pc = [u \in Updates |-> "idle"]
    /\ mode = [u \in Updates |-> "generate"]
    /\ run = [u \in Updates |-> 0]
    /\ history = [u \in Updates |-> <<>>]
    /\ steps = [u \in Updates |-> <<>>]
    /\ cleared = [u \in Updates |-> FALSE]
    /\ expired = [u \in Updates |-> FALSE]
    /\ stream = [u \in Updates |-> NoStream]
    /\ crashes = 0

-----------------------------------------------------------------------------
(* The handler. *)

\* The messages of a run are local to it and gone when it is over.
DropMessages(u) ==
    /\ history' = [history EXCEPT ![u] = <<>>]
    /\ steps' = [steps EXCEPT ![u] = <<>>]

\* Engine.Handle: a context of its own for the update, with a fresh clear flag.
Handle(u) ==
    /\ pc[u] = "idle"
    /\ pc' = [pc EXCEPT ![u] = "handler"]
    /\ cleared' = [cleared EXCEPT ![u] = FALSE]
    /\ UNCHANGED <<store, turnVars, expired, crashes>>

\* The mode is that of an option of the call, or the engine's.
ChooseMode(u) == \E m \in Modes : mode' = [mode EXCEPT ![u] = m]

\* The handler calls RunLLM.
RunLLM(u) ==
    /\ pc[u] = "handler"
    /\ run[u] < MaxRuns
    /\ ChooseMode(u)
    /\ pc' = [pc EXCEPT ![u] = "load"]
    /\ run' = [run EXCEPT ![u] = @ + 1]
    /\ stream' = [stream EXCEPT ![u] = NoStream]
    /\ UNCHANGED <<store, history, steps, ctxVars, crashes>>

\* The handler returns and the goroutine ends.
Return(u) ==
    /\ pc[u] = "handler"
    /\ pc' = [pc EXCEPT ![u] = "done"]
    /\ UNCHANGED <<store, turnVars, ctxVars, crashes>>

\* What loadMemory may return: a failed load is only logged, and the run goes
\* on with no history.
Loaded(u) ==
    (IF CallSucceeds(u) \/ ~Redis THEN {store[MemKey(u)]} ELSE {})
    \cup (IF Redis THEN {<<>>} ELSE {})

\* A bug: a run that falls back adds its messages to those it had loaded.
LoadMemoryAgain(u) ==
    /\ pc[u] = "load"
    /\ \E loaded \in Loaded(u), extra \in ExtraMsgs :
         history' = [history EXCEPT ![u] =
                       @ \o loaded \o (IF extra THEN <<ExtraMessage(u)>> ELSE <<>>)
                              \o (IF u \in TextUpdates THEN <<UserMessage(u)>> ELSE <<>>)]
    /\ pc' = [pc EXCEPT ![u] = IF mode[u] = "stream" THEN "start" ELSE "llm"]
    /\ UNCHANGED <<store, mode, run, steps, stream, ctxVars, crashes>>

\* The history, then the extra messages and the user message of this run.
LoadMemory(u) ==
    /\ pc[u] = "load"
    /\ \E loaded \in Loaded(u), extra \in ExtraMsgs :
         history' = [history EXCEPT ![u] =
                       loaded \o (IF extra THEN <<ExtraMessage(u)>> ELSE <<>>)
                              \o (IF u \in TextUpdates THEN <<UserMessage(u)>> ELSE <<>>)]
    /\ pc' = [pc EXCEPT ![u] = IF mode[u] = "stream" THEN "start" ELSE "llm"]
    /\ UNCHANGED <<store, mode, run, steps, stream, ctxVars, crashes>>

\* StartStream; when it fails the run starts over in generate mode, and
\* the stream message may exist on the server all the same.
StartStream(u) ==
    /\ pc[u] = "start"
    /\ \/ /\ CallSucceeds(u)
          /\ pc' = [pc EXCEPT ![u] = "llm"]
          /\ stream' = [stream EXCEPT ![u].status = "open"]
          /\ UNCHANGED mode
       \/ /\ pc' = [pc EXCEPT ![u] = "load"]
          /\ mode' = [mode EXCEPT ![u] = "generate"]
          /\ \E s \in {"none", "open"} : stream' = [stream EXCEPT ![u].status = s]
    /\ UNCHANGED <<store, run, history, steps, ctxVars, crashes>>

-----------------------------------------------------------------------------
(* The agent's run: text deltas, tool steps, and how it ends. *)

\* A bug: every run ends a stream.
AgentDoneEnding(u) == pc' = [pc EXCEPT ![u] = "end"]

\* The agent is done: a stream is ended first, then the turn is saved.
AgentDone(u) == pc' = [pc EXCEPT ![u] = IF mode[u] = "stream" THEN "end" ELSE "save"]

\* The stream s after a push, which the server got if accepted.
Pushed(s, accepted) ==
    [status |-> s.status, seq |-> s.seq + 1, text |-> s.text + 1,
     got |-> IF accepted THEN Append(s.got, s.seq + 1) ELSE s.got, final |-> s.final]

\* A bug: an error of PushText does not end the agent's run.
TextDeltaIgnored(u) ==
    /\ pc[u] = "llm" /\ mode[u] = "stream"
    /\ stream[u].seq < MaxDeltas
    /\ \E accepted \in BOOLEAN : stream' = [stream EXCEPT ![u] = Pushed(@, accepted)]
    /\ UNCHANGED <<store, pc, mode, run, history, steps, ctxVars, crashes>>

\* OnTextDelta: the text is buffered and the sequence number taken before
\* the call; the call has a context of its own and may fail either way.  An
\* error from the callback ends the agent's run.
TextDelta(u) ==
    /\ pc[u] = "llm" /\ mode[u] = "stream"
    /\ stream[u].seq < MaxDeltas
    /\ \E accepted, ok \in BOOLEAN :
         /\ ok => accepted
         /\ stream' = [stream EXCEPT ![u] = Pushed(@, accepted)]
         /\ pc' = [pc EXCEPT ![u] = IF ok THEN "llm" ELSE "error"]
    /\ UNCHANGED <<store, mode, run, history, steps, ctxVars, crashes>>

\* The two messages a tool step adds: the call and its result.
ToolStep(u) ==
    LET n == Len(steps[u]) IN
    /\ pc[u] = "llm"
    /\ n < 2 * MaxSteps
    /\ steps' = [steps EXCEPT ![u] = @ \o <<StepMessage(u, n + 1, "call"),
                                            StepMessage(u, n + 2, "result")>>]

\* The flag every holder of the update's context sees.
MarkContextCleared(u) == cleared' = [cleared EXCEPT ![u] = TRUE]

\* A bug: the flag is set although Clear has failed.
ClearContextEager(u) ==
    /\ ToolStep(u)
    /\ \/ /\ CallSucceeds(u) \/ ~Redis
          /\ store' = [store EXCEPT ![ClearKey(u)] = <<>>]
       \/ /\ Redis
          /\ store' \in {store, [store EXCEPT ![ClearKey(u)] = <<>>]}
    /\ MarkContextCleared(u)
    /\ UNCHANGED <<pc, mode, run, history, stream, expired, crashes>>

\* clear_context: the flag is set only when Clear reports success.
ClearContext(u) ==
    /\ ToolStep(u)
    /\ \/ /\ CallSucceeds(u) \/ ~Redis
          /\ store' = [store EXCEPT ![ClearKey(u)] = <<>>]
          /\ MarkContextCleared(u)
       \/ /\ Redis
          /\ store' \in {store, [store EXCEPT ![ClearKey(u)] = <<>>]}
          /\ UNCHANGED cleared
    /\ UNCHANGED <<pc, mode, run, history, stream, expired, crashes>>

\* send_text, send_card, reply_message: a sent message stops the turn; an error
\* is the tool's result and the agent goes on, as it does after edit_message.
SendTool(u) ==
    /\ ToolStep(u)
    /\ \/ /\ CallSucceeds(u)
          /\ AgentDone(u)
       \/ UNCHANGED pc
    /\ UNCHANGED <<store, mode, run, history, stream, ctxVars, crashes>>

\* Any other tool: it changes nothing the engine keeps.
OtherTool(u) ==
    /\ ToolStep(u)
    /\ UNCHANGED <<store, pc, mode, run, history, stream, ctxVars, crashes>>

\* The agent answers with text and calls no tool.
FinalText(u) ==
    /\ pc[u] = "llm"
    /\ steps' = [steps EXCEPT ![u] = Append(@, StepMessage(u, Len(@) + 1, "text"))]
    /\ AgentDone(u)
    /\ UNCHANGED <<store, mode, run, history, stream, ctxVars, crashes>>

\* A stop condition ends the run after a tool step.
StopAfterTools(u) ==
    /\ pc[u] = "llm"
    /\ steps[u] # <<>>
    /\ AgentDone(u)
    /\ UNCHANGED <<store, mode, run, history, steps, stream, ctxVars, crashes>>

\* Generate or Stream returns an error: nothing of the run is saved.
AgentFails(u) ==
    /\ pc[u] = "llm"
    /\ pc' = [pc EXCEPT ![u] = IF mode[u] = "stream" THEN "error" ELSE "handler"]
    /\ DropMessages(u)
    /\ UNCHANGED <<store, mode, run, stream, ctxVars, crashes>>

-----------------------------------------------------------------------------
(* After the agent. *)

\* sw.Error after a failed stream, with the update's context; whatever its
\* outcome RunLLM returns without saving.
StreamError(u) ==
    /\ pc[u] = "error"
    /\ \/ /\ CallSucceeds(u)
          /\ stream' = [stream EXCEPT ![u].status = "errored"]
       \/ UNCHANGED stream
    /\ pc' = [pc EXCEPT ![u] = "handler"]
    /\ DropMessages(u)
    /\ UNCHANGED <<store, mode, run, ctxVars, crashes>>

\* The stream s after the server was given its final text.
EndedWith(s, text) ==
    [status |-> "ended", seq |-> s.seq, text |-> s.text, got |-> s.got, final |-> text]

\* sw.End with the buffered text; a failure is only logged.
StreamEnd(u) ==
    /\ pc[u] = "end"
    /\ \/ /\ CallSucceeds(u)
          /\ stream' = [stream EXCEPT ![u] = EndedWith(@, stream[u].text)]
       \/ UNCHANGED stream
    /\ pc' = [pc EXCEPT ![u] = "save"]
    /\ UNCHANGED <<store, mode, run, history, steps, ctxVars, crashes>>

\* A bug: one message less is kept.
KeepLastButOne(msgs) ==
    IF MaxMsgs > 0 /\ Len(msgs) > MaxMsgs
    THEN SubSeq(msgs, Len(msgs) - MaxMsgs + 2, Len(msgs))
    ELSE msgs

\* The last MaxMsgs messages.
KeepLast(msgs) ==
    IF MaxMsgs > 0 /\ Len(msgs) > MaxMsgs
    THEN SubSeq(msgs, Len(msgs) - MaxMsgs + 1, Len(msgs))
    ELSE msgs

\* A bug: Save appends to what is stored.
KeptBehind(u, msgs) == {KeepLast(store[MemKey(u)] \o msgs)}

\* What a summarizer may make of msgs: any number of messages of its own in
\* the place of all but the last.  (More than the limit are cut.)
Summarized(u, msgs) ==
    UNION {{Summaries(u, n) \o SubSeq(msgs, cut + 1, Len(msgs)) : n \in 0 .. MaxMsgs} :
           cut \in 0 .. Len(msgs)}

\* What Save may store: an over-long history goes to the summarizer first,
\* whose error is ignored; what it returns is cut like any other.
Kept(u, msgs) ==
    {KeepLast(msgs)} \cup
    (IF Summarizes /\ MaxMsgs > 0 /\ Len(msgs) > MaxMsgs
     THEN {KeepLast(s) : s \in Summarized(u, msgs)} ELSE {})

\* Bugs: the steps before the history, a clear that is not heeded.
UpdatedSwapped(u)   == IF cleared[u] THEN steps[u] ELSE steps[u] \o history[u]
UpdatedUncleared(u) == history[u] \o steps[u]

\* The messages saveMemory hands to the memory.
Updated(u) == IF cleared[u] THEN steps[u] ELSE history[u] \o steps[u]

\* saveMemory: a failed Save is only logged.
SaveMemory(u) ==
    /\ pc[u] = "save"
    /\ \/ /\ CallSucceeds(u) \/ ~Redis
          /\ \E kept \in Kept(u, Updated(u)) : store' = [store EXCEPT ![MemKey(u)] = kept]
       \/ Redis /\ UNCHANGED store
    /\ pc' = [pc EXCEPT ![u] = IF mode[u] = "stream" THEN "handler" ELSE "send"]
    /\ DropMessages(u)
    /\ UNCHANGED <<mode, run, stream, ctxVars, crashes>>

\* runLLMGenerate sends a non-empty reply; sent or not, RunLLM returns nil.
SendReply(u) ==
    /\ pc[u] = "send"
    /\ pc' = [pc EXCEPT ![u] = "handler"]
    /\ UNCHANGED <<store, turnVars, ctxVars, crashes>>

-----------------------------------------------------------------------------
(* The environment. *)

\* A bug: no deadline for streamed runs.
ExpireGenerate(u) ==
    /\ Active(u) /\ ~expired[u] /\ mode[u] = "generate"
    /\ expired' = [expired EXCEPT ![u] = TRUE]
    /\ UNCHANGED <<store, pc, turnVars, cleared, crashes>>

\* The two-minute deadline of the goroutine's context.
Expire(u) ==
    /\ Active(u) /\ ~expired[u]
    /\ expired' = [expired EXCEPT ![u] = TRUE]
    /\ UNCHANGED <<store, pc, turnVars, cleared, crashes>>

\* Redis drops a key whose TTL has run out.
DropKey(k) ==
    /\ Redis /\ store[k] # <<>>
    /\ store' = [store EXCEPT ![k] = <<>>]
    /\ UNCHANGED <<pc, turnVars, ctxVars, crashes>>

\* The process dies: its goroutines and the in-memory store are gone.
Crash ==
    /\ crashes < MaxCrashes
    /\ \E u \in Updates : Active(u)
    /\ crashes' = crashes + 1
    /\ pc' = [u \in Updates |-> IF Active(u) THEN "dead" ELSE pc[u]]
    /\ store' = IF Redis THEN store ELSE [k \in Keys |-> <<>>]
    /\ UNCHANGED <<turnVars, ctxVars>>

\* The agent calls a tool.
Tool(u) == ClearContext(u) \/ SendTool(u) \/ OtherTool(u)

Agent(u) == TextDelta(u) \/ Tool(u) \/ FinalText(u) \/ StopAfterTools(u) \/ AgentFails(u)

\* The steps of the goroutine that are not the agent's.
Goroutine(u) == \/ RunLLM(u) \/ Return(u) \/ LoadMemory(u) \/ StartStream(u)
                \/ StreamError(u) \/ StreamEnd(u) \/ SaveMemory(u) \/ SendReply(u)

Next ==
    \/ \E u \in Updates : Handle(u) \/ Goroutine(u) \/ Agent(u) \/ Expire(u)
    \/ \E k \in Keys : DropKey(k)
    \/ Crash

\* Goroutines are scheduled and every call the engine makes returns (the RPC
\* client has a 30-second timeout).  The agent is only known to return once
\* its context is over, which the timer of the context brings about.
Fairness ==
    \A u \in Updates : /\ WF_vars(Goroutine(u))
                       /\ WF_vars(Expire(u))
                       /\ WF_vars(expired[u] /\ AgentFails(u))

Spec == Init /\ [][Next]_vars /\ Fairness

-----------------------------------------------------------------------------
(* Properties. *)

(* b may come right after a: steps are neither lost nor swapped inside a   *)
(* turn, a turn begins at its beginning, and a tool call and its result    *)
(* are never separated.  What follows a summary the summarizer has chosen. *)
Link(a, b) == a.kind # "summary" =>
    /\ b.idx > 1 => b.turn = a.turn /\ b.idx = a.idx + 1
    /\ a.turn = b.turn => a.idx < b.idx
    /\ a.kind = "call" \/ b.kind = "result" =>
          a.kind = "call" /\ b.kind = "result" /\ a.turn = b.turn

Linked(s) == \A i \in 1 .. Len(s) - 1 : Link(s[i], s[i + 1])

(* However runs of one conversation interleave, fail or crash, the history *)
(* under a key is a chain of turns, none broken off after a tool call: the *)
(* agent never reads a history with a call that has no result, or half a   *)
(* turn of somebody else's inside a turn (saveMemory, Save, Clear).        *)
HistoryChained ==
    \A k \in Keys : /\ Linked(store[k])
                    /\ store[k] # <<>> => store[k][Len(store[k])].kind # "call"

(* No message crosses from one conversation to another: what is stored     *)
(* under a key, and what a run sends to the agent, comes from updates of   *)
(* that key (the memory key of CallLLM and runLLMStream).                  *)
KeysIsolated ==
    /\ \A k \in Keys : \A i \in 1 .. Len(store[k]) : KeyOf[store[k][i].turn[1]] = k
    /\ \A u \in Updates : \A i \in 1 .. Len(history[u]) :
          KeyOf[history[u][i].turn[1]] = KeyOf[u]

(* A turn is remembered at most once and the turns of one handler in their *)
(* order, even when its later runs load what its earlier ones saved, or    *)
(* another handler saves a history it loaded before.  Summaries stand for  *)
(* what came before them, whoever's turn made them.                        *)
TurnsInOrder ==
    \A k \in Keys : \A j \in 1 .. Len(store[k]) : \A i \in 1 .. j - 1 :
        LET a == store[k][i]
            b == store[k][j]
        IN  a.turn[1] = b.turn[1] /\ "summary" \notin {a.kind, b.kind} =>
                \/ a.turn[2] < b.turn[2]
                \/ a.turn[2] = b.turn[2] /\ a.idx < b.idx

(* The memory never holds more than MaxMsgs messages, and a remembered     *)
(* turn has lost the question it answers only to the limit, which then is  *)
(* used up, or to the summarizer, unless its handler has cleared or had no *)
(* question (InMemoryMemory.Save, RedisMemory.Save, saveMemory).           *)
QuestionKept ==
    \A k \in Keys :
        /\ MaxMsgs > 0 => Len(store[k]) <= MaxMsgs
        /\ store[k] # <<>> =>
              LET first == store[k][1]
                  u     == first.turn[1]
              IN  \/ first.idx <= 0
                  \/ first.idx = 1 /\ (cleared[u] \/ u \notin TextUpdates)
                  \/ MaxMsgs > 0 /\ (Len(store[k]) = MaxMsgs \/ Summarizes)

\* The step is the save of u.
Saves(u) == pc[u] = "save" /\ pc'[u] \in {"handler", "send"}

Holds(s, m) == \E i \in 1 .. Len(s) : s[i] = m

(* Of what the run of u had loaded and is still remembered, the save of u  *)
(* drops only what the limit or the summarizer takes: the oldest messages, *)
(* and no more of them than make room.                                     *)
Keeps(u) ==
    LET old == store[KeyOf[u]]
        new == store'[KeyOf[u]]
    IN  new # old =>
          \A j \in 1 .. Len(history[u]) :
             Holds(old, history[u][j]) /\ ~Holds(new, history[u][j]) =>
                /\ MaxMsgs > 0
                /\ \A i \in 1 .. j : ~Holds(new, history[u][i])
                /\ Len(new) = MaxMsgs \/ Summarizes

\* What the run of u loaded is the latest that is remembered: no other turn
\* has been saved since.
Latest(u) == LET old == store[KeyOf[u]] IN old # <<>> /\ Holds(history[u], old[Len(old)])

(* A save that was not told to forget loses nothing its run had loaded and *)
(* that is still remembered, even if another turn has been saved or cleared*)
(* since; and the first run of a handler is told to forget only if all it  *)
(* had loaded is gone already: a Clear that failed, or that Redis applied  *)
(* and then reported an error, leaves flag and memory in accord            *)
(* (saveMemory, clear_context).                                            *)
SaveKeepsHistory ==
    [][\A u \in Updates :
          Saves(u) /\ (~cleared[u] \/ (run[u] = 1 /\ Latest(u))) => Keeps(u)]_vars

(* A stream that has ended shows the user the whole text: the server got   *)
(* every delta once and in order, and the final text is made of exactly    *)
(* those.  While it is open the server has no delta the engine has not     *)
(* buffered (streamWriter and the OnTextDelta callback).                   *)
StreamFaithful ==
    \A u \in Updates :
        LET s == stream[u] IN
        /\ \A i \in 1 .. Len(s.got) : s.got[i] = i
        /\ Len(s.got) <= s.text /\ s.seq = s.text
        /\ s.status = "ended" => s.final = Len(s.got)

(* Every handler returns, even if the agent never answers: the deadline of *)
(* its context ends every wait (the two-minute timeout in dispatchUpdate   *)
(* and ServeHTTP).                                                         *)
HandlersReturn == \A u \in Updates : pc[u] = "handler" ~> pc[u] \in Idle

(* What comments of the code say, and the code does not do.                *)

(* What clear_context removed stays removed: a save brings back no message *)
(* that is no longer in the memory ("After clearing, the next LLM turn     *)
(* starts with a fresh context", tools/clear.go).  Stated for MaxMsgs = 0. *)
ClearIsFinal ==
    [][\A u \in Updates : Saves(u) =>
          \A i \in 1 .. Len(store'[KeyOf[u]]) :
              LET m == store'[KeyOf[u]][i] IN
              \/ m.turn = Turn(u)
              \/ \E j \in 1 .. Len(store[KeyOf[u]]) : store[KeyOf[u]][j] = m]_vars

(* A clear forgets what was remembered before it and no more: a history    *)
(* loaded after it is kept ("If the clear_context tool was called during   *)
(* this turn, discard old history", saveMemory).                           *)
ClearForgetsOnce ==
    [][\A u \in Updates : Saves(u) /\ (~cleared[u] \/ Latest(u)) => Keeps(u)]_vars

(* A tool call is kept as long as its result ("preserve the full tool      *)
(* call/result history across turns", memory.go).                          *)
CallsKeptWithResults == \A k \in Keys : store[k] # <<>> => store[k][1].kind # "result"

(* The engine implements the abstract conversation memory.                 *)
InTurn == {"start", "llm", "end", "save"}

\* What turn t has loaded of the history h: all in front of its own messages.
LoadedPart(h, t) ==
    LET OwnFrom(n) == /\ \A i \in 1 .. n : h[i].turn # t
                      /\ n < Len(h) => h[n + 1].turn = t
    IN  SubSeq(h, 1, CHOOSE n \in 0 .. Len(h) : OwnFrom(n))

Snapshot(u) == IF cleared[u] THEN <<>> ELSE LoadedPart(history[u], Turn(u))

Memory == INSTANCE ConversationMemory WITH
    Turns <- Updates,
    Condenses <- Summarizes,
    number <- run,
    base <- [u \in Updates |-> IF pc[u] \in InTurn THEN {Snapshot(u)} ELSE {}]

(* Every run leaves behind the history it loaded, less what the limit      *)
(* takes, followed by its own messages: nothing else ever changes what is  *)
(* remembered but a clear, an expiry or a crash.                           *)
ImplementsMemory == Memory!Spec
=============================================================================
