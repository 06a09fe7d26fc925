------------------------------- MODULE Router -------------------------------
(***************************************************************************)
(* agentic/router.go: the handlers an application registers, while it      *)
(* builds the router and, for card actions, also afterwards; the engines   *)
(* that take the router and bind its fallback (agentic/engine.go); and     *)
(* the choice of one handler for an update.  Handle is Handler of Pipeline *)
(* from here on.                                                           *)
(*                                                                         *)
(* What strings.ToLower, TrimSpace, Contains and HasPrefix say of the      *)
(* texts, keywords and names in use is given by constants.                 *)
(***************************************************************************)
EXTENDS Integers, Sequences, FiniteSetsExt

CONSTANTS
    Strings,
    Lower, Trim,          \* functions on Strings
    Contains, HasPrefix,  \* pairs of strings
    FirstWord,      \* what follows the slash, up to the first space if that is
                    \* not the first character; "" if there is no slash
    Updates,        \* card actions with their verb, messages with their text
    Registrations,  \* what an application may register
    Handlers, Engines, NoHandler,
    MaxCalls        \* bound on the registrations

\* A registration is a function of the router and its arguments; those that
\* take no name have an empty one.
Registration == [fn : {"WithCommands", "WithCardAction", "OnCardAction", "WithKeywordExact",
                       "WithKeywordContains", "WithKeywordPrefix", "WithLLMHandler",
                       "WithCardActionDefault", "OnCardActionDefault"},
                 name : Strings, handler : Handlers]

RouterAssumption ==
    /\ Registrations \subseteq Registration
    /\ NoHandler \notin Handlers \cup Engines /\ Handlers \cap Engines = {}
    /\ {Lower, Trim, FirstWord} \subseteq [Strings -> Strings] /\ "" \in Strings
    /\ \A x \in Strings : Lower[x] = "" <=> x = ""
    /\ Updates \subseteq [kind : {"card"}, verb : Strings] \cup [kind : {"text"}, text : Strings]
    /\ MaxCalls \in Nat

VARIABLES
    built,        \* has NewRouter returned?
    commands, cardActions,   \* maps: name or verb to handler
    keywords,     \* the rules in the order of their registration
    cardDefault, llmHandler, \* a handler, or NoHandler for nil
    engines,      \* the engines that took the router
    routed,       \* the last update that was handled, and its handler
    calls         \* all registrations so far (history)

maps == <<commands, cardActions, keywords>>
vars == <<built, maps, cardDefault, llmHandler, engines, routed, calls>>

EmptyMap == [n \in {} |-> NoHandler]

IsMap(map) == DOMAIN map \subseteq Strings /\ map \in [DOMAIN map -> Handlers]

TypeOK ==
    /\ built \in BOOLEAN
    /\ IsMap(commands) /\ IsMap(cardActions)
    /\ keywords \in Seq(Registration) /\ calls \in Seq(Registrations)
    /\ cardDefault \in Handlers \cup {NoHandler}
    /\ llmHandler \in Handlers \cup Engines \cup {NoHandler}
    /\ engines \subseteq Engines
    /\ routed \in {<<>>} \cup (Updates \X (Handlers \cup Engines))
    /\ Len(calls) <= MaxCalls

Init ==
    /\ built = FALSE
    /\ commands = EmptyMap /\ cardActions = EmptyMap /\ keywords = <<>>
    /\ cardDefault = NoHandler /\ llmHandler = NoHandler
    /\ engines = {} /\ routed = <<>> /\ calls = <<>>

With(map, key, handler) == [k \in DOMAIN map \cup {key} |-> IF k = key THEN handler ELSE map[k]]

\* The options of NewRouter, and the two methods that register afterwards.
Construction(r) == r.fn \notin {"OnCardAction", "OnCardActionDefault"}

Register(r) ==
    /\ Len(calls) < MaxCalls /\ (Construction(r) <=> ~built)
    /\ calls' = Append(calls, r) /\ routed' = <<>>
    /\ UNCHANGED <<built, engines>>

WithCommands(r) ==
    /\ r.fn = "WithCommands"
    /\ Register(r)
    /\ commands' = With(commands, Lower[r.name], r.handler)
    /\ UNCHANGED <<cardActions, keywords, cardDefault, llmHandler>>

\* A bug: a registration replaces the ones of other verbs.
WithCardActionAlone(r) ==
    /\ r.fn \in {"WithCardAction", "OnCardAction"}
    /\ Register(r)
    /\ cardActions' = With(EmptyMap, r.name, r.handler)
    /\ UNCHANGED <<commands, keywords, cardDefault, llmHandler>>

WithCardAction(r) ==
    /\ r.fn \in {"WithCardAction", "OnCardAction"}
    /\ Register(r)
    /\ cardActions' = With(cardActions, r.name, r.handler)
    /\ UNCHANGED <<commands, keywords, cardDefault, llmHandler>>

IsKeyword(r) == r.fn \in {"WithKeywordExact", "WithKeywordContains", "WithKeywordPrefix"}

\* A bug: the last rule wins.
WithKeywordFirst(r) ==
    /\ IsKeyword(r)
    /\ Register(r)
    /\ keywords' = <<r>> \o keywords
    /\ UNCHANGED <<commands, cardActions, cardDefault, llmHandler>>

WithKeyword(r) ==
    /\ IsKeyword(r)
    /\ Register(r)
    /\ keywords' = Append(keywords, r)
    /\ UNCHANGED <<commands, cardActions, cardDefault, llmHandler>>

WithCardActionDefault(r) ==
    /\ r.fn \in {"WithCardActionDefault", "OnCardActionDefault"}
    /\ Register(r)
    /\ cardDefault' = r.handler
    /\ UNCHANGED <<maps, llmHandler>>

WithLLMHandler(r) ==
    /\ r.fn = "WithLLMHandler"
    /\ Register(r)
    /\ llmHandler' = r.handler
    /\ UNCHANGED <<maps, cardDefault>>

NewRouter ==
    /\ ~built /\ built' = TRUE
    /\ UNCHANGED <<maps, cardDefault, llmHandler, engines, routed, calls>>

\* NewEngine binds its RunLLM if the router has no fallback: a router that
\* two engines share keeps that of the first.
NewEngine(e) ==
    /\ built /\ e \notin engines
    /\ engines' = engines \cup {e}
    /\ llmHandler' = IF llmHandler = NoHandler THEN e ELSE llmHandler
    /\ routed' = <<>>
    /\ UNCHANGED <<built, maps, cardDefault, calls>>

-----------------------------------------------------------------------------
\* Handle

\* parseCommand; the empty name stands for no command.
ParseCommand(text) == Lower[FirstWord[Trim[text]]]

Matches(rule, text) ==
    CASE rule.fn = "WithKeywordExact"    -> Lower[Trim[text]] = Lower[Trim[rule.name]]
      [] rule.fn = "WithKeywordContains" -> <<Lower[text], Lower[rule.name]>> \in Contains
      [] rule.fn = "WithKeywordPrefix"   ->
           <<Lower[Trim[text]], Lower[Trim[rule.name]]>> \in HasPrefix

\* The rules that match, by their place.
MatchingRules(text) == {i \in DOMAIN keywords : Matches(keywords[i], text)}

RouteCardAction(verb) ==
    CASE verb \in DOMAIN cardActions -> cardActions[verb]
      [] verb \notin DOMAIN cardActions /\ cardDefault # NoHandler -> cardDefault
      [] OTHER -> llmHandler

RouteText(text) ==
    LET name == ParseCommand(text)
        isCommand == name # "" /\ name \in DOMAIN commands
    IN  CASE isCommand -> commands[name]
          [] ~isCommand /\ MatchingRules(text) # {} -> keywords[Min(MatchingRules(text))].handler
          [] OTHER -> llmHandler

Route(u) == IF u.kind = "card" THEN RouteCardAction(u.verb) ELSE RouteText(u.text)

Handle(u) ==
    /\ engines # {}
    /\ routed' = <<u, Route(u)>>
    /\ UNCHANGED <<built, maps, cardDefault, llmHandler, engines, calls>>

AddRoute(r) ==
    \/ WithCommands(r) \/ WithCardAction(r) \/ WithKeyword(r)
    \/ WithCardActionDefault(r) \/ WithLLMHandler(r)

Next ==
    \/ \E r \in Registrations : AddRoute(r)
    \/ NewRouter
    \/ \E e \in Engines : NewEngine(e)
    \/ \E u \in Updates : Handle(u)

Spec == Init /\ [][Next]_vars

-----------------------------------------------------------------------------
\* Does a registration speak of an update, and at which of the documented
\* priorities: 1 verb or command, 2 keyword or default for cards, 3 fallback?
Speaks(r, u) ==
    CASE r.fn \in {"WithCardAction", "OnCardAction"} -> u.kind = "card" /\ u.verb = r.name
      [] r.fn \in {"WithCardActionDefault", "OnCardActionDefault"} -> u.kind = "card"
      [] r.fn = "WithLLMHandler" -> TRUE
      [] r.fn = "WithCommands" ->
           /\ u.kind = "text" /\ FirstWord[Trim[u.text]] # ""
           /\ Lower[FirstWord[Trim[u.text]]] = Lower[r.name]
      [] OTHER -> u.kind = "text" /\ Matches(r, u.text)

Priority(r) ==
    CASE r.fn \in {"WithCommands", "WithCardAction", "OnCardAction"} -> 1
      [] r.fn = "WithLLMHandler" -> 3
      [] OTHER -> 2

\* The registration an update belongs to: of those that speak of it the ones
\* of the best priority, and of these the first if they are keywords and else
\* the last, which replaced the ones before it.
Speaking(u) == {i \in DOMAIN calls : Speaks(calls[i], u)}

Owner(u) ==
    LET best == {i \in Speaking(u) : \A j \in Speaking(u) :
                                         Priority(calls[i]) <= Priority(calls[j])}
    IN  IF IsKeyword(calls[Min(best)]) THEN Min(best) ELSE Max(best)

\* An update is handled by its owner, and one that nobody speaks of by an
\* engine: commands before keywords before the engine, rules in the order of
\* their registration, whatever case a command is registered or sent in, and
\* handlers of card actions that were registered later in their turn.
RoutedByPriority ==
    routed # <<>> =>
        LET u == routed[1]
        IN  IF Speaking(u) = {} THEN routed[2] \in engines
                                ELSE routed[2] = calls[Owner(u)].handler

\* A registration changes the handler of no update it does not speak of, and a
\* keyword rule only takes what went to the fallback, never what belongs to a
\* command or to a rule before it.
RegistrationsLocal ==
    [][calls' # calls =>
        LET r == calls'[Len(calls')]
        IN  \A u \in Updates : Route(u)' # Route(u) =>
                Speaks(r, u) /\ (IsKeyword(r) => Route(u) = llmHandler)]_vars
=============================================================================
