------------------------------- MODULE Parts -------------------------------
(***************************************************************************)
(* The parts of the program that share no state with each other: the       *)
(* webhook handler (with the agent's own ID), the start of the program,    *)
(* the router, the redaction of logs and the IDs of conversations.  As     *)
(* they share nothing, what one of them does is the same whatever the      *)
(* others do, and it is enough to look at behaviours in which one of them  *)
(* runs and the others are still where they begin.                         *)
(***************************************************************************)
EXTENDS Integers, Sequences

CONSTANTS
    Types, Schemas, NoSchema, NoType,                         \* Redaction
    Requests, Others, Deliveries, Users, Self, NoUser, NoCaller, MaxDrift, \* Webhook
    Paths, DefaultPaths, Hint, Settings, Values, Zero, Default, Names, Models, Unset,
    Supported, Worlds, Nothing,                               \* Startup
    Strings, Lower, Trim, Contains, HasPrefix, FirstWord, Updates, Registrations,
    Handlers, Engines, NoHandler, MaxCalls,                   \* Router
    B                                                         \* ConversationIds

VARIABLES
    schema, step, caller, todo, top, hasAny, walk,
    pc, handlerMu, selfMu, handlerResolved, selfResolved, selfId, failed, delivery,
    status, dispatched,
    stage, world, source, text, cfg, registry,
    built, commands, cardActions, keywords, cardDefault, llmHandler, engines, routed, calls,
    users, conv

R == INSTANCE Redaction
W == INSTANCE Webhook
S == INSTANCE Startup
O == INSTANCE Router
I == INSTANCE ConversationIds

ASSUME PartsAssumption ==
    /\ R!SchemasAssumption /\ W!DeliveriesAssumption /\ S!StartupAssumption
    /\ O!RouterAssumption /\ I!WidthAssumption

redactionVars    == <<schema, step, caller, todo, top, hasAny, walk>>
webhookVars      == <<pc, handlerMu, selfMu, handlerResolved, selfResolved, selfId, failed,
                      delivery, status, dispatched>>
startupVars      == <<stage, world, source, text, cfg, registry>>
routerVars       == <<built, commands, cardActions, keywords, cardDefault, llmHandler,
                      engines, routed, calls>>
conversationVars == <<users, conv>>
vars == <<redactionVars, webhookVars, startupVars, routerVars, conversationVars>>

TypeOK == R!TypeOK /\ W!TypeOK /\ S!TypeOK /\ O!TypeOK

Init == R!Init /\ W!Init /\ S!Init /\ O!Init /\ I!Init

\* Has a part not begun?
NoRedaction    == schema = NoSchema
NoWebhook      == \A c \in W!Callers : pc[c] = "idle"
NoStartup      == stage = "none"
NoRouter       == ~built /\ calls = <<>>
NoConversation == users = <<>>

RedactionStep ==
    /\ NoWebhook /\ NoStartup /\ NoRouter /\ NoConversation
    /\ R!Next
    /\ UNCHANGED <<webhookVars, startupVars, routerVars, conversationVars>>
WebhookStep ==
    /\ NoRedaction /\ NoStartup /\ NoRouter /\ NoConversation
    /\ W!Next
    /\ UNCHANGED <<redactionVars, startupVars, routerVars, conversationVars>>
StartupStep ==
    /\ NoRedaction /\ NoWebhook /\ NoRouter /\ NoConversation
    /\ S!Next
    /\ UNCHANGED <<redactionVars, webhookVars, routerVars, conversationVars>>
RouterStep ==
    /\ NoRedaction /\ NoWebhook /\ NoStartup /\ NoConversation
    /\ O!Next
    /\ UNCHANGED <<redactionVars, webhookVars, startupVars, conversationVars>>
ConversationStep ==
    /\ NoRedaction /\ NoWebhook /\ NoStartup /\ NoRouter
    /\ I!Next
    /\ UNCHANGED <<redactionVars, webhookVars, startupVars, routerVars>>

Next == RedactionStep \/ WebhookStep \/ StartupStep \/ RouterStep \/ ConversationStep

Spec == Init /\ [][Next]_vars /\ R!Fairness /\ W!Fairness

-----------------------------------------------------------------------------
\* Sensitive text is blanked wherever singular fields lead to it, if no
\* message type is recursive (nxproto/redact.go).
SensitiveMasked == R!SensitiveMasked

\* Nothing is cloned and searched in vain (MarshalRedactedBytes).
IndexSound == R!IndexSound

\* The scan of the message types ends (scanMessage).
ScanEnds == R!ScanEnds

\* The webhook drops the agent's own updates and no others (ServeHTTP).
FilteredExactly == W!FilteredExactly

\* The agent's ID is fetched by one caller at a time until it is known, and
\* never again (SelfUserID).
OneFetch == W!OneFetch

\* Every request to the webhook is answered (ServeHTTP).
RequestsAnswered == W!RequestsAnswered

\* Sources and layers of a configuration take precedence as documented, and
\* none is skipped that cannot be read (LoadFromFlags, LoadAs).
LayersInOrder == S!LayersInOrder

\* A program that is up has a provider for every model (NewRegistry).
EveryModelResolves == S!EveryModelResolves

\* Updates go where the documented priority sends them (Router.Handle).
RoutedByPriority == O!RoutedByPriority

\* A registration takes only updates it speaks of (RouterOption).
RegistrationsLocal == O!RegistrationsLocal

\* The ID of a conversation says whose it is (nxutil/convid.go).
IdsFaithful == I!IdsFaithful
=============================================================================
