----------------------------- MODULE Redaction -----------------------------
(***************************************************************************)
(* nxproto/redact.go: which message types need redaction, found out by one *)
(* depth-first scan of all registered types, and what a walk over a        *)
(* message then blanks when it is logged.  The recursion of scanMessage is *)
(* explicit: step, caller and todo are its stack frames, and top is the    *)
(* type whose frame is on top.  A schema says of each type                 *)
(*   one      the types of its singular message fields,                    *)
(*   many     the types of its repeated and map fields,                    *)
(*   nested   the types declared inside it,                                *)
(* and which types have a sensitive field, of singular string kind         *)
(* (strings) or of another (others).  What is in others is never blanked;  *)
(* if it is a list of strings, redactFields takes it for a string, and     *)
(* setting it panics.  A message that is logged without it, the list being *)
(* empty, is walked as below; of one that panics nothing is logged, so no  *)
(* walk is added for it.                                                   *)
(***************************************************************************)
EXTENDS Naturals

CONSTANTS Types,    \* message types
          Schemas,  \* what the generated code may register
          NoSchema, NoType

SchemasAssumption ==
    /\ Schemas \subseteq [one : [Types -> SUBSET Types], many : [Types -> SUBSET Types],
                          nested : [Types -> SUBSET Types],
                          strings : SUBSET Types, others : SUBSET Types]
    /\ NoSchema \notin Schemas /\ NoType \notin Types

VARIABLES
    schema,   \* the registry
    step,     \* how far the scan of each type is
    caller,   \* the type whose scan entered it
    todo,     \* the types its frame has yet to visit
    top,      \* the frame on top of the stack
    hasAny,   \* the index: has the type anything to redact?
    walk      \* a place in a message that is being logged

vars == <<schema, step, caller, todo, top, hasAny, walk>>

NoWalk == [at |-> NoType, masked |-> FALSE, listed |-> FALSE]

TypeOK ==
    /\ schema = NoSchema \/ schema \in Schemas
    /\ step \in [Types -> {"unseen", "fields", "nested", "done"}]
    /\ caller \in [Types -> Types \cup {NoType}]
    /\ todo \in [Types -> SUBSET Types]
    /\ top \in Types \cup {NoType}
    /\ hasAny \in [Types -> BOOLEAN]
    /\ walk \in [at : Types \cup {NoType}, masked : BOOLEAN, listed : BOOLEAN]

Init ==
    /\ schema = NoSchema
    /\ step = [t \in Types |-> "unseen"]
    /\ caller = [t \in Types |-> NoType]
    /\ todo = [t \in Types |-> {}]
    /\ top = NoType
    /\ hasAny = [t \in Types |-> FALSE]
    /\ walk = NoWalk

\* The files of the generated code are registered before main begins.
Register(s) ==
    /\ schema = NoSchema
    /\ schema' = s
    /\ UNCHANGED <<step, caller, todo, top, hasAny, walk>>

-----------------------------------------------------------------------------
\* scanMessage

Fields(t) == schema.one[t] \cup schema.many[t]
Sensitive == schema.strings \cup schema.others
\* A bug: a type counts as visited when its scan has ended.
VisitedDone(t) == step[t] = "done"

Visited(t) == step[t] # "unseen"

\* Bugs: only the type's own fields; lists and maps as well.
HasAnyOwn(t) == t \in Sensitive
HasAnyListed(t) == t \in Sensitive \/ \E c \in Fields(t) : hasAny[c]

\* What hasAny says of a type: it reads the entries of the singular message
\* fields as they are at this moment, and a list or a map counts for nothing.
HasAny(t) == t \in Sensitive \/ \E c \in schema.one[t] : hasAny[c]

\* A frame for t; the rest of todo is what its caller still has to visit.
Enter(t, from, rest) ==
    /\ step' = [step EXCEPT ![t] = "fields"]
    /\ caller' = [caller EXCEPT ![t] = from]
    /\ todo' = [rest EXCEPT ![t] = Fields(t)]
    /\ top' = t
    /\ UNCHANGED <<schema, hasAny, walk>>

\* The loops over the registered files and the types at their top level.
ScanFile(t) ==
    /\ schema # NoSchema /\ top = NoType
    /\ \A p \in Types : t \notin schema.nested[p]
    /\ ~Visited(t)
    /\ Enter(t, NoType, todo)

Rest(c) == [todo EXCEPT ![top] = @ \ {c}]

\* A recursive call: it returns at once from a type that was visited, also
\* from one whose scan has not ended.
Return(c) ==
    /\ top # NoType /\ c \in todo[top] /\ Visited(c)
    /\ todo' = Rest(c)
    /\ UNCHANGED <<schema, step, caller, top, hasAny, walk>>

Call(c) ==
    /\ top # NoType /\ c \in todo[top] /\ ~Visited(c)
    /\ Enter(c, top, Rest(c))

\* The fields are done: the entry is made, and the nested types follow.
Conclude ==
    /\ top # NoType /\ step[top] = "fields" /\ todo[top] = {}
    /\ hasAny' = [hasAny EXCEPT ![top] = HasAny(top)]
    /\ step' = [step EXCEPT ![top] = "nested"]
    /\ todo' = [todo EXCEPT ![top] = schema.nested[top]]
    /\ UNCHANGED <<schema, caller, top, walk>>

Leave ==
    /\ top # NoType /\ step[top] = "nested" /\ todo[top] = {}
    /\ step' = [step EXCEPT ![top] = "done"]
    /\ top' = caller[top]
    /\ UNCHANGED <<schema, caller, todo, hasAny, walk>>

-----------------------------------------------------------------------------
\* MarshalRedactedBytes and redactFields, followed along one path of fields:
\* masked says that redactFields is called on the message at its end, listed
\* that the path leads through a list or a map.

\* SensitiveIdx blocks every caller until the one scan has ended.
Indexed == schema # NoSchema /\ \A t \in Types : step[t] = "done"

Log(t) ==
    /\ Indexed
    /\ walk' = [at |-> t, masked |-> hasAny[t], listed |-> FALSE]
    /\ UNCHANGED <<schema, step, caller, todo, top, hasAny>>

Into(c) ==
    /\ walk.at # NoType /\ c \in schema.one[walk.at]
    /\ walk' = [at |-> c, masked |-> walk.masked /\ hasAny[c], listed |-> walk.listed]
    /\ UNCHANGED <<schema, step, caller, todo, top, hasAny>>

IntoMany(c) ==
    /\ walk.at # NoType /\ c \in schema.many[walk.at]
    /\ walk' = [at |-> c, masked |-> FALSE, listed |-> TRUE]
    /\ UNCHANGED <<schema, step, caller, todo, top, hasAny>>

Scan == Conclude \/ Leave \/ \E t \in Types : ScanFile(t) \/ Return(t) \/ Call(t)
Walk == \E t \in Types : Log(t) \/ Into(t) \/ IntoMany(t)
Next == (\E s \in Schemas : Register(s)) \/ Scan \/ Walk

\* The goroutine that scans runs.
Fairness == WF_vars(Scan)

Spec == Init /\ [][Next]_vars /\ Fairness

-----------------------------------------------------------------------------
Children(t) == Fields(t) \cup schema.nested[t]

\* No type leads back to itself through fields and nested declarations.
Acyclic ==
    \A S \in SUBSET Types : S # {} => \E t \in S : Children(t) \cap S = {}

\* Sensitive text is blanked wherever it is reached through singular fields,
\* provided no type is recursive: the scan reads an entry of the index only
\* when it is final.  (A list or a map hides what is in it, and of a recursive
\* type the entry may be read before it is made: see the README.)
SensitiveMasked ==
    schema # NoSchema /\ Acyclic /\ walk.at \in schema.strings /\ ~walk.listed
        => walk.masked

\* Nothing is cloned and searched in vain: an entry of the index is true only
\* for a type from which something sensitive is reached through singular
\* fields, so it is in every set that has the sensitive types and, with a
\* type, those that have a singular field of it.
IndexSound ==
    schema # NoSchema =>
        \A S \in SUBSET Types :
            (/\ Sensitive \subseteq S
             /\ \A t \in Types : schema.one[t] \cap S # {} => t \in S)
                => \A t \in Types : hasAny[t] => t \in S

\* The scan ends, also on recursive types, and nobody waits for the index
\* for ever.
ScanEnds == (schema # NoSchema) ~> Indexed
=============================================================================
