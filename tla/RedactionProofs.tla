--------------------------- MODULE RedactionProofs ---------------------------
(***************************************************************************)
(* Redaction, for any message types and any schemas: what is sensitive is  *)
(* blanked along every path of singular fields if no type is recursive,    *)
(* the index names no type in vain, and the scan that builds it goes on to *)
(* the last type.                                                          *)
(***************************************************************************)
EXTENDS Redaction, TLAPS

Active(t) == step[t] \in {"fields", "nested"}
HasEntry(t) == step[t] \in {"nested", "done"}

\* Before the registry is filled nothing happens.
Unregistered ==
    schema = NoSchema =>
        /\ top = NoType
        /\ \A t \in Types : step[t] = "unseen" /\ todo[t] = {} /\ ~hasAny[t]

\* A frame below the top is there because a child of its type has a frame.
CalleesActive ==
    \A t \in Types : Active(t) /\ t # top =>
        \E c \in Children(t) : c \in Types /\ Active(c) /\ caller[c] = t

TodoKnown == schema # NoSchema => \A t \in Types : todo[t] \subseteq Children(t)

FieldsVisited ==
    schema # NoSchema =>
        \A t \in Types : step[t] = "fields" =>
            \A c \in schema.one[t] : c \in todo[t] \/ Visited(c)

\* An entry that says no is final.
QuietClosed ==
    schema # NoSchema /\ Acyclic =>
        \A t \in Types : HasEntry(t) /\ ~hasAny[t] =>
            /\ t \notin Sensitive
            /\ \A c \in schema.one[t] : HasEntry(c) /\ ~hasAny[c]

WalkQuiet ==
    walk.at # NoType =>
        /\ \A t \in Types : step[t] = "done"
        /\ schema # NoSchema /\ Acyclic /\ ~walk.listed /\ ~walk.masked => ~hasAny[walk.at]

RInv == /\ TypeOK /\ Unregistered /\ CalleesActive /\ TodoKnown /\ FieldsVisited
        /\ QuietClosed /\ WalkQuiet /\ IndexSound

-----------------------------------------------------------------------------
(* What a schema says. *)

LEMMA SchemaType ==
  ASSUME SchemasAssumption, NEW s \in Schemas
  PROVE  /\ s.one \in [Types -> SUBSET Types] /\ s.many \in [Types -> SUBSET Types]
         /\ s.nested \in [Types -> SUBSET Types]
         /\ s.strings \subseteq Types /\ s.others \subseteq Types
         /\ s # NoSchema
BY DEF SchemasAssumption

LEMMA ChildrenTypes ==
  ASSUME SchemasAssumption, TypeOK, schema # NoSchema, NEW t \in Types
  PROVE  /\ schema.one[t] \subseteq Fields(t) /\ Fields(t) \subseteq Types
         /\ Fields(t) \subseteq Children(t) /\ schema.nested[t] \subseteq Children(t)
         /\ Children(t) \subseteq Types
BY SchemaType DEF TypeOK, Fields, Children

-----------------------------------------------------------------------------
(* Types. *)

LEMMA TypeInit == SchemasAssumption /\ Init => TypeOK
BY DEF SchemasAssumption, Init, TypeOK, NoWalk

LEMMA TypeNext ==
  ASSUME SchemasAssumption, TypeOK, Unregistered, [Next]_vars
  PROVE  TypeOK'
<1> USE DEF TypeOK
<1>1. ASSUME NEW s \in Schemas, Register(s) PROVE TypeOK'
  BY <1>1 DEF Register
<1>2. ASSUME NEW t \in Types, ScanFile(t) PROVE TypeOK'
  BY <1>2, ChildrenTypes DEF ScanFile, Enter
<1>3. ASSUME NEW t \in Types, Return(t) PROVE TypeOK'
  BY <1>3 DEF Return, Rest
<1>4. ASSUME NEW t \in Types, Call(t) PROVE TypeOK'
  <2>1. schema # NoSchema /\ top \in Types
    BY <1>4 DEF Call, Unregistered
  <2>2. Rest(t) \in [Types -> SUBSET Types]
    BY <2>1 DEF Rest
  <2> QED BY <1>4, <2>1, <2>2, ChildrenTypes DEF Call, Enter
<1>5. CASE Conclude
  <2>1. schema # NoSchema /\ top \in Types
    BY <1>5 DEF Conclude, Unregistered
  <2>2. HasAny(top) \in BOOLEAN
    BY DEF HasAny
  <2>3. schema.nested[top] \subseteq Types
    BY <2>1, SchemaType
  <2> QED BY <1>5, <2>1, <2>2, <2>3 DEF Conclude
<1>6. CASE Leave
  BY <1>6 DEF Leave
<1>7. ASSUME NEW t \in Types, Log(t) \/ Into(t) \/ IntoMany(t) PROVE TypeOK'
  <2>1. hasAny[t] \in BOOLEAN /\ walk.masked \in BOOLEAN /\ walk.listed \in BOOLEAN
    OBVIOUS
  <2>2. (walk.masked /\ hasAny[t]) \in BOOLEAN
    OBVIOUS
  <2>3. walk' \in [at : Types \cup {NoType}, masked : BOOLEAN, listed : BOOLEAN]
    <3>1. CASE Log(t)
      BY <2>1, <3>1 DEF Log
    <3>2. CASE Into(t)
      <4> DEFINE masked == walk.masked /\ hasAny[t]
      <4>1. walk' = [at |-> t, masked |-> masked, listed |-> walk.listed]
        BY <3>2 DEF Into
      <4>2. masked \in BOOLEAN
        BY <2>2
      <4> HIDE DEF masked
      <4> QED BY <2>1, <4>1, <4>2
    <3>3. CASE IntoMany(t)
      BY <3>3 DEF IntoMany
    <3> QED BY <1>7, <3>1, <3>2, <3>3
  <2> QED BY <1>7, <2>3 DEF Log, Into, IntoMany
<1>8. CASE UNCHANGED vars
  BY <1>8 DEF vars
<1> QED BY <1>1, <1>2, <1>3, <1>4, <1>5, <1>6, <1>7, <1>8 DEF Next, Scan, Walk

-----------------------------------------------------------------------------
(* The stack. *)

\* Nothing but the scan touches it.
Still == UNCHANGED <<schema, step, caller, todo, top, hasAny>>

LEMMA StillNext ==
  ASSUME Unregistered, CalleesActive, TodoKnown, FieldsVisited, Still
  PROVE  (Unregistered /\ CalleesActive /\ TodoKnown /\ FieldsVisited)'
BY DEF Still, Unregistered, CalleesActive, TodoKnown, FieldsVisited, Active, Children, Fields,
       Visited

LEMMA RegisterNext ==
  ASSUME SchemasAssumption, TypeOK, Unregistered, NEW s \in Schemas, Register(s)
  PROVE  (Unregistered /\ CalleesActive /\ TodoKnown /\ FieldsVisited)'
<1>1. \A t \in Types : step'[t] = "unseen" /\ todo'[t] = {}
  BY DEF Register, Unregistered
<1>2. schema' # NoSchema
  BY SchemaType DEF Register
<1> QED BY <1>1, <1>2 DEF Unregistered, CalleesActive, TodoKnown, FieldsVisited, Active

\* A frame for c, the other frames being left as they are.
LEMMA EnterNext ==
  ASSUME SchemasAssumption, TypeOK, CalleesActive, TodoKnown, FieldsVisited,
         schema # NoSchema, NEW c \in Types, ~Visited(c),
         NEW rest \in [Types -> SUBSET Types],
         \A t \in Types : rest[t] = todo[t] \/ (t = top /\ rest[t] = todo[t] \ {c}),
         top # NoType => c \in todo[top],
         Enter(c, top, rest)
  PROVE  (Unregistered /\ CalleesActive /\ TodoKnown /\ FieldsVisited)'
<1> USE DEF TypeOK, Enter
<1>1. /\ \A t \in Types : t # c => step'[t] = step[t] /\ caller'[t] = caller[t]
      /\ \A t \in Types : t # c => todo'[t] = rest[t]
      /\ step'[c] = "fields" /\ caller'[c] = top /\ todo'[c] = Fields(c)
      /\ schema' = schema /\ top' = c
  BY ChildrenTypes
<1>2. Unregistered'
  BY <1>1 DEF Unregistered
<1>3. TodoKnown'
  BY <1>1, ChildrenTypes DEF TodoKnown, Children, Fields
<1>4. FieldsVisited'
  <2> SUFFICES ASSUME NEW t \in Types, step'[t] = "fields", NEW d \in schema.one[t]
               PROVE  d \in todo'[t] \/ step'[d] # "unseen"
    BY <1>1 DEF FieldsVisited, Visited
  <2>1. d \in Types /\ (t = c => d \in Fields(c))
    BY ChildrenTypes
  <2> QED BY <1>1, <2>1 DEF FieldsVisited, Visited
<1>5. CalleesActive'
  <2> SUFFICES ASSUME NEW t \in Types, step'[t] \in {"fields", "nested"}, t # c
               PROVE  \E d \in Children(t) :
                        d \in Types /\ step'[d] \in {"fields", "nested"} /\ caller'[d] = t
    BY <1>1 DEF CalleesActive, Active, Children, Fields
  <2>1. CASE t = top
    <3>1. top # NoType /\ c \in Children(t)
      BY <2>1 DEF TodoKnown, SchemasAssumption
    <3> QED BY <1>1, <2>1, <3>1
  <2>2. CASE t # top
    <3>1. PICK d \in Children(t) : d \in Types /\ Active(d) /\ caller[d] = t
      BY <1>1, <2>2 DEF CalleesActive, Active
    <3> QED BY <1>1, <3>1 DEF Active, Visited
  <2> QED BY <2>1, <2>2
<1> QED BY <1>2, <1>3, <1>4, <1>5

LEMMA ReturnNext ==
  ASSUME SchemasAssumption, TypeOK, Unregistered, CalleesActive, TodoKnown, FieldsVisited,
         NEW c \in Types, Return(c)
  PROVE  (Unregistered /\ CalleesActive /\ TodoKnown /\ FieldsVisited)'
<1> USE DEF TypeOK, Return
<1>1. schema # NoSchema /\ top \in Types
  BY DEF Unregistered
<1>2. /\ todo'[top] = todo[top] \ {c}
      /\ \A t \in Types : t # top => todo'[t] = todo[t]
  BY <1>1 DEF Rest
<1>3. Unregistered' /\ CalleesActive'
  BY <1>1 DEF Unregistered, CalleesActive, Active, Children, Fields
<1>4. TodoKnown'
  BY <1>1, <1>2 DEF TodoKnown, Children, Fields
<1>5. FieldsVisited'
  BY <1>1, <1>2 DEF FieldsVisited, Visited
<1> QED BY <1>3, <1>4, <1>5

LEMMA ConcludeNext ==
  ASSUME SchemasAssumption, TypeOK, Unregistered, CalleesActive, TodoKnown, FieldsVisited,
         Conclude
  PROVE  (Unregistered /\ CalleesActive /\ TodoKnown /\ FieldsVisited)'
<1> USE DEF TypeOK, Conclude
<1>1. schema # NoSchema /\ top \in Types
  BY DEF Unregistered
<1>2. /\ todo'[top] = schema.nested[top] /\ step'[top] = "nested"
      /\ \A t \in Types : t # top => todo'[t] = todo[t] /\ step'[t] = step[t]
      /\ schema' = schema /\ top' = top /\ caller' = caller
  BY <1>1
<1>3. Unregistered'
  BY <1>1, <1>2 DEF Unregistered
<1>4. CalleesActive'
  BY <1>2 DEF CalleesActive, Active, Children, Fields
<1>5. TodoKnown'
  BY <1>1, <1>2, ChildrenTypes DEF TodoKnown, Children, Fields
<1>6. FieldsVisited'
  BY <1>1, <1>2 DEF FieldsVisited, Visited
<1> QED BY <1>3, <1>4, <1>5, <1>6

LEMMA LeaveNext ==
  ASSUME SchemasAssumption, TypeOK, Unregistered, CalleesActive, TodoKnown, FieldsVisited,
         Leave
  PROVE  (Unregistered /\ CalleesActive /\ TodoKnown /\ FieldsVisited)'
<1> USE DEF TypeOK, Leave
<1>1. schema # NoSchema /\ top \in Types
  BY DEF Unregistered
<1>2. /\ step'[top] = "done"
      /\ \A t \in Types : t # top => step'[t] = step[t]
      /\ schema' = schema /\ top' = caller[top] /\ caller' = caller /\ todo' = todo
  BY <1>1
<1>3. Unregistered'
  BY <1>1, <1>2 DEF Unregistered
<1>4. CalleesActive'
  <2> SUFFICES ASSUME NEW t \in Types, step'[t] \in {"fields", "nested"}, t # caller[top]
               PROVE  \E d \in Children(t) :
                        d \in Types /\ step'[d] \in {"fields", "nested"} /\ caller[d] = t
    BY <1>2 DEF CalleesActive, Active, Children, Fields
  <2>1. PICK d \in Children(t) : d \in Types /\ Active(d) /\ caller[d] = t
    BY <1>2 DEF CalleesActive, Active
  <2> QED BY <1>2, <2>1 DEF Active
<1>5. TodoKnown'
  BY <1>2 DEF TodoKnown, Children, Fields
<1>6. FieldsVisited'
  BY <1>1, <1>2 DEF FieldsVisited, Visited
<1> QED BY <1>3, <1>4, <1>5, <1>6

LEMMA StackNext ==
  ASSUME SchemasAssumption, TypeOK, Unregistered, CalleesActive, TodoKnown, FieldsVisited,
         [Next]_vars
  PROVE  (Unregistered /\ CalleesActive /\ TodoKnown /\ FieldsVisited)'
<1> DEFINE Goal == (Unregistered /\ CalleesActive /\ TodoKnown /\ FieldsVisited)'
<1>1. ASSUME NEW s \in Schemas, Register(s) PROVE Goal
  BY <1>1, RegisterNext
<1>2. ASSUME NEW t \in Types, ScanFile(t) PROVE Goal
  <2>1. schema # NoSchema /\ top = NoType /\ ~Visited(t) /\ Enter(t, top, todo)
    BY <1>2 DEF ScanFile
  <2>2. todo \in [Types -> SUBSET Types]
    BY DEF TypeOK
  <2> QED BY <2>1, <2>2, EnterNext
<1>3. ASSUME NEW t \in Types, Return(t) PROVE Goal
  BY <1>3, ReturnNext
<1>4. ASSUME NEW t \in Types, Call(t) PROVE Goal
  <2>1. schema # NoSchema /\ top \in Types
    BY <1>4 DEF Call, Unregistered, TypeOK
  <2>2. /\ Rest(t) \in [Types -> SUBSET Types]
        /\ \A x \in Types : Rest(t)[x] = todo[x] \/ (x = top /\ Rest(t)[x] = todo[x] \ {t})
    BY <2>1 DEF Rest, TypeOK
  <2>3. ~Visited(t) /\ t \in todo[top] /\ Enter(t, top, Rest(t))
    BY <1>4 DEF Call
  <2> QED BY <2>1, <2>2, <2>3, EnterNext
<1>5. CASE Conclude
  BY <1>5, ConcludeNext
<1>6. CASE Leave
  BY <1>6, LeaveNext
<1>7. ASSUME NEW t \in Types, Log(t) \/ Into(t) \/ IntoMany(t) PROVE Goal
  <2>1. Still
    BY <1>7 DEF Log, Into, IntoMany, Still
  <2> QED BY <2>1, StillNext
<1>8. CASE UNCHANGED vars
  <2>1. Still
    BY <1>8 DEF vars, Still
  <2> QED BY <2>1, StillNext
<1> QED BY <1>1, <1>2, <1>3, <1>4, <1>5, <1>6, <1>7, <1>8 DEF Next, Scan, Walk

-----------------------------------------------------------------------------
(* The index. *)

\* When the entry of a type is made, those of its fields have been: a type on
\* the stack would lead back to the top.
LEMMA FieldsHaveEntries ==
  ASSUME SchemasAssumption, TypeOK, CalleesActive, FieldsVisited, schema # NoSchema, Acyclic,
         Conclude
  PROVE  \A c \in schema.one[top] : HasEntry(c)
<1> SUFFICES ASSUME NEW c \in schema.one[top], ~HasEntry(c) PROVE FALSE
  OBVIOUS
<1>1. top \in Types /\ c \in Types /\ c \in Children(top)
  BY ChildrenTypes DEF Conclude, TypeOK
<1>2. step[c] = "fields"
  BY <1>1 DEF Conclude, FieldsVisited, Visited, HasEntry, TypeOK
<1> DEFINE S == {x \in Types : Active(x)}
<1>3. c \in S
  BY <1>1, <1>2 DEF Active
<1>4. PICK x \in S : Children(x) \cap S = {}
  <2>1. S \in SUBSET Types /\ S # {}
    BY <1>3
  <2> HIDE DEF S
  <2> QED BY <2>1 DEF Acyclic
<1>5. x = top
  BY <1>4 DEF CalleesActive
<1> QED BY <1>1, <1>3, <1>4, <1>5

LEMMA QuietNext ==
  ASSUME SchemasAssumption, TypeOK, Unregistered, CalleesActive, FieldsVisited, QuietClosed,
         [Next]_vars
  PROVE  QuietClosed'
<1> USE DEF HasEntry
<1>1. ASSUME NEW s \in Schemas, Register(s) PROVE QuietClosed'
  BY <1>1 DEF Register, Unregistered, QuietClosed
<1>2. ASSUME NEW t \in Types, ScanFile(t) \/ Call(t) PROVE QuietClosed'
  <2>1. schema # NoSchema /\ schema' = schema /\ hasAny' = hasAny
    BY <1>2 DEF ScanFile, Call, Enter, Unregistered
  <2>2. \A x \in Types : HasEntry(x)' <=> HasEntry(x)
    BY <1>2 DEF ScanFile, Call, Enter, Visited, TypeOK
  <2>3. \A x \in Types : schema.one[x] \subseteq Types
    BY <2>1, SchemaType DEF TypeOK
  <2> QED BY <2>1, <2>2, <2>3 DEF QuietClosed, Acyclic, Children, Fields, Sensitive
<1>3. CASE Conclude
  <2> SUFFICES ASSUME schema # NoSchema, Acyclic,
                      NEW t \in Types, HasEntry(t)', ~hasAny'[t]
               PROVE  /\ t \notin Sensitive
                      /\ \A c \in schema.one[t] : HasEntry(c)' /\ ~hasAny'[c]
    BY <1>3 DEF Conclude, QuietClosed, Acyclic, Children, Fields, Sensitive
  <2>1. top \in Types /\ step[top] = "fields"
    BY <1>3 DEF Conclude, TypeOK
  <2>2. /\ hasAny'[top] = HasAny(top) /\ step'[top] = "nested"
        /\ \A x \in Types : x # top => hasAny'[x] = hasAny[x] /\ step'[x] = step[x]
    BY <1>3, <2>1 DEF Conclude, TypeOK
  <2>3. schema.one[t] \subseteq Types
    BY SchemaType DEF TypeOK
  <2>4. CASE t = top
    <3>1. \A c \in schema.one[top] : HasEntry(c)
      BY <1>3, FieldsHaveEntries
    <3>2. t \notin Sensitive /\ \A c \in schema.one[top] : ~hasAny[c]
      BY <2>2, <2>4 DEF HasAny
    <3> QED BY <2>1, <2>2, <2>3, <2>4, <3>1, <3>2
  <2>5. CASE t # top
    <3>1. t \notin Sensitive /\ \A c \in schema.one[t] : HasEntry(c) /\ ~hasAny[c]
      BY <2>2, <2>5 DEF QuietClosed
    <3> QED BY <2>1, <2>2, <2>3, <3>1
  <2> QED BY <2>4, <2>5
<1>4. CASE Leave
  <2>1. schema' = schema /\ hasAny' = hasAny
    BY <1>4 DEF Leave
  <2>2. \A x \in Types : HasEntry(x)' <=> HasEntry(x)
    BY <1>4 DEF Leave, TypeOK
  <2>3. schema # NoSchema => \A x \in Types : schema.one[x] \subseteq Types
    BY SchemaType DEF TypeOK
  <2> QED BY <2>1, <2>2, <2>3 DEF QuietClosed, Acyclic, Children, Fields, Sensitive
<1>5. ASSUME NEW t \in Types, Return(t) \/ Log(t) \/ Into(t) \/ IntoMany(t) PROVE QuietClosed'
  <2>1. schema' = schema /\ hasAny' = hasAny /\ step' = step
    BY <1>5 DEF Return, Log, Into, IntoMany
  <2> QED BY <2>1 DEF QuietClosed, Acyclic, Children, Fields, Sensitive
<1>6. CASE UNCHANGED vars
  BY <1>6 DEF vars, QuietClosed, Acyclic, Children, Fields, Sensitive
<1> QED BY <1>1, <1>2, <1>3, <1>4, <1>5, <1>6 DEF Next, Scan, Walk

LEMMA SoundNext ==
  ASSUME SchemasAssumption, TypeOK, Unregistered, IndexSound, [Next]_vars
  PROVE  IndexSound'
<1>1. CASE Conclude
  <2> SUFFICES ASSUME schema # NoSchema, NEW S \in SUBSET Types, Sensitive \subseteq S,
                      \A x \in Types : schema.one[x] \cap S # {} => x \in S,
                      NEW t \in Types, hasAny'[t]
               PROVE  t \in S
    BY <1>1 DEF Conclude, IndexSound, Sensitive
  <2>1. top \in Types /\ hasAny'[top] = HasAny(top) /\ (t # top => hasAny'[t] = hasAny[t])
    BY <1>1 DEF Conclude, TypeOK
  <2>2. \A x \in Types : hasAny[x] => x \in S
    BY DEF IndexSound
  <2>3. schema.one[top] \subseteq Types
    BY <2>1, SchemaType DEF TypeOK
  <2> QED BY <2>1, <2>2, <2>3 DEF HasAny
<1>2. ASSUME NEW s \in Schemas, Register(s) PROVE IndexSound'
  BY <1>2 DEF Register, Unregistered, IndexSound
<1>3. CASE UNCHANGED <<schema, hasAny>>
  BY <1>3 DEF IndexSound, Sensitive
<1>4. (Scan \/ Walk) /\ ~Conclude => UNCHANGED <<schema, hasAny>>
  BY DEF Scan, Walk, ScanFile, Return, Call, Enter, Leave, Log, Into, IntoMany
<1> QED BY <1>1, <1>2, <1>3, <1>4 DEF Next, vars

-----------------------------------------------------------------------------
(* A walk over a message. *)

LEMMA WalkNext ==
  ASSUME SchemasAssumption, TypeOK, Unregistered, QuietClosed, WalkQuiet, [Next]_vars
  PROVE  WalkQuiet'
<1>1. ASSUME NEW s \in Schemas, Register(s) PROVE WalkQuiet'
  <2>1. walk.at = NoType
    BY <1>1 DEF Register, Unregistered, WalkQuiet, TypeOK
  <2> QED BY <1>1, <2>1 DEF Register, WalkQuiet
<1>2. CASE Scan
  <2>1. walk' = walk
    BY <1>2 DEF Scan, ScanFile, Return, Call, Enter, Conclude, Leave
  <2>2. CASE walk.at # NoType
    <3>1. \A t \in Types : step[t] = "done"
      BY <2>2 DEF WalkQuiet
    <3>2. UNCHANGED <<schema, step, hasAny>>
      BY <1>2, <3>1
         DEF Scan, ScanFile, Return, Call, Enter, Conclude, Leave, Visited, TypeOK
    <3> QED BY <2>1, <3>2 DEF WalkQuiet, Acyclic, Children, Fields
  <2> QED BY <2>1, <2>2 DEF WalkQuiet
<1>3. ASSUME NEW t \in Types, Log(t) PROVE WalkQuiet'
  BY <1>3 DEF Log, Indexed, WalkQuiet
<1>4. ASSUME NEW c \in Types, Into(c) PROVE WalkQuiet'
  <2>1. /\ walk'.at = c /\ walk'.listed = walk.listed
        /\ walk'.masked = (walk.masked /\ hasAny[c])
        /\ UNCHANGED <<schema, step, hasAny>>
    BY <1>4 DEF Into
  <2>2. walk.at \in Types /\ c \in schema.one[walk.at] /\ \A t \in Types : step[t] = "done"
    BY <1>4 DEF Into, WalkQuiet, TypeOK
  <2> SUFFICES ASSUME schema # NoSchema, Acyclic, ~walk.listed, ~(walk.masked /\ hasAny[c])
               PROVE  ~hasAny[c]
    BY <2>1, <2>2 DEF WalkQuiet, Acyclic, Children, Fields
  <2>3. ~walk.masked => ~hasAny[walk.at]
    BY <2>2 DEF WalkQuiet, TypeOK, SchemasAssumption
  <2>4. ~hasAny[walk.at] => ~hasAny[c]
    BY <2>2 DEF QuietClosed, HasEntry
  <2> QED BY <2>3, <2>4
<1>5. ASSUME NEW c \in Types, IntoMany(c) PROVE WalkQuiet'
  BY <1>5 DEF IntoMany, WalkQuiet
<1>6. CASE UNCHANGED vars
  BY <1>6 DEF vars, WalkQuiet, Acyclic, Children, Fields
<1> QED BY <1>1, <1>2, <1>3, <1>4, <1>5, <1>6 DEF Next, Walk

-----------------------------------------------------------------------------
(* The invariant. *)

LEMMA RInvInit == SchemasAssumption /\ Init => RInv
<1> SUFFICES ASSUME SchemasAssumption, Init PROVE RInv
  OBVIOUS
<1>1. \A t \in Types : step[t] = "unseen" /\ todo[t] = {} /\ hasAny[t] = FALSE
  BY DEF Init
<1> QED BY <1>1, TypeInit DEF Init, RInv, Unregistered, CalleesActive, TodoKnown, FieldsVisited,
           QuietClosed, WalkQuiet, IndexSound, Active, NoWalk

LEMMA RInvNext == SchemasAssumption /\ RInv /\ [Next]_vars => RInv'
BY TypeNext, StackNext, QuietNext, WalkNext, SoundNext DEF RInv

LEMMA RInvAlways == SchemasAssumption => (Init /\ [][Next]_vars => []RInv)
<1> SUFFICES ASSUME SchemasAssumption PROVE Init /\ [][Next]_vars => []RInv
  OBVIOUS
<1>1. Init => RInv
  BY RInvInit
<1>2. RInv /\ [Next]_vars => RInv'
  BY RInvNext
<1> QED BY <1>1, <1>2, PTL

LEMMA RInvMasks == SchemasAssumption /\ RInv => SensitiveMasked
<1> SUFFICES ASSUME SchemasAssumption, RInv, schema # NoSchema, Acyclic, walk.at \in schema.strings,
                    ~walk.listed, ~walk.masked
             PROVE  FALSE
  BY DEF SensitiveMasked
<1>1. walk.at \in Types /\ walk.at \in Sensitive
  BY SchemaType DEF RInv, TypeOK, Sensitive
<1>2. HasEntry(walk.at) /\ ~hasAny[walk.at]
  BY <1>1 DEF RInv, WalkQuiet, HasEntry, SchemasAssumption
<1> QED BY <1>1, <1>2 DEF RInv, QuietClosed

\* The variables have their types (Redaction).
THEOREM TypesCorrect == SchemasAssumption => (Spec => []TypeOK)
<1> SUFFICES ASSUME SchemasAssumption PROVE Spec => []TypeOK
  OBVIOUS
<1>1. RInv => TypeOK
  BY DEF RInv
<1>2. Init /\ [][Next]_vars => []RInv
  BY RInvAlways
<1> QED BY <1>1, <1>2, PTL DEF Spec

\* Along singular fields sensitive text is blanked, for any message types
\* without recursion, in whatever order they are scanned and nested.
THEOREM Masked == SchemasAssumption => (Spec => []SensitiveMasked)
<1> SUFFICES ASSUME SchemasAssumption PROVE Spec => []SensitiveMasked
  OBVIOUS
<1>1. RInv => SensitiveMasked
  BY RInvMasks
<1>2. Init /\ [][Next]_vars => []RInv
  BY RInvAlways
<1> QED BY <1>1, <1>2, PTL DEF Spec

\* The index is true only of types from which singular fields lead to
\* something sensitive, recursive or not.
THEOREM Sound == SchemasAssumption => (Spec => []IndexSound)
<1> SUFFICES ASSUME SchemasAssumption PROVE Spec => []IndexSound
  OBVIOUS
<1>1. RInv => IndexSound
  BY DEF RInv
<1>2. Init /\ [][Next]_vars => []RInv
  BY RInvAlways
<1> QED BY <1>1, <1>2, PTL DEF Spec

-----------------------------------------------------------------------------
(* The scan reaches every type, and then ends. *)

\* The callers lead from any set of frames, each of which is on top or has
\* called one of the set, to the top: there is one stack.
Grounded ==
    \A S \in SUBSET Types :
        /\ S # {} /\ \A t \in S : Active(t)
        /\ \A t \in S : t = top \/ \E c \in S : caller[c] = t
        => top \in S

StackInv ==
    /\ top # NoType => Active(top)
    /\ \A c \in Types : Active(c) =>
          /\ caller[c] # NoType => Active(caller[c])
          /\ caller[c] = top => top = NoType
          /\ \A d \in Types : Active(d) /\ caller[d] = caller[c] => c = d \/ caller[c] = NoType
    /\ Grounded

\* Of what is declared inside a type nothing is passed over, and no frame is
\* given up before its time.
NestedVisited ==
    schema # NoSchema =>
        \A t \in Types :
            /\ HasEntry(t) => \A c \in schema.nested[t] : c \in todo[t] \/ Visited(c)
            /\ step[t] = "done" => todo[t] = {}

ScanInv == RInv /\ StackInv /\ NestedVisited

\* Declarations do not lie inside each other in a circle: the full name of a
\* type is longer than the name of the one it is declared in.
NestingIsProper ==
    \A s \in Schemas : \A S \in SUBSET Types : S # {} =>
        \E t \in S : \A p \in S : t \notin s.nested[p]

\* Some step of the scan may be taken: there is a type left at the top level
\* of a file, or the frame on top has something to visit or to conclude.
CanScan ==
    \/ /\ top = NoType
       /\ \E t \in Types : ~Visited(t) /\ \A p \in Types : t \notin schema.nested[p]
    \/ top # NoType /\ \E c \in Types : c \in todo[top]
    \/ top # NoType /\ todo[top] = {} /\ step[top] \in {"fields", "nested"}

NeverStuck == schema # NoSchema /\ ~Indexed => CanScan

Rank(s) == CASE s = "unseen" -> 0 [] s = "fields" -> 1 [] s = "nested" -> 2 [] OTHER -> 3

\* A type is entered, given its entry or left, for good; or else a frame has
\* one type less to visit.
Advances ==
    /\ \A t \in Types : Rank(step[t]) <= Rank(step'[t])
    /\ \/ \E t \in Types : Rank(step[t]) < Rank(step'[t])
       \/ /\ top # NoType /\ top' = top
          /\ \E c \in todo[top] : todo' = [todo EXCEPT ![top] = @ \ {c}]

ScanAdvances == [][Scan => Advances]_vars

-----------------------------------------------------------------------------
LEMMA StackEnter ==
  ASSUME SchemasAssumption, TypeOK, StackInv, NEW c \in Types, ~Visited(c),
         NEW rest \in [Types -> SUBSET Types], Enter(c, top, rest)
  PROVE  StackInv'
<1>1. /\ \A t \in Types : t # c => step'[t] = step[t] /\ caller'[t] = caller[t]
      /\ step'[c] = "fields" /\ caller'[c] = top /\ top' = c
      /\ c \in Types /\ NoType \notin Types /\ top \in Types \cup {NoType}
      /\ \A t \in Types : caller[t] \in Types \cup {NoType}
  BY DEF Enter, TypeOK, SchemasAssumption
<1>2. ~Active(c) /\ c # top /\ c # NoType
  BY <1>1 DEF Active, Visited, StackInv
<1>3. \A t \in Types : t # c => (Active(t)' <=> Active(t))
  BY <1>1 DEF Active
<1>4. Active(c)'
  BY <1>1 DEF Active
<1>5. ASSUME NEW x \in Types, Active(x)'
      PROVE  /\ caller'[x] # NoType => step'[caller'[x]] \in {"fields", "nested"}
             /\ caller'[x] = top' => top' = NoType
  <2>1. CASE x = c
    BY <1>1, <1>2, <1>3, <2>1 DEF StackInv, Active
  <2>2. CASE x # c
    <3>1. Active(x) /\ caller'[x] = caller[x]
      BY <1>1, <1>3, <1>5, <2>2
    <3>2. caller[x] # NoType => Active(caller[x]) /\ caller[x] \in Types /\ caller[x] # c
      BY <1>1, <1>2, <3>1 DEF StackInv
    <3>3. caller[x] # NoType => step'[caller[x]] = step[caller[x]]
      BY <1>1, <3>2
    <3> QED BY <1>1, <1>2, <3>1, <3>2, <3>3 DEF Active
  <2> QED BY <2>1, <2>2
<1>6. ASSUME NEW x \in Types, Active(x)', NEW d \in Types, Active(d)', caller'[d] = caller'[x]
      PROVE  x = d \/ caller'[x] = NoType
  <2>1. CASE x = c /\ d # c
    <3>1. Active(d) /\ caller[d] = top
      BY <1>1, <1>3, <1>6, <2>1
    <3> QED BY <1>1, <2>1, <3>1 DEF StackInv
  <2>2. CASE d = c /\ x # c
    <3>1. Active(x) /\ caller[x] = top
      BY <1>1, <1>3, <1>6, <2>2
    <3> QED BY <1>1, <2>2, <3>1 DEF StackInv
  <2>3. CASE x # c /\ d # c
    <3>1. Active(x) /\ Active(d) /\ caller[d] = caller[x] /\ caller'[x] = caller[x]
      BY <1>1, <1>3, <1>6, <2>3
    <3> QED BY <3>1 DEF StackInv
  <2> QED BY <2>1, <2>2, <2>3
<1>7. Grounded'
  <2> SUFFICES ASSUME NEW S \in SUBSET Types, S # {}, \A t \in S : Active(t)',
                      \A t \in S : t = c \/ \E d \in S : caller'[d] = t, c \notin S
               PROVE  FALSE
    BY <1>1 DEF Grounded
  <2>1. \A t \in S : Active(t) /\ t # c /\ caller'[t] = caller[t]
    BY <1>1, <1>3
  <2>2. top \in S
    BY <2>1 DEF StackInv, Grounded
  <2>3. PICK d \in S : caller[d] = top
    BY <2>1, <2>2
  <2> QED BY <1>1, <2>1, <2>2, <2>3 DEF StackInv
<1> QED BY <1>1, <1>4, <1>5, <1>6, <1>7 DEF StackInv, Active

LEMMA StackLeave ==
  ASSUME SchemasAssumption, TypeOK, StackInv, Leave
  PROVE  StackInv'
<1>1. /\ top \in Types /\ NoType \notin Types /\ Active(top)
      /\ step'[top] = "done" /\ \A t \in Types : t # top => step'[t] = step[t]
      /\ top' = caller[top] /\ caller' = caller
      /\ \A t \in Types : caller[t] \in Types \cup {NoType}
  BY DEF Leave, TypeOK, SchemasAssumption, StackInv
<1>2. \A t \in Types : t # top => (Active(t)' <=> Active(t))
  BY <1>1 DEF Active
<1>3. \A t \in Types : Active(t)' => Active(t) /\ t # top
  BY <1>1 DEF Active
<1>4. \A t \in Types : Active(t) => caller[t] # top
  BY <1>1 DEF StackInv
<1>5. \A t \in Types : Active(t) /\ caller[t] # NoType =>
         step'[caller[t]] \in {"fields", "nested"} /\ caller[t] \in Types
  <2> SUFFICES ASSUME NEW t \in Types, Active(t), caller[t] # NoType
               PROVE  step'[caller[t]] \in {"fields", "nested"} /\ caller[t] \in Types
    OBVIOUS
  <2>1. caller[t] \in Types /\ caller[t] # top /\ Active(caller[t])
    BY <1>1, <1>4 DEF StackInv
  <2> QED BY <1>1, <2>1 DEF Active
<1>6. top' # NoType => step'[top'] \in {"fields", "nested"}
  <2> SUFFICES ASSUME caller[top] # NoType PROVE step'[caller[top]] \in {"fields", "nested"}
    BY <1>1 DEF Active
  <2> QED BY <1>1, <1>5 DEF Active
<1>7. ASSUME NEW x \in Types, Active(x)'
      PROVE  /\ caller'[x] # NoType => step'[caller'[x]] \in {"fields", "nested"}
             /\ caller'[x] = top' => top' = NoType
  <2>1. Active(x) /\ x # top
    BY <1>3, <1>7
  <2>2. caller'[x] # NoType => step'[caller'[x]] \in {"fields", "nested"}
    <3>1. caller[x] # NoType => step'[caller[x]] \in {"fields", "nested"}
      BY <1>5, <2>1 DEF Active
    <3> QED BY <1>1, <3>1 DEF Active
  <2>3. caller[x] = caller[top] => caller[top] = NoType
    BY <1>1, <2>1 DEF StackInv
  <2> QED BY <1>1, <2>2, <2>3
<1>8. ASSUME NEW x \in Types, Active(x)', NEW d \in Types, Active(d)', caller'[d] = caller'[x]
      PROVE  x = d \/ caller'[x] = NoType
  BY <1>1, <1>3, <1>8 DEF StackInv
<1>9. Grounded'
  <2> SUFFICES ASSUME NEW S \in SUBSET Types, S # {}, \A t \in S : Active(t)',
                      \A t \in S : t = caller[top] \/ \E d \in S : caller[d] = t,
                      caller[top] \notin S
               PROVE  FALSE
    BY <1>1 DEF Grounded
  <2>1. \A t \in S : Active(t) /\ t # top /\ \E d \in S : caller[d] = t
    BY <1>3
  <2>2. top \in S
    BY <2>1 DEF StackInv, Grounded
  <2> QED BY <2>1, <2>2
<1> QED BY <1>6, <1>7, <1>8, <1>9 DEF StackInv, Active

\* What leaves the frames as they are leaves the stack as it is.
LEMMA StackKept ==
  ASSUME TypeOK, StackInv, UNCHANGED <<caller, top>>,
         \A t \in Types : step'[t] = step[t] \/ (Active(t) /\ step'[t] \in {"fields", "nested"})
  PROVE  StackInv'
<1>1. \A t \in Types : step'[t] \in {"fields", "nested"} <=> Active(t)
  BY DEF Active
<1>2. /\ top # NoType => top \in Types
      /\ \A c \in Types : caller[c] # NoType => caller[c] \in Types
  BY DEF TypeOK
<1> QED BY <1>1, <1>2 DEF StackInv, Grounded, Active

LEMMA NestedEnter ==
  ASSUME SchemasAssumption, TypeOK, NestedVisited, schema # NoSchema,
         NEW c \in Types, ~Visited(c),
         NEW rest \in [Types -> SUBSET Types],
         \A t \in Types : rest[t] = todo[t] \/ (t = top /\ rest[t] = todo[t] \ {c}),
         Enter(c, top, rest)
  PROVE  NestedVisited'
<1>1. /\ \A t \in Types : t # c => step'[t] = step[t] /\ todo'[t] = rest[t]
      /\ step'[c] = "fields" /\ schema' = schema
  BY DEF Enter, TypeOK
<1>2. \A t \in Types : schema.nested[t] \subseteq Types
  BY ChildrenTypes
<1>3. ASSUME NEW t \in Types, step'[t] \in {"nested", "done"}, NEW d \in schema.nested[t]
      PROVE  d \in todo'[t] \/ step'[d] # "unseen"
  <2>1. t # c /\ d \in Types /\ (d \in todo[t] \/ Visited(d))
    BY <1>1, <1>2, <1>3 DEF NestedVisited, HasEntry
  <2> QED BY <1>1, <2>1 DEF Visited
<1>4. ASSUME NEW t \in Types, step'[t] = "done" PROVE todo'[t] = {}
  BY <1>1, <1>4 DEF NestedVisited
<1> QED BY <1>1, <1>3, <1>4 DEF NestedVisited, HasEntry, Visited

LEMMA ScanInvNext ==
  ASSUME SchemasAssumption, RInv, StackInv, NestedVisited, [Next]_vars
  PROVE  StackInv' /\ NestedVisited'
<1> USE DEF RInv
<1>1. ASSUME NEW s \in Schemas, Register(s) PROVE StackInv' /\ NestedVisited'
  <2>1. StackInv'
    BY <1>1, StackKept DEF Register
  <2>2. \A t \in Types : step'[t] = "unseen"
    BY <1>1 DEF Register, Unregistered
  <2> QED BY <2>1, <2>2 DEF NestedVisited, HasEntry
<1>2. ASSUME NEW t \in Types, ScanFile(t) PROVE StackInv' /\ NestedVisited'
  <2>1. schema # NoSchema /\ top = NoType /\ ~Visited(t) /\ Enter(t, top, todo)
    BY <1>2 DEF ScanFile
  <2>2. todo \in [Types -> SUBSET Types]
    BY DEF TypeOK
  <2> QED BY <2>1, <2>2, StackEnter, NestedEnter
<1>3. ASSUME NEW c \in Types, Return(c) PROVE StackInv' /\ NestedVisited'
  <2>1. top \in Types /\ Visited(c) /\ UNCHANGED <<schema, step, caller, top>>
    BY <1>3 DEF Return, TypeOK
  <2>2. \A t \in Types : todo'[t] = todo[t] \/ todo'[t] = todo[t] \ {c}
    BY <1>3, <2>1 DEF Return, Rest, TypeOK
  <2>3. StackInv'
    BY <2>1, StackKept
  <2>4. NestedVisited'
    BY <2>1, <2>2 DEF NestedVisited, HasEntry, Visited
  <2> QED BY <2>3, <2>4
<1>4. ASSUME NEW c \in Types, Call(c) PROVE StackInv' /\ NestedVisited'
  <2>1. schema # NoSchema /\ top \in Types
    BY <1>4 DEF Call, Unregistered, TypeOK
  <2>2. /\ Rest(c) \in [Types -> SUBSET Types]
        /\ \A x \in Types : Rest(c)[x] = todo[x] \/ (x = top /\ Rest(c)[x] = todo[x] \ {c})
    BY <2>1 DEF Rest, TypeOK
  <2>3. ~Visited(c) /\ Enter(c, top, Rest(c))
    BY <1>4 DEF Call
  <2> QED BY <2>1, <2>2, <2>3, StackEnter, NestedEnter
<1>5. CASE Conclude
  <2>1. /\ top \in Types /\ step[top] = "fields" /\ step'[top] = "nested"
        /\ todo'[top] = schema.nested[top]
        /\ \A t \in Types : t # top => step'[t] = step[t] /\ todo'[t] = todo[t]
        /\ UNCHANGED <<schema, caller, top>>
    BY <1>5 DEF Conclude, TypeOK
  <2>2. \A t \in Types : step'[t] = step[t] \/ (Active(t) /\ step'[t] \in {"fields", "nested"})
    BY <2>1 DEF Active
  <2>3. StackInv'
    BY <2>1, <2>2, StackKept
  <2>4. \A d \in Types : Visited(d) => step'[d] # "unseen"
    BY <2>1 DEF Visited
  <2>5. NestedVisited'
    <3> SUFFICES ASSUME schema # NoSchema, NEW t \in Types
                 PROVE  /\ step'[t] \in {"nested", "done"} =>
                             \A c \in schema.nested[t] : c \in todo'[t] \/ step'[c] # "unseen"
                        /\ step'[t] = "done" => todo'[t] = {}
      BY <2>1 DEF NestedVisited, HasEntry, Visited
    <3>1. schema.nested[t] \subseteq Types
      BY ChildrenTypes
    <3> QED BY <2>1, <2>4, <3>1 DEF NestedVisited, HasEntry
  <2> QED BY <2>3, <2>5
<1>6. CASE Leave
  <2>1. /\ top \in Types /\ step[top] = "nested" /\ step'[top] = "done" /\ todo[top] = {}
        /\ \A t \in Types : t # top => step'[t] = step[t]
        /\ UNCHANGED <<schema, todo>>
    BY <1>6 DEF Leave, TypeOK
  <2>2. StackInv'
    BY <1>6, StackLeave
  <2>3. \A d \in Types : Visited(d) => step'[d] # "unseen"
    BY <2>1 DEF Visited
  <2>4. NestedVisited'
    <3> SUFFICES ASSUME schema # NoSchema, NEW t \in Types
                 PROVE  /\ step'[t] \in {"nested", "done"} =>
                             \A c \in schema.nested[t] : c \in todo[t] \/ step'[c] # "unseen"
                        /\ step'[t] = "done" => todo[t] = {}
      BY <2>1 DEF NestedVisited, HasEntry, Visited
    <3>1. schema.nested[t] \subseteq Types
      BY ChildrenTypes
    <3> QED BY <2>1, <2>3, <3>1 DEF NestedVisited, HasEntry
  <2> QED BY <2>2, <2>4
<1>7. ASSUME NEW t \in Types, Log(t) \/ Into(t) \/ IntoMany(t) PROVE StackInv' /\ NestedVisited'
  <2>1. Still
    BY <1>7 DEF Log, Into, IntoMany, Still
  <2> QED BY <2>1, StackKept DEF Still, NestedVisited, HasEntry, Visited
<1>8. CASE UNCHANGED vars
  BY <1>8, StackKept DEF vars, NestedVisited, HasEntry, Visited
<1> QED BY <1>1, <1>2, <1>3, <1>4, <1>5, <1>6, <1>7, <1>8 DEF Next, Scan, Walk

LEMMA ScanInvAlways == SchemasAssumption => (Init /\ [][Next]_vars => []ScanInv)
<1> SUFFICES ASSUME SchemasAssumption PROVE Init /\ [][Next]_vars => []ScanInv
  OBVIOUS
<1>1. Init => ScanInv
  <2> SUFFICES ASSUME Init PROVE ScanInv
    OBVIOUS
  <2>1. \A t \in Types : ~Active(t)
    BY DEF Init, Active
  <2>2. StackInv
    BY <2>1 DEF Init, StackInv, Grounded
  <2> QED BY <2>2, RInvInit DEF Init, ScanInv, NestedVisited
<1>2. ScanInv /\ [Next]_vars => ScanInv'
  BY RInvNext, ScanInvNext DEF ScanInv
<1> QED BY <1>1, <1>2, PTL

\* When the stack is empty, no frame is left.
LEMMA EmptyStack == SchemasAssumption /\ TypeOK /\ CalleesActive /\ StackInv /\ top = NoType
                      => \A t \in Types : ~Active(t)
<1> SUFFICES ASSUME SchemasAssumption, TypeOK, CalleesActive, StackInv, top = NoType,
                    NEW t \in Types, Active(t)
             PROVE  FALSE
  OBVIOUS
<1> DEFINE S == {x \in Types : Active(x)}
<1>1. S \in SUBSET Types /\ S # {} /\ \A x \in S : Active(x)
  OBVIOUS
<1>2. \A x \in S : x = top \/ \E c \in S : caller[c] = x
  BY DEF CalleesActive
<1> HIDE DEF S
<1>3. top \in S
  BY <1>1, <1>2 DEF StackInv, Grounded
<1> QED BY <1>1, <1>3 DEF SchemasAssumption

LEMMA ScanInvNeverStuck == SchemasAssumption /\ NestingIsProper /\ ScanInv => NeverStuck
<1> SUFFICES ASSUME SchemasAssumption, NestingIsProper, ScanInv, schema # NoSchema, ~Indexed
             PROVE  CanScan
  BY DEF NeverStuck
<1>1. TypeOK /\ CalleesActive /\ TodoKnown /\ StackInv /\ NestedVisited
  BY DEF ScanInv, RInv
<1>2. CASE top # NoType
  <2>1. top \in Types /\ todo[top] \subseteq Types
    BY <1>1, <1>2 DEF TypeOK
  <2>2. step[top] \in {"fields", "nested"}
    BY <1>1, <1>2 DEF StackInv, Active
  <2> QED BY <1>2, <2>1, <2>2 DEF CanScan
<1>3. CASE top = NoType
  <2> DEFINE U == {t \in Types : ~Visited(t)}
  <2>1. \A t \in Types : ~Active(t)
    BY <1>1, <1>3, EmptyStack
  <2>2. \A t \in Types : t \in U \/ step[t] = "done"
    BY <1>1, <2>1 DEF TypeOK, Active, Visited
  <2>3. U \in SUBSET Types /\ U # {}
    BY <2>2 DEF Indexed, Visited
  <2>4. schema \in Schemas
    BY <1>1 DEF TypeOK
  <2>5. \A t \in U : t \in Types /\ ~Visited(t)
    OBVIOUS
  <2> HIDE DEF U
  <2>6. PICK t \in U : \A p \in U : t \notin schema.nested[p]
    BY <2>3, <2>4 DEF NestingIsProper
  <2>7. ASSUME NEW p \in Types PROVE t \notin schema.nested[p]
    <3>1. CASE p \in U
      BY <2>6, <3>1
    <3>2. CASE step[p] = "done"
      BY <1>1, <2>5, <2>6, <3>2 DEF NestedVisited, HasEntry
    <3> QED BY <2>2, <3>1, <3>2
  <2> QED BY <1>3, <2>5, <2>6, <2>7 DEF CanScan
<1> QED BY <1>2, <1>3

\* Until every type has its entry some step of the scan may be taken, and a
\* type that is declared inside another is passed over no more than one that
\* is only a field: when the loops over the files end, the index is complete
\* (buildSensitiveIndex, scanMessage).
THEOREM ScanNeverStuck == SchemasAssumption /\ NestingIsProper => (Spec => []NeverStuck)
<1> SUFFICES ASSUME SchemasAssumption, NestingIsProper PROVE Spec => []NeverStuck
  OBVIOUS
<1>1. ScanInv => NeverStuck
  BY ScanInvNeverStuck
<1>2. Init /\ [][Next]_vars => []ScanInv
  BY ScanInvAlways
<1> QED BY <1>1, <1>2, PTL DEF Spec

LEMMA RanksGrow ==
  ASSUME SchemasAssumption, RInv, StackInv, Scan
  PROVE  Advances
<1> USE DEF RInv
<1>1. \A x \in Types : Rank(step[x]) <= Rank(step[x])
  BY DEF TypeOK, Rank
<1>2. ASSUME NEW c \in Types, ~Visited(c), NEW from, NEW rest, Enter(c, from, rest) PROVE Advances
  <2>1. /\ \A t \in Types : t # c => step'[t] = step[t]
        /\ step[c] = "unseen" /\ step'[c] = "fields"
    BY <1>2 DEF Enter, Visited, TypeOK
  <2>2. Rank(step[c]) < Rank(step'[c])
    BY <2>1 DEF Rank
  <2> QED BY <1>1, <2>1, <2>2 DEF Advances, Rank
<1>3. ASSUME NEW c \in Types, Return(c) PROVE Advances
  <2>1. step' = step /\ top' = top /\ top # NoType /\ c \in todo[top] /\ todo' = Rest(c)
    BY <1>3 DEF Return
  <2> QED BY <1>1, <2>1 DEF Advances, Rest
<1>4. ASSUME NEW t \in Types, step[t] = "fields" \/ step[t] = "nested",
             step' = [step EXCEPT ![t] = IF step[t] = "fields" THEN "nested" ELSE "done"]
      PROVE  Advances
  <2>1. /\ \A x \in Types : x # t => step'[x] = step[x]
        /\ step'[t] = IF step[t] = "fields" THEN "nested" ELSE "done"
    BY <1>4 DEF TypeOK
  <2>2. Rank(step[t]) < Rank(step'[t])
    BY <1>4, <2>1 DEF Rank
  <2> QED BY <1>1, <2>1, <2>2 DEF Advances, Rank
<1>5. CASE Conclude
  BY <1>4, <1>5 DEF Conclude, TypeOK
<1>6. CASE Leave
  BY <1>4, <1>6 DEF Leave, TypeOK
<1> QED BY <1>2, <1>3, <1>5, <1>6 DEF Scan, ScanFile, Call

\* Every step of the scan brings it nearer to its end, on recursive types as
\* well: no type is entered twice, none is given its entry or left twice, and
\* between such steps the frame on top has ever fewer types to visit.  There
\* being finitely many types, so many steps end it (scanMessage).
THEOREM ScanGoesForward == SchemasAssumption => (Spec => ScanAdvances)
<1> SUFFICES ASSUME SchemasAssumption PROVE Spec => ScanAdvances
  OBVIOUS
<1>1. ScanInv /\ [Next]_vars => [Scan => Advances]_vars
  BY RanksGrow DEF ScanInv
<1>2. Init /\ [][Next]_vars => []ScanInv
  BY ScanInvAlways
<1> QED BY <1>1, <1>2, PTL DEF Spec, ScanAdvances
=============================================================================
