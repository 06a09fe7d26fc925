------------------------------ MODULE MCParts ------------------------------
(* Instances of Parts for TLC. *)
EXTENDS Parts, TLC, FiniteSets

-----------------------------------------------------------------------------
\* Redaction: the graphs of singular fields over three types, one of which is
\* sensitive, and a list and a nested type in every place of a chain and a tree.
CONSTANTS a, b, c

None == [t \in Types |-> {}]
Chain == a :> {b} @@ b :> {c} @@ c :> {}

MCSchemas ==
    {[one |-> g, many |-> None, nested |-> None, strings |-> {c}, others |-> {}] :
        g \in {h \in [Types -> SUBSET Types] : h[c] \in {{}, {a}}}}
    \cup {[one |-> g, many |-> [None EXCEPT ![x] = {y}], nested |-> [None EXCEPT ![b] = n],
           strings |-> {s}, others |-> o] :
        g \in {Chain, a :> {b, c} @@ b :> {} @@ c :> {}}, x \in Types, y \in {a, c},
        n \in {{}, {c}}, s \in {a, c}, o \in {{}, {b}}}

-----------------------------------------------------------------------------
\* Webhook: the agent's own update, another's, one without a user, and each way
\* a request may be refused, at the edges of the drift.
CONSTANTS bob

OfBody(read, sig, drift, content) ==
    [read |-> read, signature |-> sig, drift |-> drift, content |-> content]

MCDeliveries ==
    {OfBody(TRUE, "valid", MaxDrift, Self), OfBody(TRUE, "valid", -MaxDrift, bob),
     OfBody(TRUE, "valid", 0, NoUser)}
    \cup {OfBody(FALSE, "valid", 0, bob), OfBody(TRUE, "missing", 0, bob),
          OfBody(TRUE, "invalid", 0, Self), OfBody(TRUE, "valid", -MaxDrift - 1, bob),
          OfBody(TRUE, "valid", MaxDrift + 1, bob),
          OfBody(TRUE, "valid", 0, "garbage"), OfBody(TRUE, "valid", 0, "noMessage")}

-----------------------------------------------------------------------------
\* Startup: three configurations that set different things, in files that are
\* there or not, can be read or not, and are written in JSON, YAML or neither.
CONSTANTS yml, json, port, v1, v2, openai, azure, own, fast

MCDefaultPaths == <<yml, json>>
MCHint == yml :> "yaml" @@ json :> "json" @@ own :> "auto"
MCDefault == port :> v2
MCNothing == [settings |-> port :> Zero, providers |-> <<>>, models |-> <<>>]

Full(v, p, t) ==
    [settings |-> port :> v, providers |-> p :> [type |-> t, key |-> v1],
     models |-> fast :> [provider |-> p, model |-> v1]]
OnlyPort(v) == [MCNothing EXCEPT !.settings = port :> v]
NewKey == [MCNothing EXCEPT !.providers = openai :> [type |-> Unset, key |-> v2]]
Dangling == [Full(v1, openai, Unset) EXCEPT !.models = fast :> [provider |-> azure, model |-> v1]]

File(syntax, config) == [state |-> "text", syntax |-> syntax, config |-> config]
Absent == [state |-> "absent", syntax |-> "neither", config |-> MCNothing]
Unreadable == [Absent EXCEPT !.state = "unreadable"]

Bases == {Absent, Unreadable, File("neither", MCNothing), File("yaml", Full(v1, openai, Unset)),
          File("json", Full(Zero, own, openai)), File("yaml", Full(Zero, own, Unset)),
          File("json", Dangling)}
Locals == {Absent, Unreadable, File("neither", MCNothing), File("yaml", OnlyPort(v2)),
           File("json", OnlyPort(Zero)), File("json", NewKey),
           File("json", Full(v2, azure, Unset))}

AFallback(k, h, t) == [kind |-> k, hint |-> h, text |-> t]
Secret == File("yaml", Full(v2, openai, openai))
Binary == File("json", Full(v1, own, openai))
Fallbacks == {<<>>, <<AFallback("none", "auto", Absent), AFallback("env", "auto", Secret)>>,
              <<AFallback("env", "auto", Absent), AFallback("static", "auto", Secret)>>,
              <<AFallback("static", "json", Secret)>>}

AWorld(f, e, fb, files, locals) ==
    [flag |-> f, env |-> e, region |-> FALSE, secretName |-> TRUE, string |-> Secret,
     binary |-> Binary, fallback |-> fb, files |-> files, locals |-> locals]
Everywhere(t) == [p \in Paths |-> t]

MCWorlds ==
    \* one file, named by the flag or the environment, and its local variant
    {AWorld(f, own, <<>>, [Everywhere(Secret) EXCEPT ![p] = t],
            [Everywhere(Absent) EXCEPT ![p] = l]) :
        f \in {Unset, json}, p \in {own, json}, t \in Bases, l \in Locals}
    \* no file named: a secret,
    \cup {[AWorld(Unset, Unset, fb, Everywhere(Secret), Everywhere(Absent))
             EXCEPT !.region = TRUE, !.string = t, !.binary = u] :
        fb \in Fallbacks, t \in {Secret, Absent}, u \in {Binary, Absent}}
    \* another fallback, or the files in the default places
    \cup {AWorld(Unset, Unset, fb, yml :> y @@ json :> j @@ own :> Secret,
                 [Everywhere(Absent) EXCEPT ![yml] = l]) :
        fb \in Fallbacks, y \in Bases, j \in {Absent, Binary},
        l \in {Absent, File("yaml", OnlyPort(v2))}}

-----------------------------------------------------------------------------
\* Router: a command and keywords in several cases, one of them also the text
\* of a command, and card actions.
MCStrings == {"", "/HELP me", "/help me", "/help", "HELP", "help", "Help me", "help me",
              " help ", "me", "ok", "no"}

MCLower == [x \in MCStrings |->
    CASE x = "/HELP me" -> "/help me" [] x = "HELP" -> "help" [] x = "Help me" -> "help me"
      [] OTHER -> x]
MCTrim == [x \in MCStrings |-> IF x = " help " THEN "help" ELSE x]
MCFirstWord == [x \in MCStrings |->
    CASE x = "/HELP me" -> "HELP" [] x \in {"/help me", "/help"} -> "help" [] OTHER -> ""]
MCHasPrefix == {<<x, x>> : x \in MCStrings} \cup {<<x, "">> : x \in MCStrings}
    \cup {<<"/help me", "/help">>, <<"help me", "help">>}
MCContains == MCHasPrefix
    \cup {<<x, "help">> : x \in {"/help me", "/help", "help me", " help "}}
    \cup {<<x, "me">> : x \in {"/help me", "help me"}}

MCUpdates == {[kind |-> "text", text |-> x] : x \in {"/HELP me", "Help me", " help "}}
             \cup {[kind |-> "card", verb |-> x] : x \in {"ok", "no"}}

Reg(f, n, h) == [fn |-> f, name |-> n, handler |-> h]
MCRegistrations ==
    {Reg("WithCommands", "HELP", "h1"), Reg("WithCommands", "help", "h2"),
     Reg("WithKeywordExact", "HELP", "h4"), Reg("WithKeywordPrefix", "help", "h5"),
     Reg("WithKeywordContains", "me", "h6"),
     Reg("WithCardAction", "ok", "h1"), Reg("OnCardAction", "ok", "h2"), Reg("OnCardAction", "no", "h5"),
     Reg("WithCardActionDefault", "", "h3"), Reg("OnCardActionDefault", "", "h4"),
     Reg("WithLLMHandler", "", "h6")}
MCHandlers == {"h1", "h2", "h3", "h4", "h5", "h6"}
=============================================================================
