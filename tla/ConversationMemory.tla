------------------------- MODULE ConversationMemory -------------------------
(***************************************************************************)
(* What the engine promises of the conversation memory, whatever it does   *)
(* to keep it: a turn works from a snapshot of the history of its key (or  *)
(* from nothing), and what it leaves behind is that snapshot followed by   *)
(* messages of the turn alone.  Turns are not serialised: the last one to  *)
(* commit wins.                                                            *)
(***************************************************************************)
EXTENDS Integers, Sequences

CONSTANTS Turns,     \* who takes turns
          Keys, KeyOf,
          MaxMsgs,   \* messages kept under a key, 0 for no limit
          Condenses  \* whether a turn may put messages of its own in front

VARIABLES store,     \* the history under each key; m.turn is the turn of message m
          number,    \* the number of the latest turn of each
          base       \* {the snapshot a turn in progress works from}, or {}

vars == <<store, number, base>>

Init == /\ store = [k \in Keys |-> <<>>]
        /\ number = [t \in Turns |-> 0]
        /\ base = [t \in Turns |-> {}]

Bounded(s) == MaxMsgs > 0 => Len(s) <= MaxMsgs

\* s is what is left of b, from some place on, between messages of t alone;
\* those in front stand for what is gone.  Some of b is gone only if s is as
\* long as the memory holds, or condensed.
Extends(s, b, t) ==
    \E front \in 0 .. Len(s), n \in 0 .. Len(b) :
        /\ front > 0 => Condenses
        /\ front + n <= Len(s)
        /\ SubSeq(s, front + 1, front + n) = SubSeq(b, Len(b) - n + 1, Len(b))
        /\ \A i \in (1 .. front) \cup (front + n + 1 .. Len(s)) : s[i].turn = <<t, number[t]>>
        /\ n < Len(b) => MaxMsgs > 0 /\ (Len(s) = MaxMsgs \/ Condenses)

\* t goes on to its next turn.
Number(t) == /\ base[t] = {}
             /\ number' = [number EXCEPT ![t] = @ + 1]
             /\ UNCHANGED <<store, base>>

\* The turn takes its snapshot; a history that cannot be read counts as none.
Begin(t) == /\ base[t] = {}
            /\ \E b \in {store[KeyOf[t]], <<>>} : base' = [base EXCEPT ![t] = {b}]
            /\ UNCHANGED <<store, number>>

\* The turn replaces the history by its snapshot and its own messages.
Commit(t) == /\ base[t] # {}
             /\ Bounded(store'[KeyOf[t]])
             /\ \E b \in base[t] : Extends(store'[KeyOf[t]], b, t)
             /\ store' = [store EXCEPT ![KeyOf[t]] = store'[KeyOf[t]]]
             /\ base' = [base EXCEPT ![t] = {}]
             /\ UNCHANGED number

\* The turn clears the history, and its snapshot with it.
Clear(t) == /\ base[t] # {}
            /\ store' = [store EXCEPT ![KeyOf[t]] = <<>>]
            /\ base' \in {base, [base EXCEPT ![t] = {<<>>}]}
            /\ UNCHANGED number

\* Turns end without a trace.
Abandon(T) == /\ base' = [t \in Turns |-> IF t \in T THEN {} ELSE base[t]]
              /\ UNCHANGED <<store, number>>

\* Histories expire, or are lost together with every turn in progress.
Forget(K) == /\ store' = [k \in Keys |-> IF k \in K THEN <<>> ELSE store[k]]
             /\ base' \in {base, [t \in Turns |-> {}]}
             /\ UNCHANGED number

Next == \/ \E t \in Turns : Number(t) \/ Begin(t) \/ Commit(t) \/ Clear(t)
        \/ \E T \in SUBSET Turns : Abandon(T)
        \/ \E K \in SUBSET Keys : Forget(K)

Spec == Init /\ [][Next]_vars
=============================================================================
