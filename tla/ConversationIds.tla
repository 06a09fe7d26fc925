-------------------------- MODULE ConversationIds --------------------------
(***************************************************************************)
(* nxutil/convid.go: the ID of the private conversation of two users, and  *)
(* what is read from a conversation's ID.  User and group IDs are int32    *)
(* and conversation IDs int64; here B stands for 2^32, so an int32 is in   *)
(* -B \div 2 .. B \div 2 - 1, a shift by 32 is a multiplication or a       *)
(* division by B that rounds down, and & 0xFFFFFFFF is % B.                *)
(* AgentFilterMiddleware takes from these IDs who is addressed (Pipeline). *)
(***************************************************************************)
EXTENDS Integers

CONSTANT B

WidthAssumption == B \in Nat /\ B > 1 /\ B % 2 = 0

Int32 == -(B \div 2) .. (B \div 2 - 1)

\* int64(hi) << 32 | int64(lo): a negative lo is extended with ones, which
\* cover hi.
PrivateConversationIDInOrder(a, b) == IF b < 0 THEN b ELSE a * B + b \* a bug: not sorted

PrivateConversationID(a, b) ==
    LET hi == IF a >= b THEN a ELSE b
        lo == IF a >= b THEN b ELSE a
    IN  IF lo < 0 THEN lo ELSE hi * B + lo

High(id) == id \div B

\* The conversion of the low half to int32.
Low(id) == IF id % B < B \div 2 THEN id % B ELSE (id % B) - B

IsPrivateConversation(id) == High(id) # 0
IsGroupConversation(id)   == High(id) = 0

ConversationPeerID(id, me) ==
    IF IsGroupConversation(id) \/ High(id) = me THEN Low(id) ELSE High(id)

ConversationUserIDs(id) == IF High(id) = 0 THEN <<0, 0>> ELSE <<High(id), Low(id)>>

GroupIDFromConversation(id) == IF IsPrivateConversation(id) THEN 0 ELSE Low(id)

VARIABLES users,  \* two users, once they meet
          conv    \* the ID of their conversation

vars == <<users, conv>>

Init == users = <<>> /\ conv = 0

UserIds == {u \in Int32 : u > 0}

Meet(a, b) ==
    /\ users = <<>> /\ a \in UserIds /\ b \in UserIds
    /\ users' = <<a, b>>
    /\ conv' = PrivateConversationID(a, b)

Next == \E a, b \in Int32 : Meet(a, b)

Spec == Init /\ [][Next]_vars

-----------------------------------------------------------------------------
\* The ID of a private conversation says whose it is: each of the two finds
\* the other in it, whoever computed it, nobody else has the same, and it is
\* that of no group.  (User IDs are positive; a negative one would cover the
\* other half.)
IdsFaithful ==
    users # <<>> =>
        LET me == users[1]
            you == users[2]
        IN  /\ conv = PrivateConversationID(you, me)
            /\ ConversationPeerID(conv, me) = you /\ ConversationPeerID(conv, you) = me
            /\ {ConversationUserIDs(conv)[1], ConversationUserIDs(conv)[2]} = {me, you}
            /\ \A x, y \in UserIds : PrivateConversationID(x, y) = conv => {x, y} = {me, you}
            /\ \A g \in UserIds :
                  /\ conv # g /\ GroupIDFromConversation(conv) # g
                  /\ GroupIDFromConversation(g) = g /\ ConversationPeerID(g, me) = g
=============================================================================
