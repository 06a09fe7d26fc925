----------------------------- MODULE MCPipeline -----------------------------
(* Instances of Pipeline for TLC: messages, two clicks on one card, and an *)
(* update of the application's own, about no message, which it hands to    *)
(* Engine.Handle as the transports do.                                     *)
EXTENDS Pipeline, TLC

CONSTANTS agent, alice, m1, m2, m3, text, chatter, click1, click2, reminder, g1, g2

About(k, u, m, p) ==
    [kind |-> k, user |-> u, message |-> m, private |-> p, mentioned |-> FALSE]

MCInfo ==
    [e \in Events |->
        CASE e = text    -> About("message", alice, m1, TRUE)
          [] e = chatter -> About("message", alice, m3, FALSE)
          [] e = reminder  -> About("other", alice, NoMessage, FALSE)
          [] OTHER       -> About("card", alice, m2, FALSE)]

SlotSymmetry == Permutations(Slots)
=============================================================================
