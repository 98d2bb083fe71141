----------------------- MODULE MCConversationRecovery -----------------------
(***************************************************************************)
(* Model checking ConversationRecovery: two messages, so that one can be   *)
(* the follow-up of the other, or wait for its retirement.                 *)
(***************************************************************************)
EXTENDS ConversationRecovery

TwoSources == {1, 2}

=============================================================================
