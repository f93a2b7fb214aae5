----------------------------- MODULE MCGateway -----------------------------
(***************************************************************************)
(* Gateway with few channels, chat servers and messages.                   *)
(***************************************************************************)
EXTENDS Gateway, TLC

CONSTANTS c1, c2, s1, s2

\* A talk by either message, or by the first one with a meta that names another
\* server than the gateway, or by the second a sign-in, whose service is none the
\* gateway depends on.
Talk(metas) == [command |-> CommandChatUserTalk, meta |-> metas]
SignIn == [command |-> CommandLoginSignIn, meta |-> <<>>]

Headers ==
    <<{Talk(<<>>), Talk(<<Meta(MetaDestServer, "elsewhere")>>)}, {Talk(<<>>), SignIn}>>

Symmetry == Permutations(Channel) \cup Permutations(Service)
=============================================================================
