-------------------------- MODULE MCChannelManager --------------------------
(* Model-checking instance of ChannelManager: three clients, of which c2   *)
(* and c3 share a uid and c3 may corrupt its queue; two slots per group so *)
(* the third client opens a second group.                                  *)
EXTENDS ChannelManager, TLC

CONSTANTS c1, c2, c3, s1, s2

MCClients == {c1, c2, c3}
MCUid == (c1 :> 1000) @@ (c2 :> 2000) @@ (c3 :> 2000)
MCSessions == {s1, s2}

\* One client: enough to watch its messages go from queue to session.
MCOneClient == {c1}
MCOneUid == c1 :> 1000

\* Two clients of different uids, each alone in its group.
MCTwoClients == {c1, c2}
MCTwoUid == (c1 :> 1000) @@ (c2 :> 2000)
=============================================================================
