------------------------------ MODULE MCRaftStep ------------------------------
EXTENDS RaftStep, TLC

CONSTANTS G, H, join, join2, vote, append, beat

\* A group whose storage may hang, and one whose joins overlap.
MCGroups == {G, H}
MCJoined == {G}
MCRpcs == {append, join, join2}
MCKind == append :> "append" @@ join :> "join" @@ join2 :> "join"
MCGroup == append :> G @@ join :> H @@ join2 :> H

\* A message that may hang in one group, a vote and a heartbeat in the other.
MCBeatJoined == {G, H}
MCBeatRpcs == {append, vote, beat}
MCBeatKind == append :> "append" @@ vote :> "vote" @@ beat :> "heartbeat"
MCBeatGroup == append :> G @@ vote :> H @@ beat :> H
=============================================================================
