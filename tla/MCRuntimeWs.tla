----------------------------- MODULE MCRuntimeWs -----------------------------
(* Two hooks of one channel, useNotificationEvents and useApprovalEvents.    *)
(* The event broadcast is a notification, which the second does not ask for. *)
EXTENDS RuntimeWs

One == {"notificationHook"}
Both == One \cup {"approvalHook"}
MCChannels == {"notifications"}
MCTypes == {"notification"}
NoTypes == {}
ChannelOfOne == [l \in One |-> "notifications"]
ChannelOfBoth == [l \in Both |-> "notifications"]
TypesOfOne == [l \in One |-> {}]
TypesOfBoth ==
    [l \in Both |-> IF l = "notificationHook" THEN {"notification"} ELSE {}]
==============================================================================
