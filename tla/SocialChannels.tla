--------------------------- MODULE SocialChannels ---------------------------
(* The social accounts and the connectors of one deployment side by side:    *)
(* a publish request names a channel, not the account's row, and what a      *)
(* connector does with a token changes no row of the accounts.               *)
EXTENDS Accounts, Connectors

channelRows == <<accountVars, connectorVars>>

ChannelsInit == AccountsInit /\ ConnectorsInit
ChannelsNext ==
    \/ AccountsNext /\ UNCHANGED connectorVars
    \/ ConnectorsNext /\ UNCHANGED accountVars
ChannelsSpec == ChannelsInit /\ [][ChannelsNext]_channelRows

(* Types, and that what a row names exists: a session's token, an account's  *)
(* credential; and a receipt for every call that ended.                      *)
ChannelsTypeOK == AccountsTypeOK /\ ConnectorsTypeOK
=============================================================================
