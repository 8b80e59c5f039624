----------------------------- MODULE MCChatWindow -----------------------------
(* Alice and Bob use the window one after the other; Charlie writes.        *)
EXTENDS ChatWindow

MCAccounts == {1, 2}
MCContacts == {1, 2, 3}
MCPeers    == {3}
=============================================================================
