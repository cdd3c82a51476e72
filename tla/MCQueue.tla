-------------------------------- MODULE MCQueue --------------------------------
(***************************************************************************)
(* A chat message, one that can never be stored, an alert and a mail, and  *)
(* a fault; a channel that closes may end the process as well.             *)
(***************************************************************************)
EXTENDS Queue, TLC

CONSTANTS hello, blank, alert, mail

MCKind == hello :> "chat" @@ blank :> "chat" @@ alert :> "alert" @@ mail :> "email"
=============================================================================
