-------------------------- MODULE MCMessageStore --------------------------
(***************************************************************************)
(* MessageStore with few accounts, devices and messages.  Every device is  *)
(* signed in with the one account that matters.                            *)
(***************************************************************************)
EXTENDS MessageStore

CONSTANT Reader         \* the account of the devices

OneReader == [d \in Device |-> Reader]
===========================================================================
