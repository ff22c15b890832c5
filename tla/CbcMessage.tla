----------------------------- MODULE CbcMessage -----------------------------
(***************************************************************************)
(* The abstract specification of the CBC functions of aes.c: one step      *)
(* turns a message into its ciphertext, one step turns it back.            *)
(***************************************************************************)
EXTENDS CbcMode

CONSTANT Messages

VARIABLES
  phase,    \* "encrypt", "decrypt" or "done": the next step of the client
  key, iv,  \* what the client calls with
  message,  \* the message
  data      \* the client's buffer

vars == <<phase, key, iv, message, data>>

Init ==
  /\ phase = "encrypt"
  /\ key \in Key
  /\ iv \in Block
  /\ message \in Messages
  /\ data = message

Encrypt ==
  /\ phase = "encrypt"
  /\ phase' = "decrypt"
  /\ data' \in [DOMAIN message -> Block]
  /\ Encrypts(key, iv, message, data', Len(message))
  /\ UNCHANGED <<key, iv, message>>

Decrypt ==
  /\ phase = "decrypt"
  /\ phase' = "done"
  /\ data' = message
  /\ UNCHANGED <<key, iv, message>>

Next == Encrypt \/ Decrypt

Spec == Init /\ [][Next]_vars
=============================================================================
