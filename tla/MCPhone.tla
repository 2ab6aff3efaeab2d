------------------------------ MODULE MCPhone ------------------------------
(***************************************************************************)
(* Instances of what one phone does on its own: its lock, the container of *)
(* its screens, a conversation with one peer, its disappearing messages,   *)
(* and its encrypted store.  The five share no variable here, so each      *)
(* behaviour is one of them alone, and what is checked is each of them.    *)
(***************************************************************************)
EXTENDS AppLock, ChatShell, Conversation, Vanish, Vault

CONSTANTS ann, ben, thr

VARIABLE focus  \* the part whose behaviour this is

phoneVars == <<focus, lockVars, shellVars, chatVars, vanishVars, vaultVars>>

MCThreadPeer == [x \in Threads |-> ann]

PhoneInit ==
  /\ focus \in {"lock", "shell", "chat", "vanish", "vault"}
  /\ LockInit /\ ShellInit /\ ChatInit /\ VanishInit /\ VaultInit

PhoneNext ==
  /\ UNCHANGED focus
  /\ \/ /\ focus = "lock" /\ LockNext
        /\ UNCHANGED <<shellVars, chatVars, vanishVars, vaultVars>>
     \/ /\ focus = "shell" /\ ShellNext
        /\ UNCHANGED <<lockVars, chatVars, vanishVars, vaultVars>>
     \/ /\ focus = "chat" /\ ChatNext
        /\ UNCHANGED <<lockVars, shellVars, vanishVars, vaultVars>>
     \/ /\ focus = "vanish" /\ VanishNext
        /\ UNCHANGED <<lockVars, shellVars, chatVars, vaultVars>>
     \/ /\ focus = "vault" /\ VaultNext
        /\ UNCHANGED <<lockVars, shellVars, chatVars, vanishVars>>

PhoneSpec == PhoneInit /\ [][PhoneNext]_phoneVars

(* The state of each part is as its variables' comments say.               *)
PhoneTypeOK ==
  CASE focus = "lock"   -> LockTypeOK
    [] focus = "shell"  -> ShellTypeOK
    [] focus = "chat"   -> ChatTypeOK
    [] focus = "vanish" -> VanishTypeOK
    [] focus = "vault"  -> VaultTypeOK
=============================================================================
