------------------------------ MODULE Keystore ------------------------------
(***************************************************************************)
(* internal/wallet/keystore.go and encrypt.go: a keystore file, plaintext  *)
(* or encrypted, written by one process and read by others.                *)
(*                                                                         *)
(* os.WriteFile truncates the file and then writes it, so that a process   *)
(* that reads or dies in between finds or leaves a torn one.  What the     *)
(* ciphers do is abstracted to: a password opens what it closed, and       *)
(* nothing else opens it.                                                  *)
(***************************************************************************)
EXTENDS Sequences

CONSTANTS Passwords,  \* what can be given with --password
          NoPassword  \* the empty password

ASSUME PasswordAssumption == NoPassword \notin Passwords

VARIABLES file,    \* the keystore file
          writing  \* what a Save in progress has yet to write, or Nothing

keystoreVars == <<file, writing>>

Content(form, wallets, password) ==
    [form |-> form, wallets |-> wallets, password |-> password]

Absent == Content("absent", <<>>, NoPassword)
Torn == Content("torn", <<>>, NoPassword)
Nothing == Content("nothing", <<>>, NoPassword)

KeystoreInit == file = Absent /\ writing = Nothing

(* Save, and SaveEncrypted, which refuses an empty password. *)
Envelope(wallets, password) ==
    IF password = NoPassword THEN Content("plain", wallets, NoPassword)
                             ELSE Content("encrypted", wallets, password)

BeginSave(wallets, password) ==
    /\ writing = Nothing
    /\ file' = Torn
    /\ writing' = Envelope(wallets, password)

EndSave ==
    /\ writing # Nothing
    /\ file' = writing
    /\ writing' = Nothing

(* The write fails or the process dies. *)
AbandonSave ==
    /\ writing # Nothing
    /\ writing' = Nothing
    /\ UNCHANGED file
-----------------------------------------------------------------------------
LoadError == [ok |-> FALSE, wallets |-> <<>>]
Loaded(wallets) == [ok |-> TRUE, wallets |-> wallets]

(* IsEncrypted fails unless the file parses, and looks for a "kdf" field. *)
Parses == file.form \in {"plain", "encrypted"}
IsEncrypted == file.form = "encrypted"

(* Load.  An encrypted envelope parses as a keystore, too, one without     *)
(* wallets.                                                                *)
LoadPlain ==
    IF file.form = "plain" THEN Loaded(file.wallets)
    ELSE IF file.form = "encrypted" THEN Loaded(<<>>)
    ELSE LoadError

(* Mutant of LoadEncrypted: the seal is not verified. *)
LoadEncryptedAnyPassword(password) ==
    IF password # NoPassword /\ file.form = "encrypted" THEN Loaded(file.wallets)
    ELSE LoadError

(* A plaintext keystore has no parameters scrypt would accept. *)
LoadEncrypted(password) ==
    IF /\ password # NoPassword
       /\ file.form = "encrypted"
       /\ file.password = password
    THEN Loaded(file.wallets) ELSE LoadError
=============================================================================
