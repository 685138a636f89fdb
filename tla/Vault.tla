------------------------------- MODULE Vault -------------------------------
(***************************************************************************)
(* The encrypted repository of devnote-persistence.  The key and its salt  *)
(* live under two locks; password calls and reads borrow the repository    *)
(* shared and interleave, writes borrow it alone.  A ciphertext is the key *)
(* and the text it hides, and opens under that key only.                   *)
(***************************************************************************)
EXTENDS SqlRows, StableOrder

CONSTANTS
    Passwords,
    SealedNotes,
    SealedTexts,
    VaultReaders,
    VaultKeepers,   \* threads that set, change or clear the password
    MaxSalts,       \* bound: salts generated
    MaxSeals        \* bound: writes and reads

VARIABLES
    vaultKey,       \* the derived key, a password and a salt, or NoKey
    vaultSalt,
    salts,          \* how many salts were generated
    sealed,         \* the notes table: content and is_encrypted
    keepers,        \* what each password call still stores
    readers,        \* the rows each read fetched and what it answers
    seals

vaultVars == <<vaultKey, vaultSalt, salts, sealed, keepers, readers, seals>>

NoKey == << >>
NoSalt == 0
DeriveKey(password, salt) == <<password, salt>>
Cipher(key, text) == [key |-> key, text |-> text]
Blank == [blank |-> TRUE]

ASSUME VaultAssumption == IsFiniteSet(SealedNotes) /\ Blank \notin SealedTexts

NotKeeping == [step |-> "idle"]
NotReadingNotes == [step |-> "idle"]

\* The table may hold notes written before it was encrypted.
VaultInit ==
    /\ vaultKey = NoKey /\ vaultSalt = NoSalt /\ salts = 0
    /\ \E plain \in SUBSET SealedNotes, t \in SealedTexts :
          sealed = [n \in plain |-> [content |-> t, encrypted |-> FALSE]]
    /\ keepers = [k \in VaultKeepers |-> NotKeeping]
    /\ readers = [r \in VaultReaders |-> NotReadingNotes]
    /\ seals = 0

\* Variant: the lock is tried, and one that a password call holds counts as locked.
IsUnlockedIfFree == vaultKey # NoKey /\ \A k \in VaultKeepers : keepers[k].step = "idle"

IsUnlocked == vaultKey # NoKey

(* Password calls: the key is stored first, then the salt. *)

DeriveNewKey(k, password) ==
    /\ salts < MaxSalts
    /\ salts' = salts + 1
    /\ keepers' = [keepers EXCEPT ![k] =
          [step |-> "key", key |-> DeriveKey(password, salts'), salt |-> salts']]
    /\ UNCHANGED <<vaultKey, vaultSalt, sealed, readers, seals>>

SetPassword(k) ==
    /\ keepers[k].step = "idle"
    /\ \E password \in Passwords : DeriveNewKey(k, password)

\* The old password is compared only when there are a salt and a key.
ChangePassword(k) ==
    /\ keepers[k].step = "idle"
    /\ \E old, new \in Passwords :
          /\ vaultSalt = NoSalt \/ vaultKey \in {NoKey, DeriveKey(old, vaultSalt)}
          /\ DeriveNewKey(k, new)

ClearKey(k) ==
    /\ keepers[k].step = "idle"
    /\ vaultKey # NoKey \/ vaultSalt # NoSalt
    /\ keepers' = [keepers EXCEPT ![k] =
          [step |-> "key", key |-> NoKey, salt |-> NoSalt]]
    /\ UNCHANGED <<vaultKey, vaultSalt, salts, sealed, readers, seals>>

StoreKey(k) ==
    /\ keepers[k].step = "key"
    /\ vaultKey' = keepers[k].key
    /\ keepers' = [keepers EXCEPT ![k].step = "salt"]
    /\ UNCHANGED <<vaultSalt, salts, sealed, readers, seals>>

\* Variant: a salt the vault has is kept.
StoreSaltOnce(k) ==
    /\ keepers[k].step = "salt"
    /\ vaultSalt' = IF vaultSalt = NoSalt THEN keepers[k].salt ELSE vaultSalt
    /\ keepers' = [keepers EXCEPT ![k] = NotKeeping]
    /\ UNCHANGED <<vaultKey, salts, sealed, readers, seals>>

StoreSalt(k) ==
    /\ keepers[k].step = "salt"
    /\ vaultSalt' = keepers[k].salt
    /\ keepers' = [keepers EXCEPT ![k] = NotKeeping]
    /\ UNCHANGED <<vaultKey, salts, sealed, readers, seals>>

(* Writes: no other call runs, and the vault must be unlocked. *)

Exclusive ==
    /\ seals < MaxSeals
    /\ \A k \in VaultKeepers : keepers[k].step = "idle"
    /\ \A r \in VaultReaders : readers[r].step \in {"idle", "answered", "failed"}
    /\ seals' = seals + 1
    /\ UNCHANGED <<vaultKey, vaultSalt, salts, keepers, readers>>

CreateSealedNote(n, t) ==
    /\ Exclusive
    /\ IsUnlocked /\ n \notin DOMAIN sealed
    /\ sealed' = InsertRow(sealed, n,
          [content |-> Cipher(vaultKey, t), encrypted |-> TRUE])

\* Variant: the row keeps its is_encrypted.
UpdateSealedNoteUnmarked(n, t) ==
    /\ Exclusive
    /\ IsUnlocked /\ n \in DOMAIN sealed
    /\ sealed' = [sealed EXCEPT ![n].content = Cipher(vaultKey, t)]

UpdateSealedNote(n, t) ==
    /\ Exclusive
    /\ IsUnlocked /\ n \in DOMAIN sealed
    /\ sealed' = [sealed EXCEPT ![n] =
          [content |-> Cipher(vaultKey, t), encrypted |-> TRUE]]

DeleteSealedNote(n) ==
    /\ Exclusive
    /\ n \in DOMAIN sealed
    /\ sealed' = DeleteRow(sealed, n)

(* Reads: fetched rows are opened one by one, each in two steps. *)

Fetch(r, rows) ==
    /\ readers[r].step \in {"idle", "answered", "failed"}
    /\ seals < MaxSeals
    /\ seals' = seals + 1
    /\ readers' = [readers EXCEPT ![r] =
          [step |-> IF rows = << >> THEN "answered" ELSE "check",
           rows |-> rows, answer |-> << >>, keyAtStart |-> vaultKey]]
    /\ UNCHANGED <<vaultKey, vaultSalt, salts, sealed, keepers>>

GetSealedNote(r) ==
    \E n \in DOMAIN sealed : Fetch(r, <<sealed[n]>>)

ListSealedNotes(r) ==
    \E order \in [1..Cardinality(DOMAIN sealed) -> DOMAIN sealed] :
        /\ \A n \in DOMAIN sealed : \E i \in DOMAIN order : order[i] = n
        /\ Fetch(r, [i \in DOMAIN order |-> sealed[order[i]]])

NextRow(r) == readers[r].rows[Len(readers[r].answer) + 1]

Answered(r, item) ==
    [readers EXCEPT
        ![r].answer = Append(@, item),
        ![r].step = IF Len(readers[r].answer) + 1 = Len(readers[r].rows)
                      THEN "answered" ELSE "check"]

\* A note that is not encrypted is answered as it is, one of a locked vault blank.
CheckUnlocked(r) ==
    /\ readers[r].step = "check"
    /\ readers' = IF ~NextRow(r).encrypted THEN Answered(r, NextRow(r).content)
                  ELSE IF ~IsUnlocked THEN Answered(r, Blank)
                  ELSE [readers EXCEPT ![r].step = "decrypt"]
    /\ UNCHANGED <<vaultKey, vaultSalt, salts, sealed, keepers, seals>>

\* Variant: what the key does not open is answered as it is stored.
DecryptContentOrRaw(r) ==
    /\ readers[r].step = "decrypt"
    /\ readers' = Answered(r, IF NextRow(r).content.key = vaultKey
                               THEN NextRow(r).content.text
                               ELSE NextRow(r).content)
    /\ UNCHANGED <<vaultKey, vaultSalt, salts, sealed, keepers, seals>>

\* The key is read again; a note it does not open ends the whole read.
DecryptContent(r) ==
    /\ readers[r].step = "decrypt"
    /\ readers' = IF NextRow(r).content.key = vaultKey
                    THEN Answered(r, NextRow(r).content.text)
                    ELSE [readers EXCEPT ![r].step = "failed"]
    /\ UNCHANGED <<vaultKey, vaultSalt, salts, sealed, keepers, seals>>

VaultNext ==
    \/ \E k \in VaultKeepers :
          SetPassword(k) \/ ChangePassword(k) \/ ClearKey(k) \/ StoreKey(k) \/ StoreSalt(k)
    \/ \E r \in VaultReaders :
          \/ GetSealedNote(r) \/ ListSealedNotes(r)
          \/ CheckUnlocked(r) \/ DecryptContent(r)
    \/ \E n \in SealedNotes, t \in SealedTexts :
          CreateSealedNote(n, t) \/ UpdateSealedNote(n, t)
    \/ \E n \in SealedNotes : DeleteSealedNote(n)

VaultSpec == VaultInit /\ [][VaultNext]_vaultVars

-----------------------------------------------------------------------------
Keys == {NoKey} \cup (Passwords \X (1..salts))

\* Keys are derived from salts that were generated, and a row says whether its
\* content is a ciphertext.
VaultTypeOK ==
    /\ vaultKey \in Keys
    /\ vaultSalt \in 0..salts
    /\ DOMAIN sealed \subseteq SealedNotes
    /\ \A n \in DOMAIN sealed :
          IF sealed[n].encrypted
            THEN /\ sealed[n].content.key \in Keys \ {NoKey}
                 /\ sealed[n].content.text \in SealedTexts
            ELSE sealed[n].content \in SealedTexts

\* "A locked vault answers blanks, and a failed decryption is an error, never the
\* ciphertext": a read answers each row it fetched, in order, by its text or
\* blank, although the vault is locked or its key changed while it runs.
AnswersAreText ==
    \A r \in VaultReaders :
        readers[r].step = "answered" =>
            /\ Len(readers[r].answer) = Len(readers[r].rows)
            /\ \A i \in DOMAIN readers[r].answer :
                  LET row == readers[r].rows[i]
                  IN  readers[r].answer[i] \in
                        IF row.encrypted THEN {row.content.text, Blank}
                                         ELSE SealedTexts

\* A note read while its key stays in the vault is neither blank nor refused.
SteadyKeyReads ==
    \A r \in VaultReaders :
       /\ readers[r].step \in {"check", "decrypt"}
       /\ readers'[r].step \in {"answered", "failed"}
       /\ vaultKey # NoKey /\ readers[r].keyAtStart = vaultKey
       /\ \A i \in DOMAIN readers[r].rows :
             readers[r].rows[i].encrypted =>
                 readers[r].rows[i].content.key = vaultKey
       => /\ readers'[r].step = "answered"
          /\ \A i \in DOMAIN readers'[r].answer :
                readers'[r].answer[i] # Blank

\* Between password calls the salt is the one the key was derived with, so the
\* right old password is accepted.
KeyHasItsSalt ==
    (\A k \in VaultKeepers : keepers[k].step = "idle") =>
        IF vaultKey = NoKey THEN vaultSalt = NoSalt ELSE vaultKey[2] = vaultSalt
=============================================================================
