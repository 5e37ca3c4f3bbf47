------------------------------ MODULE Keystore ------------------------------
(***************************************************************************)
(* The key files of internal/keystore/keystore.go: one encrypted file per  *)
(* address.  Of a file's content only one fact is kept, whether it is the  *)
(* whole document; what Load verifies (format, decryption, address) holds  *)
(* of a whole file and of no other.  New keys are random: none is          *)
(* generated twice.                                                        *)
(***************************************************************************)
EXTENDS Naturals

CONSTANTS
    KeyAddrs  \* the addresses of all keys that may be generated

VARIABLES
    file,  \* file[a]: the file <a>.json
    temp   \* temp[a]: the file <a>.json.tmp

keyVars == <<file, temp>>

Content == {"none", "torn", "whole"}

KeyInit ==
    /\ file = [a \in KeyAddrs |-> "none"]
    /\ temp = [a \in KeyAddrs |-> "none"]

\* Mutant: the document is written under its final name.
WriteTempInPlace(a) ==
    /\ temp' = [temp EXCEPT ![a] = "whole"]
    /\ file' = [file EXCEPT ![a] = "torn"]

\* write, its two halves.  The document goes to a temporary file ...
WriteTemp(a) ==
    /\ temp' = [temp EXCEPT ![a] = "whole"]
    /\ UNCHANGED file

\* ... or WriteFile fails, with or without a part of it written.
WriteTempError(a) ==
    /\ \E left \in {"none", "torn"} : temp' = [temp EXCEPT ![a] = left]
    /\ UNCHANGED file

\* Mutant: the file keeps its temporary name.
RenameForgotten(a) == UNCHANGED <<file, temp>>

\* Rename makes it the address's file ...
Rename(a) ==
    /\ file' = [file EXCEPT ![a] = temp[a]]
    /\ temp' = [temp EXCEPT ![a] = "none"]

\* ... or fails, and the temporary file is removed if it can be.
RenameError(a) ==
    /\ temp' \in {temp, [temp EXCEPT ![a] = "none"]}
    /\ UNCHANGED file

\* Load succeeds.
Loadable(a) == file[a] = "whole"

\* List: the names that are an address and .json.
List == {a \in KeyAddrs : file[a] # "none"}

=============================================================================
