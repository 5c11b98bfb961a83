----------------------------- MODULE ChatCrypto -----------------------------
(***************************************************************************)
(* How the chat uses the cipher: packets of the main connection under the  *)
(* session keys, and files at rest under keys of their own.  HKDF and the  *)
(* MACs are symbols: a derived value is the record of what it is derived   *)
(* from, except where its cells are needed.                                *)
(***************************************************************************)
EXTENDS RexGrid

\* bytes_to_i64 and i64_to_bytes; a byte is half a cell.
BytesToCells(bytes) ==
    [i \in 1 .. (Len(bytes) + 1) \div 2 |->
        HalfSize * bytes[2 * i - 1]
            + (IF 2 * i <= Len(bytes) THEN bytes[2 * i] ELSE 0)]

CellsToBytes(cells) == Halves(cells)

\* get_correct_key: a key for the grid, from a key of another length.
Stretch(w, h, key) ==
    [i \in 1 .. 2 * w * h |-> (key[((i - 1) % Len(key)) + 1] + 13 * i + w + 2 * h) % Size]

CorrectKey(w, h, key) == IF Len(key) = 2 * w * h THEN key ELSE Stretch(w, h, key)

EncryptPacket(w, h, bytes, keys, nonce, build) ==
    Serialize(Encrypt(w, h, BytesToCells(bytes), CorrectKey(w, h, keys.grid), nonce, build)[1],
              keys.mac)

DecryptOpened(data, build) ==
    IF data = None THEN None ELSE Some(CellsToBytes(Decrypt(data[1], build)))

DecryptPacket(w, h, packet, keys, build) ==
    DecryptOpened(Open(w, h, packet, keys.mac, FromKey(w, h, CorrectKey(w, h, keys.grid))), build)

-----------------------------------------------------------------------------
(* Files at rest: ciphertext and a tag over it and its length.             *)

DiskKeys(salt, master) == [salt |-> salt, master |-> master]

ImageKeys(hash) == DiskKeys(<<hash>>, "image")

CacheKeys(fingerprint, hash) == DiskKeys(<<fingerprint, hash>>, "cache")

DiskTag(keys, ciphertext) == [keys |-> keys, over |-> ciphertext, length |-> Len(ciphertext)]

DiskSeal(keys, ciphertext) == Append(ciphertext, DiskTag(keys, ciphertext))

\* The tag's bytes are one element of the file.
DiskOpen(keys, sealed) ==
    IF sealed = <<>> THEN None
    ELSE LET ciphertext == Front(sealed)
         IN  IF Last(sealed) = DiskTag(keys, ciphertext) THEN Some(ciphertext) ELSE None

=============================================================================
