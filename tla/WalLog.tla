------------------------------- MODULE WalLog -------------------------------
(***************************************************************************)
(* The bytes of the WAL file: how the WAL thread of src/storage/wal.rs     *)
(* lays a batch out (a little-endian length of four bytes before each      *)
(* entry, zeros up to the next block boundary) and how Wal::open takes the *)
(* file apart again.                                                       *)
(*                                                                         *)
(* Bytes are numbers, positions count from 0 in cursors and from 1 in      *)
(* sequences.  An entry is a RecordUpdate of a key or a PageUpdate with    *)
(* what its page holds; encoded, it is its variant number followed by its  *)
(* fields and by filler that makes it longer.                              *)
(***************************************************************************)
EXTENDS Integers, SequencesExt

CONSTANTS
  Keys,    \* keys of records, numbered from 1
  Fillers, \* bound: by how much encoded entries differ in length
  Block    \* 4096: batches are padded to this

ASSUME BlockAssumption == Block \in Nat /\ Block > 4
ASSUME KeyAssumption == Keys = 1..Cardinality(Keys)
ASSUME FillerAssumption == Fillers \subseteq Nat

NoRecord == [n |-> 0, version |-> 0]

\* RecordUpdate and PageUpdate.  A record is its write number and its version; an image
\* gives the record of every key, NoRecord when the page has none.
RecordUpdate(k, rec, filler) == [page |-> FALSE, key |-> k, rec |-> rec, filler |-> filler]
PageUpdate(image) == [page |-> TRUE, image |-> image, filler |-> 0]

\* bincode::serialize: the variant number, then the fields.
RecordBytes(rec) == <<rec.n, rec.version>>
Encode(entry) ==
  (IF entry.page THEN <<0>> \o FlattenSeq([k \in Keys |-> RecordBytes(entry.image[k])])
                 ELSE <<1, entry.key>> \o RecordBytes(entry.rec))
  \o [i \in 1..entry.filler |-> 7]

\* bincode::deserialize: an entry, or nothing when the bytes are none.  Bytes after the
\* last field are left unread.
Decode(bytes) ==
  IF bytes[1] = 1 /\ Len(bytes) >= 4 /\ bytes[2] \in Keys
  THEN <<RecordUpdate(bytes[2], [n |-> bytes[3], version |-> bytes[4]], Len(bytes) - 4)>>
  ELSE IF bytes[1] = 0 /\ Len(bytes) >= 1 + 2 * Cardinality(Keys)
  THEN <<PageUpdate([k \in Keys |-> [n |-> bytes[2 * k], version |-> bytes[2 * k + 1]]])>>
  ELSE <<>>

-----------------------------------------------------------------------------
\* The length of an entry in front of it: u32::to_le_bytes.
LengthBytes(len) == [i \in 1..4 |-> (len \div 256^(i - 1)) % 256]
Length(bytes) == FoldRight(LAMBDA b, high : b + 256 * high, bytes, 0)

Framed(entry) == LengthBytes(Len(Encode(entry))) \o Encode(entry)

\* (size + 4095) & !4095.
PaddedSize(size) == ((size + Block - 1) \div Block) * Block

\* What the WAL thread writes for a batch of entries.
Batch(entries) ==
  LET bytes == FlattenSeq([i \in DOMAIN entries |-> Framed(entries[i])])
  IN bytes \o [i \in 1..PaddedSize(Len(bytes)) - Len(bytes) |-> 0]

\* Faulty variant of Parse: the padding is not skipped.
ParseDense(buffer) ==
  LET parse[cursor \in 0..Len(buffer) + Block] ==
        IF cursor + 4 > Len(buffer) THEN <<>>
        ELSE LET len == Length(SubSeq(buffer, cursor + 1, cursor + 4))
                 from == cursor + 4 IN
             IF len = 0 \/ from + len > Len(buffer) THEN <<>>
             ELSE Decode(SubSeq(buffer, from + 1, from + len)) \o parse[from + len]
  IN parse[0]

\* The entries Wal::open finds in the file.  A length of zero sends it to the next block;
\* a length that reaches beyond the end stops it.
Parse(buffer) ==
  LET parse[cursor \in 0..Len(buffer) + Block] ==
        IF cursor + 4 > Len(buffer) THEN <<>>
        ELSE LET len == Length(SubSeq(buffer, cursor + 1, cursor + 4))
                 from == cursor + 4 IN
             IF len = 0 THEN parse[(cursor \div Block + 1) * Block]
             ELSE IF from + len > Len(buffer) THEN <<>>
             ELSE Decode(SubSeq(buffer, from + 1, from + len)) \o parse[from + len]
  IN parse[0]

\* A batch with one to three bytes of padding: the four bytes Wal::open reads there as a
\* length begin with zeros and end with the first bytes of the next batch.
Narrow(entries) ==
  LET size == Len(FlattenSeq([i \in DOMAIN entries |-> Framed(entries[i])]))
  IN PaddedSize(size) - size \in 1..3
=============================================================================
