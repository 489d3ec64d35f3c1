------------------------------- MODULE Sha256 -------------------------------
(***************************************************************************)
(* The streaming part of src/sha/sha256.c: bytes given to sha256_update()  *)
(* in pieces are cut into blocks, and sha256_end() pads the message.  The  *)
(* compression function is not modelled: instead of the state it computes  *)
(* the model keeps the bytes it was given, a whole block at a time.        *)
(*                                                                         *)
(* A block, a word of total and the length at the end are scaled down: 64  *)
(* bytes to Block, 32 bits to Word values, and the 8 bytes of the length   *)
(* to two, one for each word.  Every byte of the message is different.     *)
(***************************************************************************)
EXTENDS Integers, Sequences

CONSTANTS
    Block,          \* bytes in a block, more than 2
    Word,           \* values of an element of total, a multiple of 8 and of Block
    MaxMessage,     \* bound of the model: length of a message
    MaxPiece        \* bound of the model: length of a piece, less than Word

VARIABLES
    total,          \* bytes so far: the low and the high word
    buffer,         \* the last bytes that do not make up a block, and old ones
    compressed,     \* the bytes the compression function was given
    message,        \* history: the message so far
    ended           \* sha256_end was called

vars == <<total, buffer, compressed, message, ended>>

Mark == Word        \* 0x80

Init ==
    /\ total = <<0, 0>>
    /\ buffer = [i \in 0 .. Block - 1 |-> 0]
    /\ compressed = <<>> /\ message = <<>> /\ ended = FALSE

(* buffer b with string s at the given position.                           *)
Put(b, pos, s) == [i \in DOMAIN b |-> IF i \in pos .. pos + Len(s) - 1 THEN s[i - pos + 1] ELSE b[i]]

(* The piece completes the block begun before.                             *)
Fills(left, length) == left > 0 /\ length >= Block - left

(* What stands behind the whole blocks.                                    *)
Behind(rest, whole) == SubSeq(rest, whole + 1, Len(rest))

(* total after length more bytes; a low word that is smaller than what was *)
(* added has wrapped around.                                               *)
Added(t, length) ==
    LET low == (t[1] + length) % Word
    IN  <<low, IF low < length THEN (t[2] + 1) % Word ELSE t[2]>>

(* sha256_update, as a function of the context c.                          *)
sha256_update(c, input) ==
    LET left  == c.total[1] % Block
        begun == Fills(left, Len(input))
        fill  == IF begun THEN Block - left ELSE 0
        b     == IF begun THEN Put(c.buffer, left, SubSeq(input, 1, fill)) ELSE c.buffer
        first == IF begun THEN [i \in 1 .. Block |-> b[i - 1]] ELSE <<>>
        rest  == SubSeq(input, fill + 1, Len(input))
        whole == Len(rest) - (Len(rest) % Block)
    IN  [total      |-> Added(c.total, Len(input)),
         buffer     |-> Put(b, IF begun THEN 0 ELSE left, Behind(rest, whole)),
         compressed |-> c.compressed \o first \o SubSeq(rest, 1, whole)]

Context == [total |-> total, buffer |-> buffer, compressed |-> compressed]

SetContext(c) == total' = c.total /\ buffer' = c.buffer /\ compressed' = c.compressed

(* The next length bytes of the message.                                   *)
Piece(length) == [i \in 1 .. length |-> -(Len(message) + i)]

Update(length) ==
    /\ ~ended /\ Len(message) + length <= MaxMessage
    /\ SetContext(sha256_update(Context, Piece(length)))
    /\ message' = message \o Piece(length)
    /\ UNCHANGED ended

(* Faulty: the length is taken to fit behind one byte too many.            *)
PaddingTooShort(last) == IF last <= Block - 2 THEN Block - 2 - last ELSE 2 * Block - 2 - last

(* padn                                                                    *)
Padding(last) == IF last < Block - 2 THEN Block - 2 - last ELSE 2 * Block - 2 - last

(* msglen: the number of bits, in two words.                               *)
msglen == <<total[1] \div (Word \div 8) + ((total[2] * 8) % Word), (total[1] * 8) % Word>>

End ==
    /\ ~ended
    /\ LET padn   == Padding(total[1] % Block)
           padded == sha256_update(Context, [i \in 1 .. padn |-> IF i = 1 THEN Mark ELSE 0])
       IN  SetContext(sha256_update(padded, msglen))
    /\ ended' = TRUE
    /\ UNCHANGED message

(* sha256_begin: the buffer keeps the bytes of the last message.           *)
Begin ==
    /\ ended
    /\ total' = <<0, 0>> /\ compressed' = <<>> /\ message' = <<>> /\ ended' = FALSE
    /\ UNCHANGED buffer

Next == Begin \/ End \/ \E length \in 0 .. MaxPiece : Update(length)

Spec == Init /\ [][Next]_vars

-----------------------------------------------------------------------------

(* FIPS 180: the message, a one bit, as few zeros as possible, the length  *)
(* in bits.                                                                *)
Padded(m) ==
    LET zeros == CHOOSE k \in 0 .. Block - 1 : (Len(m) + 1 + k + 2) % Block = 0
        bits  == (8 * Len(m)) % (Word * Word)
    IN  m \o <<Mark>> \o [i \in 1 .. zeros |-> 0] \o <<bits \div Word, bits % Word>>

(* sha256_end compresses exactly the padded message of the standard, with  *)
(* every length at the edge of a block and beyond the low word of total    *)
(* (sha256.c:263-285), whatever an earlier message left in the buffer.     *)
Digested == ended => compressed = Padded(message)

=============================================================================
