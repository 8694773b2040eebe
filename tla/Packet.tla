------------------------------- MODULE Packet -------------------------------
(***************************************************************************)
(* class packet (packet.hpp): a byte vector that values are appended to    *)
(* and read back from, from an offset that the reads move.                 *)
(*                                                                         *)
(* Bytes are abstracted to cells: a uint32_t takes two, a character one,   *)
(* so that, as in the code, the length in front of a vector counts fewer   *)
(* elements than its elements take bytes.                                  *)
(***************************************************************************)
EXTENDS Naturals, Sequences, SequencesExt

CONSTANTS
    Items,      \* what is written: [kind, value], see Cells
    Radix,      \* values of a cell are below Radix
    MaxCells    \* bound: cells of the packet

ASSUME RadixAssumption == Radix \in Nat \ {0} /\ MaxCells \in Nat

\* uint32_t, std::string, std::vector<uint32_t>, std::vector<std::string>, packet
Kinds == {"word", "text", "words", "texts", "packet"}

WordValues == 0 .. Radix * Radix - 1
TextValues   == Seq(0 .. Radix - 1)

ASSUME ItemsAssumption ==
    \A item \in Items :
        \/ item \in [kind : {"word"}, value : WordValues]
        \/ item \in [kind : {"text", "packet"}, value : TextValues]
        \/ item \in [kind : {"words"}, value : Seq(WordValues)]
        \/ item \in [kind : {"texts"}, value : Seq(TextValues)]

VARIABLES
    _data, _read_offset,
    got,        \* what the last read returned: its value and *valid
    running,    \* no read without a valid pointer met an underflow
    unread,     \* history: what is in the packet and was not read, see Pieces
    ahead,      \* history: the cells read before the packet was cleared
    strayed     \* history: a read asked for another type than what came next

packetVars == <<_data, _read_offset, got, running, unread, ahead, strayed>>

-----------------------------------------------------------------------------
(* write(): a string, a vector and a packet come after their length. *)

WordCells(n) == <<n % Radix, (n \div Radix) % Radix>>
TextCells(s) == WordCells(Len(s)) \o s
Counted(s, Op(_)) == WordCells(Len(s)) \o FlattenSeq([i \in 1 .. Len(s) |-> Op(s[i])])

\* Cells that reads leave behind or meet again, though their item was read.
Rest(cells) == [kind |-> "rest", value |-> cells]

Pieces == Items \cup {Rest(cells) : cells \in Seq(Nat) \ {<<>>}}

Cells(item) ==
    CASE item.kind = "word"   -> WordCells(item.value)
      [] item.kind = "text"   -> TextCells(item.value)
      [] item.kind = "words"  -> Counted(item.value, WordCells)
      [] item.kind = "texts"  -> Counted(item.value, TextCells)
      [] item.kind = "packet" -> TextCells(item.value)
      [] item.kind = "rest"   -> item.value

-----------------------------------------------------------------------------
(* read(): every operator takes and returns a reader, the offset, *valid and *)
(* the value read last.  `under' records that some read met an underflow.    *)

Reader == [offset |-> _read_offset, valid |-> TRUE, under |-> FALSE, value |-> 0]

\* Mutant: the last byte of the packet cannot be read.
CanReadBelow(offset, size) == offset + size < Len(_data)

CanRead(offset, size) == offset + size <= Len(_data)

Underflow(r, value) == [r EXCEPT !.valid = FALSE, !.under = TRUE, !.value = value]

\* A read of two cells, which sets *valid either way.
ReadWord(r) ==
    IF CanRead(r.offset, 2)
    THEN [r EXCEPT !.offset = @ + 2, !.valid = TRUE,
                   !.value = _data[r.offset + 1] + Radix * _data[r.offset + 2]]
    ELSE Underflow(r, 0)

\* Mutant: the offset moves twice as far.
PastTextTwice(offset, len) == offset + 2 * len

PastText(offset, len) == offset + len

ReadText(r) ==
    LET len == ReadWord(r)
    IN  IF CanRead(len.offset, len.value)
        THEN [len EXCEPT !.offset = PastText(@, len.value),
                         !.value = SubSeq(_data, len.offset + 1, len.offset + len.value)]
        ELSE Underflow(len, <<>>)

\* The embedded packet is copied out of the data that remain after its length; the
\* offset stays in front of it.
ReadPacket(r) ==
    LET len == ReadWord(r)
    IN  IF CanRead(len.offset, len.value)
        THEN [len EXCEPT !.value = SubSeq(_data, len.offset + 1, len.offset + len.value)]
        ELSE Underflow(len, <<>>)

\* The number of elements is compared with the bytes that remain; each element's
\* read sets *valid anew.
ReadCounted(r, ReadOne(_)) ==
    LET len == ReadWord(r)
        after[i \in 0 .. len.value] == IF i = 0 THEN len ELSE ReadOne(after[i - 1])
    IN  IF CanRead(len.offset, len.value)
        THEN [after[len.value] EXCEPT !.value = [i \in 1 .. len.value |-> after[i].value]]
        ELSE Underflow(len, <<>>)

Read(kind) ==
    CASE kind = "word"   -> ReadWord(Reader)
      [] kind = "text"   -> ReadText(Reader)
      [] kind = "words"  -> ReadCounted(Reader, ReadWord)
      [] kind = "texts"  -> ReadCounted(Reader, ReadText)
      [] kind = "packet" -> ReadPacket(Reader)

-----------------------------------------------------------------------------
Nothing == [value |-> 0, valid |-> TRUE]

PacketInit ==
    /\ _data = <<>> /\ _read_offset = 0
    /\ got = Nothing /\ running = TRUE
    /\ unread = <<>> /\ ahead = 0 /\ strayed = FALSE

write(item) ==
    /\ running /\ Len(_data) + Len(Cells(item)) <= MaxCells
    /\ _data' = _data \o Cells(item)
    /\ unread' = Append(unread, item)
    /\ UNCHANGED <<_read_offset, got, running, ahead, strayed>>

\* After a read the word in front is behind the offset, and the last two cells that
\* were read come again.
write_to_front(item) ==
    /\ running /\ item.kind = "word" /\ Len(_data) + 2 <= MaxCells
    /\ _data' = WordCells(item.value) \o _data
    /\ unread' = (IF _read_offset = ahead THEN <<item>>
                  ELSE <<Rest(SubSeq(_data', _read_offset + 1, _read_offset + 2))>>) \o unread
    /\ UNCHANGED <<_read_offset, got, running, ahead, strayed>>

\* What a read leaves of the piece it returns: the embedded packet that it copied.
Left(item) ==
    IF item.kind = "packet" /\ item.value # <<>> THEN <<Rest(item.value)>> ELSE <<>>

\* read<T>(&valid), and read<T>(), which ends the program on an underflow.
read(kind, checked) ==
    /\ running
    /\ LET r == Read(kind)
           expected == ahead = 0 /\ unread # <<>> /\ Head(unread).kind = kind
       IN  /\ _read_offset' = r.offset
           /\ got' = [value |-> r.value, valid |-> r.valid]
           /\ running' = (checked \/ ~r.under)
           /\ unread' = IF expected THEN Left(Head(unread)) \o Tail(unread) ELSE unread
           /\ strayed' = (strayed \/ (~expected /\ r.offset # _read_offset))
    /\ UNCHANGED <<_data, ahead>>

\* The offset is not reset.
clear ==
    /\ running /\ _data' = <<>>
    /\ unread' = <<>> /\ ahead' = _read_offset /\ strayed' = FALSE
    /\ UNCHANGED <<_read_offset, got, running>>

PacketNext ==
    \/ \E item \in Items : write(item) \/ write_to_front(item)
    \/ \E kind \in Kinds, checked \in BOOLEAN : read(kind, checked)
    \/ clear

PacketSpec == PacketInit /\ [][PacketNext]_packetVars

-----------------------------------------------------------------------------
Unread == SubSeq(_data, _read_offset + 1, Len(_data))

\* The cells of what was not read.
Flat == FlattenSeq([i \in 1 .. Len(unread) |-> Cells(unread[i])])

\* As long as every read asks for the type that comes next, the bytes behind the offset
\* are those of the items not read yet: writes and reads in any mixture keep it at
\* the first of them, reads of vectors that nest included.  Where the code departs from
\* that, the departure is this and no more: a read of an embedded packet leaves the
\* offset in front of its body (line 227); a word written to the front after a
\* read is not met, the last two cells read are (line 286); and clear() keeps the
\* offset (line 167), so that of what is written next the reads skip as many cells
\* as were read before.
OffsetAtNextItem == ~strayed => Unread = SubSeq(Flat, ahead + 1, Len(Flat))

\* The read that consumes an item, one of the type that comes next, returns the
\* value that was written, reports success and does not end the program; with no
\* item left a read moves nothing (read, lines 184-244).
ReadsWhatWasWritten ==
    [][ ~strayed /\ UNCHANGED _data =>
          IF unread' # unread
          THEN running' /\ got'.valid /\ got'.value = Head(unread).value
          ELSE unread = <<>> => UNCHANGED _read_offset ]_packetVars

-----------------------------------------------------------------------------
(* What the comments of packet.hpp say, and the code does not do. *)

\* "clears the packet fully" (line 164): what is written to a cleared packet is
\* what the next read meets.
ClearsFully == ~strayed => Unread = Flat

\* "there is an internal byte offset, it wil read from there and move it forward"
\* (line 178): a read that returns an item moves the offset past the item.
ReadsMoveForward ==
    [][ ~strayed /\ UNCHANGED _data /\ unread' # unread =>
          _read_offset' = _read_offset + Len(Cells(Head(unread))) ]_packetVars
=============================================================================
