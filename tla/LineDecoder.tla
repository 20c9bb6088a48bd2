----------------------------- MODULE LineDecoder -----------------------------
(***************************************************************************)
(* The decoder that cuts a board's output into log lines (src/src/logs.rs, *)
(* `LineDecoder`).  Bytes arrive in reads of any size; a line ends at a    *)
(* newline, or as a fragment at MAX_LINE_BYTES.                            *)
(***************************************************************************)
EXTENDS Integers, SequencesExt

CONSTANTS
  Newline,   \* the byte that ends a line
  MaxLine    \* MAX_LINE_BYTES

ASSUME DecoderAssumption == MaxLine \in Nat \ {0}

Line(text, fragment) == [text |-> text, fragment |-> fragment]

FeedByte(decoder, byte) ==
  LET grown == Append(decoder.pending, byte) IN
  IF byte = Newline
    THEN [pending |-> <<>>, lines |-> Append(decoder.lines, Line(decoder.pending, FALSE))]
  ELSE IF Len(grown) = MaxLine
    THEN [pending |-> <<>>, lines |-> Append(decoder.lines, Line(grown, TRUE))]
  ELSE [decoder EXCEPT !.pending = grown]

(* What a read of bytes adds to an unfinished line.                         *)
Feed(pending, bytes) ==
  LET fed[n \in 0 .. Len(bytes)] ==
        IF n = 0 THEN [pending |-> pending, lines |-> <<>>] ELSE FeedByte(fed[n - 1], bytes[n])
  IN fed[Len(bytes)]

-----------------------------------------------------------------------------
(* The text that lines were cut from.                                       *)
Text(line) == IF line.fragment THEN line.text ELSE Append(line.text, Newline)
Spelled(lines) == FlattenSeq([i \in DOMAIN lines |-> Text(lines[i])])

(* The lines of a text, stated without the decoder: they spell it up to an  *)
(* unfinished rest, hold no newline, and a fragment is exactly a full line. *)
AreLinesOf(lines, rest, bytes) ==
  /\ Spelled(lines) \o rest = bytes
  /\ Len(rest) < MaxLine /\ ~Contains(rest, Newline)
  /\ \A i \in DOMAIN lines :
       /\ ~Contains(lines[i].text, Newline)
       /\ lines[i].fragment <=> Len(lines[i].text) = MaxLine

=============================================================================
