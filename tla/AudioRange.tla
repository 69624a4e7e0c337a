----------------------------- MODULE AudioRange -----------------------------
(***************************************************************************)
(* The Range header of GET /sessions/{id}/audio and the bytes that are     *)
(* streamed (app/services/jdr/batch/router.py).  The size is the one the   *)
(* file has when the request is answered; the file is opened later.        *)
(***************************************************************************)
EXTENDS Integers, Sequences

CONSTANTS Absent, Malformed, Empty

(* A header: Absent (none, or a blank one), Malformed (another unit,       *)
(* several ranges, no dash), or the integers on each side of the first     *)
(* dash, Empty where there is none.                                        *)
Refused == [status |-> 416]
Whole == [status |-> 200]
Partial(start, end) == [status |-> 206, start |-> start, end |-> end]

Least(a, b) == IF a < b THEN a ELSE b

MutantParseRange(header, size) ==
  IF header = Absent THEN Whole
  ELSE IF size = 0 \/ header = Malformed THEN Refused
  ELSE
    LET suffix == header.start = Empty
        start == IF suffix THEN size - header.end ELSE header.start
        end == IF suffix \/ header.end = Empty THEN size - 1 ELSE header.end
    IN IF \/ suffix /\ (header.end = Empty \/ header.end <= 0)
          \/ start < 0 \/ start >= size \/ end < start
         THEN Refused ELSE Partial(start, Least(end, size - 1))

(* _parse_range_header.                                                    *)
ParseRange(header, size) ==
  IF header = Absent THEN Whole
  ELSE IF size = 0 \/ header = Malformed THEN Refused
  ELSE
    LET suffix == header.start = Empty
        start == CASE ~suffix -> header.start
                   [] suffix /\ header.end = Empty -> -1
                   [] OTHER -> IF size > header.end THEN size - header.end
                                                    ELSE 0
        end == IF suffix \/ header.end = Empty THEN size - 1 ELSE header.end
    IN IF \/ suffix /\ (header.end = Empty \/ header.end <= 0)
          \/ start < 0 \/ start >= size \/ end < start
         THEN Refused ELSE Partial(start, Least(end, size - 1))

(* _iter_file_range: the blocks, as <<first byte, length>>, of a file that *)
(* has length bytes when it is read.                                       *)
Stream(start, length, block, actual) ==
  LET from[sent \in 0 .. length] ==
        LET rest == Least(length - sent, block)
            read == Least(rest, IF actual > start + sent
                                THEN actual - (start + sent) ELSE 0)
        IN IF read = 0 THEN <<>>
           ELSE <<<<start + sent, read>>>> \o from[sent + read]
  IN from[0]
=============================================================================
