-------------------------------- MODULE Chunker --------------------------------
(***************************************************************************)
(* gelo-chunker: overlapping chunks of a text, cut after a separator in    *)
(* the last quarter of the target where there is one.                      *)
(*                                                                         *)
(* A text is a sequence of bytes in which "~" continues a character and    *)
(* "_" is white space.  Positions count from 0 and a slice ends before its *)
(* second bound.  The loop is cut after Fuel rounds, as it need not end.   *)
(***************************************************************************)
EXTENDS Integers, Sequences, TLC

CONSTANT Fuel   \* rounds of the chunking loop that are followed

Slice(text, from, to) == SubSeq(text, from + 1, to)
Minus(a, b) == IF a < b THEN 0 ELSE a - b

IsCharBoundary(s, i) == i = 0 \/ i = Len(s) \/ s[i + 1] # "~"

FloorCharBoundary(s, index) ==
  IF index >= Len(s) THEN Len(s)
  ELSE CHOOSE i \in 0 .. index : IsCharBoundary(s, i) /\ \A j \in i + 1 .. index : ~IsCharBoundary(s, j)

CeilCharBoundary(s, index) ==
  IF index >= Len(s) THEN Len(s)
  ELSE CHOOSE i \in index .. Len(s) : IsCharBoundary(s, i) /\ \A j \in index .. i - 1 : ~IsCharBoundary(s, j)

(* Where the last occurrence of a separator within [from, to) begins. *)
Occurrences(text, from, to, sep) == {p \in from .. to - Len(sep) : Slice(text, p, p + Len(sep)) = sep}
Latest(positions) == CHOOSE p \in positions : \A q \in positions : q <= p

(* After the last occurrence of the first separator that occurs.           *)
SplitWithin(text, from, to, separators) ==
  LET found == {k \in DOMAIN separators : Occurrences(text, from, to, separators[k]) # {}}
      first == separators[CHOOSE k \in found : \A l \in found : k <= l]
  IN IF found = {} THEN to ELSE Latest(Occurrences(text, from, to, first)) + Len(first)

FindSplitPoint(text, target, separators) ==
  LET from == FloorCharBoundary(text, Minus(target, target \div 4))
      to == FloorCharBoundary(text, target)
  IN IF from >= to THEN to ELSE SplitWithin(text, from, to, separators)

(* Mutant: the next chunk begins where the target, not the cut, ended. *)
NextPosFromTarget(text, pos, actualEnd, cfg) ==
  CeilCharBoundary(text, Minus(pos + (4 * cfg.chunk_size), 4 * cfg.chunk_overlap))

NextPos(text, pos, actualEnd, cfg) ==
  LET next == CeilCharBoundary(text, Minus(actualEnd, 4 * cfg.chunk_overlap))
  IN IF next >= actualEnd THEN actualEnd ELSE next

(* One round: the tail, or the next chunk unless it is too short. *)
Round(text, state, cfg) ==
  LET pos == CeilCharBoundary(text, state.pos)
      target == 4 * cfg.chunk_size
      end == FloorCharBoundary(text, pos + target)
      actualEnd == FloorCharBoundary(text, pos + FindSplitPoint(Slice(text, pos, end), target, cfg.separators))
  IN IF state.done \/ state.pos >= Len(text) THEN [pos |-> state.pos, done |-> TRUE, chunks |-> state.chunks]
     ELSE IF Len(text) - pos <= target
     THEN [pos |-> state.pos, done |-> TRUE, chunks |-> Append(state.chunks, <<pos, Len(text)>>)]
     ELSE [pos |-> NextPos(text, pos, actualEnd, cfg), done |-> FALSE,
           chunks |-> IF actualEnd - pos >= 4 * cfg.min_chunk_size THEN Append(state.chunks, <<pos, actualEnd>>) ELSE state.chunks]

SplitText(text, cfg) ==
  LET after[n \in 0 .. Fuel] ==
        IF n = 0 THEN [pos |-> 0, done |-> FALSE, chunks |-> <<>>] ELSE Round(text, after[n - 1], cfg)
  IN IF Len(text) <= 4 * cfg.chunk_size THEN [pos |-> 0, done |-> TRUE, chunks |-> <<<<0, Len(text)>>>>]
     ELSE after[Fuel]

Chunk(text, cfg) ==
  IF \A i \in DOMAIN text : text[i] = "_" THEN [pos |-> 0, done |-> TRUE, chunks |-> <<>>] ELSE SplitText(text, cfg)

(* What a request overrides of the defaults. *)
BuildChunkerConfig(overrides) == overrides @@ [chunk_size |-> 1600, chunk_overlap |-> 100, min_chunk_size |-> 600]
=============================================================================
