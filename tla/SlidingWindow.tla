--------------------------- MODULE SlidingWindow ---------------------------
(***************************************************************************)
(* The circular window of inflate (pako.js): the last bytes of output, for *)
(* matches that reach back behind the buffer of the call in progress.      *)
(***************************************************************************)
EXTENDS Integers, Sequences

\* wsize, whave, wnext and window of InflateState; window === null is ~alloc.
NoWindow == [alloc |-> FALSE, size |-> 0, have |-> 0, next |-> 0, data |-> <<>>]

\* The n last elements of a sequence.
LastOf(n, s) == SubSeq(s, Len(s) - n + 1, Len(s))

\* Bytes set into an array behind its first at elements.
Put(data, at, bytes) == [i \in 1 .. Len(data) |-> IF i - at \in 1 .. Len(bytes) THEN bytes[i - at] ELSE data[i]]

Allocated(w, size) == IF w.alloc THEN w
                      ELSE [alloc |-> TRUE, size |-> size, have |-> 0, next |-> 0, data |-> [i \in 1 .. size |-> 0]]

\* More than fits: the window is its last part, from the start.
Replace(w, bytes) == [w EXCEPT !.data = Put(@, 0, LastOf(w.size, bytes)),
                               !.next = 0,
                               !.have = w.size]

\* Up to the end of the window, and the rest from the start again.
Wrap(w, bytes) == LET dist == w.size - w.next
                      rest == Len(bytes) - dist
                  IN [w EXCEPT !.data = Put(Put(@, w.next, SubSeq(bytes, 1, dist)), 0, LastOf(rest, bytes)),
                               !.next = rest,
                               !.have = w.size]

\* Mutant of Extend: have is not held at the window's size.
ExtendOn(w, bytes) == LET dist == Len(bytes)
                      IN [w EXCEPT !.data = Put(@, w.next, bytes),
                                   !.next = IF w.next + dist = w.size THEN 0 ELSE w.next + dist,
                                   !.have = @ + dist]

\* Up to the end of the window at most.
Extend(w, bytes) == LET dist == Len(bytes)
                    IN [w EXCEPT !.data = Put(@, w.next, bytes),
                                 !.next = IF w.next + dist = w.size THEN 0 ELSE w.next + dist,
                                 !.have = IF @ < w.size THEN @ + dist ELSE @]

\* Mutant of UpdateWindow: what ends one byte beyond the window's end is taken to fit.
UpdateWindowTight(w0, size, bytes) ==
  LET w == Allocated(w0, size)
  IN IF Len(bytes) >= w.size THEN Replace(w, bytes)
     ELSE IF Len(bytes) > w.size - w.next + 1 THEN Wrap(w, bytes)
     ELSE Extend(w, bytes)

\* updatewindow: the bytes written since the last time are added.
UpdateWindow(w0, size, bytes) ==
  LET w == Allocated(w0, size)
  IN IF Len(bytes) >= w.size THEN Replace(w, bytes)
     ELSE IF Len(bytes) > w.size - w.next THEN Wrap(w, bytes)
     ELSE Extend(w, bytes)

\* Where the byte is, counted from 0, that was written n bytes before the end.
Behind(w, n) == IF n > w.next THEN w.size - (n - w.next) ELSE w.next - n

\* The window holds the last have bytes of what was written.
Holds(w, written) == \A n \in 1 .. w.have :
                        n <= Len(written) /\ w.data[Behind(w, n) + 1] = written[Len(written) - n + 1]

\* The shape that Holds needs: the window is used from its start and then all around.
Shaped(w) == /\ w.have \in 0 .. w.size
             /\ w.have < w.size => w.next = w.have
             /\ w.have = w.size /\ w.size > 0 => w.next \in 0 .. w.size - 1
=============================================================================
