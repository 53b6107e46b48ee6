--------------------------- MODULE InflateStream ---------------------------
(***************************************************************************)
(* pako's class Inflate: a stream that is pushed into it piece by piece,   *)
(* and the chunks of output that it hands to onData.  A session is an      *)
(* object with its options and one stream for it; the client pushes the    *)
(* pieces, as large as it likes, or record by record with Z_SYNC_FLUSH as  *)
(* FileReader.decompress does (glog_reader.js).                            *)
(***************************************************************************)
EXTENDS Inflate

CONSTANTS Sessions, \* [raw, bits, dictionary, flush, bytes, cuts, plain, ends]
          Pieces    \* how many bytes a client pushes at a time

\* windowBits within the ranges that stand for a kind of wrapping; a client that flushes
\* record by record pushes all of them.
ASSUME SessionAssumption ==
  /\ Pieces \subseteq Nat \ {0}
  /\ \A s \in Sessions : /\ s.raw \in BOOLEAN /\ s.bits \in -15 .. 47
                         /\ s.dictionary \in Seq(Byte) /\ s.bytes \in Seq(Byte)
                         /\ s.flush \in {"NO_FLUSH", "SYNC_FLUSH", "FINISH"}
                         /\ s.flush = "SYNC_FLUSH" =>
                              s.cuts \subseteq 1 .. Len(s.bytes) /\ (s.bytes # <<>> => Len(s.bytes) \in s.cuts)

VARIABLES session,
          pushed,   \* bytes of the session's stream that were pushed
          flush,    \* flush mode of the push in progress
          ended, err,
          chunks,   \* what onData was given, in order
          calls     \* whether the push in progress has called inflate again: "first", "again"

vars == <<inflateVars, session, pushed, flush, ended, err, chunks, calls>>
streamVars == <<session, pushed, flush, ended, err, chunks, calls>>

\* The constructor: what raw and windowBits (0 where it is not given) ask of inflateInit2.
WindowBits(raw, bits) == LET given == IF bits = 0 THEN 15 ELSE bits
                         IN IF raw /\ given \in 0 .. 15 THEN -given
                            ELSE IF given \in 0 .. 15 /\ bits = 0 THEN given + 32
                            ELSE IF given \in 16 .. 47 /\ given % 16 = 0 THEN given + 15
                            ELSE given

\* inflateInit2: bit 4 of a positive number is for gzip, bit 5 for either kind.
WrapOf(bits) == IF bits < 0 THEN {} ELSE CASE bits \div 16 = 0 -> {"zlib"}
                                           [] bits \div 16 = 1 -> {"gzip"}
                                           [] bits \div 16 = 2 -> {"zlib", "gzip"}

Created(s) == LET bits == WindowBits(s.raw, s.bits)
              IN NewState(WrapOf(bits), IF bits < 0 THEN -bits ELSE bits % 16)

\* A dictionary goes into the window; a raw stream takes it when it is created.
WithDictionary(w, s, dictionary) == UpdateWindow(w, 2^s.wbits, dictionary)

Init == /\ session \in Sessions
        /\ st = [Created(session) EXCEPT !.havedict = session.raw /\ session.dictionary # <<>>]
        /\ win = IF session.raw /\ session.dictionary # <<>>
                   THEN WithDictionary(NoWindow, Created(session), session.dictionary) ELSE NoWindow
        /\ z = [input |-> <<>>, next |-> 0, output |-> <<>>]
        /\ call = [flush |-> "NO_FLUSH", in0 |-> 0, out0 |-> 0]
        /\ pc = "idle" /\ ret = "OK"
        /\ history = <<>>
        /\ pushed = 0 /\ flush = "NO_FLUSH"
        /\ ended = FALSE /\ err = "OK"
        /\ chunks = <<>> /\ calls = "first"

-----------------------------------------------------------------------------
Remaining == Len(session.bytes) - pushed

\* The next record of a session that is read by records, any piece of another one.
NextPieces == IF session.flush = "SYNC_FLUSH"
                THEN {(CHOOSE c \in session.cuts : c > pushed /\ \A d \in session.cuts : d > pushed => c <= d) - pushed}
                ELSE {n \in Pieces : n <= Remaining} \cup {Remaining}

\* Mutant of Accepts: an object that has ended takes more.
AcceptsAll == TRUE

\* push does nothing when the object has ended.
Accepts == ~ended

\* FINISH is for the last piece only.
Push == /\ pc = "idle" /\ Accepts /\ Remaining > 0
        /\ \E n \in NextPieces :
             /\ z' = [z EXCEPT !.input = SubSeq(session.bytes, pushed + 1, pushed + n), !.next = 0]
             /\ pushed' = pushed + n
             /\ flush' = IF session.flush = "FINISH" /\ n < Remaining THEN "NO_FLUSH" ELSE session.flush
        /\ pc' = "loop"
        /\ UNCHANGED <<st, win, call, ret, history, session, ended, err, chunks, calls>>

\* The loop of push: a new buffer where the old one is full, or always for SYNC_FLUSH.
CallInflate == /\ pc = "loop"
               /\ z' = IF Room = 0 \/ flush = "SYNC_FLUSH" THEN [z EXCEPT !.output = <<>>] ELSE z
               /\ st' = st
               /\ Called(flush)
               /\ calls' = "first"
               /\ UNCHANGED <<win, ret, history, session, pushed, flush, ended, err, chunks>>

\* onEnd: with an error nothing is kept.
End(code) == /\ err' = code
             /\ ended' = TRUE
             /\ pc' = "idle"

WantsDictionary == ret = "NEED_DICT" /\ calls = "first" /\ session.dictionary # <<>>

\* inflateSetDictionary, and on with the stream: the dictionary must be the one it names.
SetDictionary == /\ pc = "back" /\ WantsDictionary
                 /\ IF Adler32(One, session.dictionary) = st.check
                      THEN /\ win' = WithDictionary(win, st, session.dictionary)
                           /\ st' = [st EXCEPT !.havedict = TRUE]
                           /\ z' = z
                           /\ Called(flush)
                           /\ calls' = "again"
                           /\ UNCHANGED <<ret, history, session, pushed, flush, ended, err, chunks>>
                      ELSE /\ End("NEED_DICT")
                           /\ chunks' = <<>>
                           /\ UNCHANGED <<z, st, win, call, ret, history, session, pushed, flush, calls>>

MoreFollows == /\ ret = "STREAM_END" /\ Have > 0
               /\ st.wrap # {}
               /\ z.input[z.next + 1] # 0

\* inflateReset: the window's size goes, its array stays.
Forgotten(w) == [w EXCEPT !.size = 0, !.have = 0, !.next = 0]

\* Another member behind the end of one: the same object starts over.
NextMember == /\ pc = "back" /\ MoreFollows
              /\ win' = Forgotten(win)
              /\ st' = Restarted(st)
              /\ z' = z
              /\ Called(flush)
              /\ calls' = "again"
              /\ UNCHANGED <<ret, history, session, pushed, flush, ended, err, chunks>>

Fail == /\ pc = "back" /\ ~WantsDictionary
        /\ ret \in {"DATA_ERROR", "NEED_DICT"}
        /\ End(ret)
        /\ chunks' = <<>>
        /\ UNCHANGED <<z, st, win, call, ret, history, session, pushed, flush, calls>>

\* Mutant of Due: output is handed over when the buffer is full, and at the end.
DueWhenFull == Room = 0 \/ ret = "STREAM_END"

\* What is in the buffer is handed over when it is full, at the end, and for SYNC_FLUSH.
Due == Room = 0 \/ ret = "STREAM_END" \/ (ret = "OK" /\ flush = "SYNC_FLUSH")

\* Mutant of GoesOn: the loop ends with the input, though a full buffer holds output back.
GoesOnForInput == Have > 0

\* Mutant of GoesOn: only the end of the stream ends the loop.
GoesOnToTheEnd == ret # "STREAM_END"

GoesOn == (ret = "OK" /\ Room = 0) \/ Have > 0

Deliver == /\ pc = "back" /\ ~MoreFollows
           /\ ret \in {"OK", "BUF_ERROR", "STREAM_END"}
           /\ chunks' = IF z.output # <<>> /\ Due THEN Append(chunks, z.output) ELSE chunks
           /\ IF ret = "STREAM_END" THEN End("OK")
              ELSE /\ pc' = IF GoesOn THEN "loop" ELSE "idle"
                   /\ UNCHANGED <<ended, err>>
           /\ UNCHANGED <<z, st, win, call, ret, history, session, pushed, flush, calls>>

Pushing == \/ CallInflate \/ SetDictionary \/ NextMember \/ Fail \/ Deliver
           \/ Inflating /\ UNCHANGED streamVars

\* The client has no more to push, or may not.
Finished == /\ pc = "idle" /\ (~Accepts \/ Remaining = 0)
            /\ UNCHANGED vars

Next == Push \/ Pushing \/ Finished

Spec == Init /\ [][Next]_vars

\* push runs on until it returns: weak fairness of Pushing, which is possible wherever pc is
\* not idle (or TLC reports a deadlock). Nothing makes a client push.
FairSpec == Spec /\ ([]<>(pc = "idle") \/ []<><<Pushing>>_vars)

-----------------------------------------------------------------------------
Modes == {"HEAD", "FLAGS", "TIME", "OS", "EXLEN", "EXTRA", "NAME", "COMMENT", "HCRC", "DICTID", "DICT", "TYPE", "STORED",
          "COPY", "TABLE", "LENLENS", "CODELENS", "LEN", "LENEXT", "DIST", "DISTEXT", "MATCH", "LIT", "CHECK", "LENGTH",
          "DONE", "BAD"}

TypeOK == /\ st.mode \in Modes
          /\ pc \in {"idle", "loop", "run", "fast", "back"}
          /\ ret \in {"OK", "STREAM_END", "BUF_ERROR", "DATA_ERROR", "NEED_DICT"}
          /\ Len(st.check) = 32 /\ Len(st.flags) = 16
          /\ Len(st.hold) <= 32 /\ \A i \in DOMAIN st.hold : st.hold[i] \in Bit
          /\ win.have \in 0 .. win.size
          /\ ended \in BOOLEAN

IsPrefix(s, t) == Len(s) <= Len(t) /\ SubSeq(t, 1, Len(s)) = s

\* Whatever the pieces, the flush mode and the buffers, by either decoder, no byte comes
\* out but the next one of the plain text (inflate, inflate_fast).
Faithful == IsPrefix(history, session.plain)

\* When everything is pushed the object says of the stream what is true of it: it came to
\* its end, it is still open, or it is damaged; and what it handed over is all of it.
Result(s) == CASE s.ends = "end"  -> ended /\ err = "OK" /\ Concat(chunks) = s.plain
               [] s.ends = "open" -> ~ended
               [] s.ends = "bad"  -> ended /\ err = "DATA_ERROR" /\ chunks = <<>>
               [] s.ends = "dict" -> ended /\ err = "NEED_DICT"
Told == pc = "idle" /\ Remaining = 0 => Result(session)

\* A record pushed with SYNC_FLUSH is out when push returns, whole: nothing stays behind
\* for the next one, whose push would throw the buffer away.
RecordsIntact == pc = "idle" /\ session.flush = "SYNC_FLUSH" /\ ~ended => Concat(chunks) = history

DataFollows == st.mode \notin {"CHECK", "LENGTH", "DONE", "BAD"}

\* The window holds the member's output before the call in progress, so a match may reach
\* back as far as it says: output, and the dictionary before it (updatewindow).
WindowIsHistory == /\ Shaped(win)
                   /\ pc \in {"run", "fast"} /\ DataFollows =>
                        Holds(win, (IF st.havedict THEN session.dictionary ELSE <<>>)
                                   \o LastOf(st.total, SubSeq(history, 1, Len(history) - Len(Written))))

\* The fast decoder, which never asks whether there is input or room, takes no byte that
\* is not there, puts none beyond the buffer, and gives back no byte it has not taken.
FastStaysInside == /\ z.next \in 0 .. Len(z.input)
                   /\ Len(z.output) <= CHUNK
                   /\ pc \in {"run", "fast", "back"} => z.next >= call.in0

\* An error is the last word: the object neither delivers nor reads on.
Sticky == [][ended => UNCHANGED <<ended, err, chunks, history>>]_vars

\* push returns.
Returns == pc = "loop" ~> pc = "idle"
=============================================================================
