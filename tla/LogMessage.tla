----------------------------- MODULE LogMessage -----------------------------
(***************************************************************************)
(* The protobuf message of a log (Log_pb.js), in protobuf's wire format.   *)
(***************************************************************************)
EXTENDS Integers, Sequences

\* Fields by number: sequence, timestamp, loglevel, pid, tid, tag, msg.
Numbers == {1, 3, 4}
Texts == {2, 5, 6, 7}
Default(n) == IF n \in Numbers THEN 0 ELSE <<>>

\* The last byte of the varint from p on, behind the data if it has no end.
VarintEnd(s, p) == CHOOSE q \in (p .. Len(s)) \cup {Len(s) + 1} :
                     /\ q > Len(s) \/ s[q] < 128
                     /\ \A k \in p .. q - 1 : s[k] >= 128

\* 64 bits wide in the library; what is beyond the cap is beyond every length and number.
Cap == 2 ^ 23
Capped(n) == IF n > Cap THEN Cap ELSE n

Varint(s, p) == LET last == VarintEnd(s, p)
                    worth[q \in p .. last] == (s[q] % 128) + (IF q = last THEN 0 ELSE 128 * Capped(worth[q + 1]))
                IN IF last > Len(s) THEN -1 ELSE worth[p]

EndGroup == 4

\* The field from p on: its number, its wire type, where its value begins and what follows.
FieldAt(s, p) == LET first == VarintEnd(s, p) + 1
                     body  == VarintEnd(s, first) + 1
                     wire  == s[p] % 8
                 IN [number |-> Varint(s, p) \div 8,
                     wire   |-> wire,
                     from   |-> IF wire = 2 THEN body ELSE first,
                     next   |-> CASE wire = 0 -> body
                                  [] wire = 1 -> first + 8
                                  [] wire = 2 -> IF body > Len(s) + 1 THEN body ELSE body + Varint(s, first)
                                  [] wire = 5 -> first + 4
                                  [] OTHER    -> first]

\* The library throws where a field has no number, is of another type or does not end;
\* so it is here where a group begins, which nobody writes.
Readable(s, f) == /\ f.number > 0 /\ f.wire \in {0, 1, 2, 5} /\ f.next <= Len(s) + 1
                  /\ f.number \in Numbers => f.wire = 0
                  /\ f.number \in Texts => f.wire = 2

ValueOf(s, f) == IF f.number \in Numbers THEN Varint(s, f.from) ELSE SubSeq(s, f.from, f.next - 1)

\* Where the fields begin, one behind the other up to an end of group or an unreadable one.
Begins(s) == LET begins[p \in 1 .. Len(s)] ==
                   \/ p = 1
                   \/ \E q \in 1 .. p - 1 : LET f == FieldAt(s, q)
                                            IN f.wire # EndGroup /\ Readable(s, f) /\ f.next = p /\ begins[q]
             IN {p \in 1 .. Len(s) : begins[p]}

\* deserializeBinaryFromReader: the last field of a number counts, those of other numbers
\* are skipped.
Deserialized(s) ==
  LET Fields == {p \in Begins(s) : FieldAt(s, p).wire # EndGroup}
      Of(n)  == {p \in Fields : FieldAt(s, p).number = n /\ Readable(s, FieldAt(s, p))}
  IN [ok     |-> \A p \in Fields : Readable(s, FieldAt(s, p)),
      fields |-> [n \in Numbers \cup Texts |->
                    IF Of(n) = {} THEN Default(n)
                    ELSE ValueOf(s, FieldAt(s, CHOOSE p \in Of(n) : \A q \in Of(n) : q <= p))]]

\* proto.glog.Log.Level
Level == [INFO |-> 0, DEBUG |-> 1, VERBOSE |-> 2, WARN |-> 3, ERROR |-> 4]
=============================================================================
