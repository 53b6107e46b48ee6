---------------------------- MODULE MCReaderApp ----------------------------
(***************************************************************************)
(* Small files for ReaderApp: the marker is <<183, 183, 219>>, which       *)
(* overlaps itself, a log has up to 6 bytes, a record's key 2.             *)
(***************************************************************************)
EXTENDS ReaderApp

MCByte == 0 .. 255
Marker == <<183, 183, 219>>
Word(n) == <<n % 256, n \div 256>>

Name == <<76, 111>>
Header3(modes) == MAGIC \o <<3, modes>> \o Word(Len(Name)) \o Name \o Marker
Header4 == MAGIC \o <<4>> \o Word(Len(Name)) \o Name \o Marker

\* A record: what is in front of its length, its body, and the log it stands for.
Record(front, body, log, level) == [front |-> front, body |-> body, log |-> log, level |-> level]
Plain3(log) == Record(<<>>, log, log, "INFO")
Zip3(body, log) == Record(<<>>, body, log, "INFO")
Plain4(log) == Record(<<17>>, log, log, "INFO")
Zip4(body, log) == Record(<<33>>, body, log, "INFO")
\* The key <<1, 2>> shifts by 5.
Shifted(body) == [k \in DOMAIN body |-> (body[k] + 5) % 256]
Aes4(log) == Record(<<18, 1, 2>>, Shifted(log), log, "INFO")
AesZip4(body, log) == Record(<<34, 1, 2>>, Shifted(body), log, "INFO")

Stored(r) == r.front \o Word(Len(r.body)) \o r.body \o Marker

\* A file of these records; damage to it is from and to, counted from 0.
Archive(ext, stem, header, records, stored) ==
  LET upTo[k \in 0 .. Len(records)] == IF k = 0 THEN header ELSE upTo[k - 1] \o Stored(records[k])
      bytes == upTo[Len(records)]
      inflated[k \in 0 .. Len(records)] ==
        IF k = 0 THEN <<>> ELSE inflated[k - 1] \o IF ZippedAt(bytes, Len(upTo[k - 1])) THEN records[k].log ELSE <<>>
  IN [ext |-> ext, stem |-> stem, bytes |-> bytes,
      records |-> [k \in DOMAIN records |-> [at |-> Len(upTo[k - 1]), to |-> Len(upTo[k]), data |-> records[k].log,
                                             inflated |-> inflated[k], level |-> records[k].level]],
      damage |-> "none", from |-> 0, to |-> 0, stored |-> stored]

\* What of the file the byte p belongs to, for records without a key.
PartAt(a, front, p) ==
  IF \E k \in DOMAIN a.records : p \in a.records[k].at .. a.records[k].to - 1
    THEN LET r == a.records[CHOOSE k \in DOMAIN a.records : p \in a.records[k].at .. a.records[k].to - 1]
         IN CASE p < r.at + front + 2 -> "length"
              [] p >= r.to - Len(Marker) -> "marker"
              [] OTHER -> "data"
    ELSE "header"

Values == {0, 1, 7, 17, 183, 255}

\* One byte is another one; the file is cut; a page of it has never been written.
Overwritten(a, front) ==
  {[a EXCEPT !.bytes = [@ EXCEPT ![p + 1] = v], !.from = p, !.to = p + 1, !.damage = PartAt(a, front, p)] :
     p \in 0 .. Len(a.bytes) - 1, v \in Values}
Cut(a) == {[a EXCEPT !.bytes = SubSeq(@, 1, n), !.from = n, !.to = Len(a.bytes), !.damage = "cut"] :
             n \in 0 .. Len(a.bytes) - 1}
Zeroed(a) == {[a EXCEPT !.bytes = [p \in DOMAIN @ |-> IF p \in n + 1 .. n + 8 THEN 0 ELSE @[p]],
                        !.from = n, !.to = n + 8, !.damage = "page"] :
                n \in {m \in 0 .. Len(a.bytes) - 8 : m % 4 = 0}}
Damaged(a, front) == {d \in Overwritten(a, front) : d.bytes # a.bytes} \cup Cut(a) \cup Zeroed(a)

-----------------------------------------------------------------------------
\* Stored records: one of each end of the lengths, and parts of a marker in the data.
Plain == Archive(".glog", "a", Header3(0),
                 <<Plain3(<<65>>), Plain3(<<66, 183, 183, 183, 219, 66>>), Plain3(<<67, 183, 183>>), Plain3(<<68, 7>>)>>, TRUE)

Partial == Archive(".glog", "a", Header3(0), <<Plain3(<<65>>), Plain3(<<66, 183, 183>>), Plain3(<<183, 67, 183, 67, 183, 183>>), Plain3(<<68>>)>>, TRUE)

\* Deflate: 200 copies the byte before, 202 the third from the end, into earlier records too.
Zipped == Archive(".glogmmap", "a", Header3(16),
                  <<Zip3(<<65, 66>>, <<65, 66>>), Zip3(<<200, 201>>, <<66, 66>>),
                    Zip3(<<67, 200, 200, 200, 200, 200>>, <<67, 67, 67, 67, 67, 67>>), Zip3(<<202, 68>>, <<67, 68>>)>>, FALSE)

Mixed == Archive(".glog", "b", Header4,
                 <<Plain4(<<65>>), Zip4(<<66, 67>>, <<66, 67>>), Aes4(<<183, 183, 219>>),
                   AesZip4(<<201, 200>>, <<66, 66>>), Plain4(<<68, 68, 68, 68, 68, 68>>)>>, FALSE)

Plain4s == Archive(".glog", "b", Header4, <<Plain4(<<65>>), Plain4(<<66, 183, 183>>), Plain4(<<67, 17>>), Plain4(<<68>>)>>, TRUE)

\* Messages: a sequence of two bytes; a timestamp, and a field that nobody knows; two levels
\* of which the last counts, and an end of group.
Message(bytes, level) == Record(<<>>, bytes, bytes, level)
Messages == Archive(".glog", "c", Header3(0),
                    <<Message(<<8, 172, 2, 24, Level.WARN>>, "WARN"), Message(<<18, 2, 49, 50, 64, 9>>, "INFO"),
                      Message(<<24, Level.ERROR, 24, Level.DEBUG, 28>>, "DEBUG")>>, TRUE)

Gone == [ext |-> ".glog", stem |-> "d", bytes |-> Absent, records |-> <<>>, damage |-> "none", from |-> 0, to |-> 0, stored |-> FALSE]
Other == [Gone EXCEPT !.ext = ".txt"]

One(file, decode) == [disk |-> <<file>>, drops |-> {[files |-> <<1>>, decode |-> decode]}, dirs |-> {"x"}]

\* Two drops into one of two directories, of files that share a stem, are gone or are others.
Session == [disk |-> <<Plain, Zipped, Gone, Other, Messages>>,
            drops |-> {[files |-> <<1, 2, 1>>, decode |-> FALSE], [files |-> <<5, 1, 3, 2>>, decode |-> TRUE],
                       [files |-> <<1, 4>>, decode |-> FALSE], [files |-> <<>>, decode |-> FALSE]},
            dirs |-> {"x", "y"}]

Intact == {One(f, FALSE) : f \in {Plain, Partial, Zipped, Mixed, Plain4s}} \cup {One(Messages, TRUE)}
Broken == {One(f, FALSE) : f \in Damaged(Plain, 0) \cup Damaged(Partial, 0) \cup Damaged(Zipped, 0) \cup Damaged(Mixed, 1) \cup Damaged(Plain4s, 1)}
Sessions == Intact \cup Broken \cup {Session}
=============================================================================
