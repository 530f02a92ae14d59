---------------------------- MODULE MCMarkerReader ----------------------------
(* Datastreams for MarkerReader, put together from markers and scans, and  *)
(* what transmission may do to the data of a scan.                         *)
EXTENDS MarkerReader

M(code, data) == [code |-> code, data |-> data]
Parameterless == {M_SOI, M_EOI}
Coded(m) == <<255, m.code>> \o
              IF m.code \in Parameterless THEN <<>>
              ELSE <<0, Len(m.data) + 2>> \o m.data
Joined(ms) == FlattenSeq([i \in DOMAIN ms |-> Coded(ms[i])])

(* The MCU k of a scan; every fifth has an FF in it.                       *)
MCU(k) == IF k % 5 = 3 THEN <<k, 255>> ELSE <<k, k + 40>>
MCUs(n) == [k \in 1 .. n |-> MCU(k)]
Stuffed(bytes) ==
    FlattenSeq([i \in DOMAIN bytes |->
                  IF bytes[i] = 255 THEN <<255, 0>> ELSE <<bytes[i]>>])

(* A scan of n MCUs as the sequence of its intervals of r MCUs and, at the *)
(* even places, the restart markers between them.                          *)
Interval(n, r, i) ==
    Stuffed(FlattenSeq(SubSeq(MCUs(n), (i - 1) * r + 1, Min({i * r, n}))))
RST(i) == <<255, M_RST0 + ((i - 1) % 8)>>
Pieces(n, r) ==
    [p \in 1 .. 2 * ((n + r - 1) \div r) - 1 |->
       IF (p % 2) = 1 THEN Interval(n, r, (p + 1) \div 2) ELSE RST(p \div 2)]

(* Damage: the pieces that replace piece p, and the intervals in doubt, as *)
(* the comment on jpeg_resync_to_restart has it.                           *)
Dropped(ps, from, to) == SubSeq(ps, 1, from - 1) \o SubSeq(ps, to + 1, Len(ps))
Put(ps, p, bytes) == [ps EXCEPT ![p] = bytes]
Damage(ps, doubt) == [pieces |-> ps, doubt |-> doubt]
Renumbered(i, d) == RST(i + d)
Doubt(i, d) == CASE d \in {3, 4, 5} -> {}
                 [] d = 1 -> {i + 1, i + 2}
                 [] d = 2 -> {i + 1, i + 2, i + 3}
                 [] d \in {6, 7} -> {i + 1}
Damages(n, r) ==
    LET ps == Pieces(n, r)
        last == (Len(ps) + 1) \div 2
        Gaps == 1 .. last - 1
    IN  {Damage(Dropped(ps, 2 * i, 2 * i), {i + 1}) : i \in Gaps}
          \cup {Damage(Dropped(ps, 2 * i, 2 * i + 1), {i + 1}) : i \in Gaps}
          \cup {Damage(Dropped(ps, 2 * i, 2 * i + 3), {i + 1, i + 2}) :
                  i \in Gaps \ {last - 1}}
          \cup {Damage(Put(ps, 2 * i, RST(i) \o RST(i)), {i + 1}) : i \in Gaps}
          \cup {Damage(Put(ps, 2 * i, Renumbered(i, d)), Doubt(i, d)) :
                  i \in Gaps, d \in 1 .. 7}
          \cup {Damage(Put(ps, 2 * i, <<255, 5>>), {i + 1}) : i \in Gaps}
          \cup {Damage(Put(ps, 2 * i - 1, Append(ps[2 * i - 1], 99)), {}) :
                  i \in 1 .. last}
          \cup {Damage(Put(ps, 2 * i - 1, Tail(ps[2 * i - 1])), {i}) :
                  i \in 1 .. last}

(* Datastreams of one damaged scan.                                        *)
Limits(com, app0, app14) ==
    [c \in Saveable |-> CASE c = M_COM -> com [] c = M_APP0 -> app0
                          [] OTHER -> app14]
Frame == <<M(192, <<7>>)>>
DRI(r) == <<M(M_DRI, <<0, r>>)>>
Scan == <<M(M_SOS, <<1>>)>>
SOI == <<M(M_SOI, <<>>)>>
EOI == <<M(M_EOI, <<>>)>>

Job(bytes, limits, markers, mcus, suspect, damaged) ==
    [bytes |-> bytes, suspends |-> TRUE, limits |-> limits,
     scans |-> [s \in DOMAIN mcus |-> Len(mcus[s])], markers |-> markers,
     mcus |-> mcus, suspect |-> suspect, damaged |-> damaged, refused |-> FALSE]

InDoubt(n, r, doubt) ==
    {<<1, k>> : k \in {k \in 1 .. n : (k + r - 1) \div r \in doubt}}
Damaged(n, r) ==
    LET head == SOI \o DRI(r) \o Frame \o Scan
    IN  {Job(Joined(head) \o FlattenSeq(d.pieces) \o Joined(EOI),
             Limits(0, 0, 0), head \o EOI, <<MCUs(n)>>,
             InDoubt(n, r, d.doubt), TRUE) : d \in Damages(n, r)}

(* A datastream of two scans with markers everywhere, whose parameters     *)
(* look like markers, with FFs before a marker and an FF/00 in the data.   *)
Head2 == SOI \o <<M(M_APP0, <<JFIF, 255, 217>>), M(M_COM, <<1, 255, 216, 2>>),
                  M(M_APP14, <<Adobe, 1, 2>>), M(219, <<255, 218>>)>>
           \o DRI(2) \o Frame \o Scan
Between == DRI(1) \o <<M(M_COM, <<>>), M(196, <<3>>)>> \o Scan
Tail2 == <<M(M_APP0 + 1, <<9>>), M(M_DNL, <<0, 8>>)>> \o EOI
ScanData(n, r) == FlattenSeq(Pieces(n, r))
TwoScans(limits) ==
    Job(Joined(Head2) \o ScanData(3, 2) \o <<255, 255>> \o Joined(Between)
          \o ScanData(3, 1) \o <<255>> \o Joined(Tail2),
        limits, Head2 \o Between \o Tail2, <<MCUs(3), MCUs(3)>>, {}, FALSE)

(* More intervals than there are restart markers, and none.                *)
Simple(head, n, r) ==
    Job(Joined(head) \o ScanData(n, r) \o Joined(EOI), Limits(2, 0, 0),
        head \o EOI, <<MCUs(n)>>, {}, FALSE)
Long == Simple(SOI \o DRI(1) \o Frame \o Scan, 10, 1)
NoRestarts == Simple(SOI \o <<M(M_APP0, <<JFIF>>)>> \o Frame \o Scan, 4, 4)

(* A file that ends early, after n bytes, of which those of d MCUs are     *)
(* there.                                                                  *)
Short == Simple(SOI \o DRI(1) \o Frame \o Scan, 3, 1)
HeadOfShort == Len(Short.bytes) - Len(ScanData(3, 1)) - 2
Whole(n) == Cardinality({i \in 1 .. 3 : n >= Len(ScanData(i, 1))})
Truncated ==
    {[Short EXCEPT !.bytes = SubSeq(@, 1, HeadOfShort + n), !.suspends = FALSE,
                   !.damaged = TRUE,
                   !.suspect = {<<1, k>> : k \in Whole(n) + 1 .. 3}] :
       n \in 0 .. Len(ScanData(3, 1)) + 1}

(* Datastreams that the library refuses, up to the marker it refuses.      *)
Refuse(ms, then) ==
    [Job(Joined(ms) \o then \o <<0, 0, 0, 0, 0, 0>>, Limits(0, 0, 0), ms, <<>>,
         {}, TRUE) EXCEPT !.refused = TRUE]
RefusedJobs ==
    {Refuse(<<>>, <<255, 217>>), Refuse(SOI, <<255, 216>>),
     Refuse(SOI \o Frame, Joined(Frame)), Refuse(SOI, Joined(Scan)),
     Refuse(SOI, <<255, 195>>), Refuse(SOI, <<255, M_DRI, 0, 3>>)}

Undamaged ==
    {TwoScans(Limits(0, 0, 0)), TwoScans(Limits(3, 1, 1)),
     TwoScans(Limits(9, 9, 9)), Long, NoRestarts,
     [TwoScans(Limits(9, 2, 0)) EXCEPT !.suspends = FALSE]}
Seconds == {NoRestarts, Short}
AllJobs == Undamaged \cup Seconds \cup Truncated \cup RefusedJobs
             \cup Damaged(5, 1) \cup Damaged(5, 2)
=============================================================================
