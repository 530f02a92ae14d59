----------------------------- MODULE MCEntropy -----------------------------
EXTENDS Entropy, TLC

\* Blocks of 20 coefficients: a run of zeros can be longer than 15.
Block(f) == [k \in 0 .. DCTSIZE2 - 1 |-> IF k \in DOMAIN f THEN f[k] ELSE 0]
Every(dc, ac) == [k \in 0 .. DCTSIZE2 - 1 |-> IF k = 0 THEN dc ELSE ac]

\* Numbers that look random, the large ones rare.
Noise(seed, b) ==
    LET x(k) == ((seed + 977 * b + 131 * k) * (7 * k + 3 * b + 1)) % 1009
    IN  [k \in 0 .. DCTSIZE2 - 1 |-> IF x(k) < 300 THEN 0
                                     ELSE IF x(k) < 900 THEN (x(k) % 7) - 3 ELSE x(k) * 2 - 1900]

\* Gaps, negative values, the last coefficient, blocks with nothing.
Sparse == << Block(0 :> 5 @@ 1 :> -1 @@ 18 :> 3), Block(0 :> -7), Block(0 :> -7 @@ 19 :> -2),
             Block(0 :> 0), Block(0 :> 1 @@ 5 :> 1 @@ 6 :> -6), Block(0 :> 1) >>
\* Every coefficient has correction bits.
Dense == << Every(3, 3), Every(-2, 2), Every(1, -3), Block(0 :> 9 @@ 3 :> -1 @@ 19 :> 1) >>
\* Nothing but EOBs, more than a run may hold.
Empty == [b \in 1 .. 9 |-> Block(0 :> b - 4)]
Random == [b \in 1 .. 3 |-> Noise(116, b)]

Sc(comps, Ss, Se, Ah, Al) == [comps |-> comps, Ss |-> Ss, Se |-> Se, Ah |-> Ah, Al |-> Al]
Last1 == DCTSIZE2 - 1

OneSequential == << Sc(<<1>>, 0, Last1, 0, 0) >>
OneProgressive == << Sc(<<1>>, 0, 0, 0, 1), Sc(<<1>>, 1, 4, 0, 2), Sc(<<1>>, 5, Last1, 0, 1),
                     Sc(<<1>>, 0, 0, 1, 0), Sc(<<1>>, 1, 4, 2, 1), Sc(<<1>>, 1, Last1, 1, 0) >>
TwoSequential == << Sc(<<1, 2>>, 0, Last1, 0, 0) >>
Apart == << Sc(<<2>>, 0, Last1, 0, 0), Sc(<<1>>, 0, Last1, 0, 0) >>
TwoProgressive == << Sc(<<1, 2>>, 0, 0, 0, 1), Sc(<<2>>, 1, Last1, 0, 1),
                     Sc(<<1, 2>>, 0, 0, 1, 0), Sc(<<2>>, 1, Last1, 1, 0) >>

Job(blocks, h, script, arith, optimize, interval) ==
    [blocks |-> blocks, h_samp |-> h, script |-> script, arith_code |-> arith,
     optimize_coding |-> optimize, restart_interval |-> interval,
     dc_tbl |-> <<0, 1>>, ac_tbl |-> <<0, 0>>]

CodingJobs ==
    { Job(<<b>>, <<1>>, s, FALSE, TRUE, i) :
        b \in {Sparse, Dense, Empty, Random}, s \in {OneSequential, OneProgressive}, i \in {0, 2} }
    \cup
    { Job(<<b>>, <<1>>, s, TRUE, FALSE, i) :
        b \in {Sparse, Random}, s \in {OneSequential, OneProgressive}, i \in {0, 2} }
    \cup
    { Job(<<SubSeq(Sparse, 3, 5), Random>>, <<1, 1>>, s, a, ~a, 2) :
        s \in {Apart, TwoProgressive}, a \in BOOLEAN }
    \cup
    { Job(<<Dense, SubSeq(Sparse, 1, 2)>>, <<2, 1>>, s, a, FALSE, i) :
        s \in {TwoSequential, TwoProgressive}, a \in BOOLEAN, i \in {0, 1} }

\* All short scripts from these scans, for an image of one block in each component.
SomeScans ==
    { Sc(c, b[1], b[2], a[1], a[2]) :
        c \in {<<1>>, <<2>>, <<1, 2>>}, b \in {<<0, 0>>, <<0, Last1>>, <<1, 2>>, <<2, Last1>>},
        a \in {<<0, 0>>, <<0, 1>>, <<0, 2>>, <<1, 0>>, <<2, 0>>} }
    \cup { Sc(<<2, 1>>, 0, 0, 0, 0), Sc(<<1>>, 0, 0, 0, 11), Sc(<<1>>, 0, 0, 0, 10),
           Sc(<<3>>, 0, 0, 0, 0), Sc(<<1>>, 2, 1, 0, 0), Sc(<<1>>, 1, DCTSIZE2, 0, 0) }
ScriptJobs ==
    { Job(<< <<Random[1]>>, <<Sparse[1]>> >>, <<1, 1>>, s, FALSE, FALSE, 0) :
        s \in UNION {[1 .. n -> SomeScans] : n \in 1 .. 2} }

AllJobs == CodingJobs \cup ScriptJobs

=============================================================================
