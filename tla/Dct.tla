-------------------------------- MODULE Dct --------------------------------
(***************************************************************************)
(* The transforms of a block and its quantization, in the integer          *)
(* arithmetic of the C code: the forward DCTs (jfdctint.c, jfdctfst.c),    *)
(* the division by reciprocals (jcdctmgr.c), the multipliers (jddctmgr.c)  *)
(* and the inverse DCTs of every size (jidctint.c, jidctred.c,             *)
(* jidctfst.c).  The floating point transforms are left out, and so are    *)
(* the SIMD ones.                                                          *)
(*                                                                         *)
(* A transform is one kernel that is applied to the columns and then to    *)
(* the rows; what differs between the passes is only how far the outputs   *)
(* are shifted.  The kernels keep the names of the source (t10 for tmp10); *)
(* a name that the source assigns again gets a letter.  A factor is        *)
(* FIX(x), that is x * 2^CONST_BITS rounded.                               *)
(***************************************************************************)
EXTENDS Integers, Sequences, CodedData

CONST_BITS == 13
PASS1_BITS == 2
DCTSIZE == 8

Scaled(x) == x * 2 ^ CONST_BITS
RightShift(x, n) == x \div 2 ^ n
Descale(x, n) == (x + 2 ^ (n - 1)) \div 2 ^ n

\* A sequence as it is, of which TLC is to keep the elements.
Kept(s) == s \o <<>>

\* A block is a sequence of rows.  Terms are counted from 0, as in the kernels.
Row(block, r) == [k \in 0 .. Len(block[r]) - 1 |-> block[r][k + 1]]
Column(block, c) == [k \in 0 .. Len(block) - 1 |-> block[k + 1][c]]
Turned(block) == Kept([r \in 1 .. Len(block[1]) |-> Kept([c \in 1 .. Len(block) |-> block[c][r]])])

\* The table that prepare_range_limit_table() makes, as the inverse DCTs index it with
\* x & RANGE_MASK: a sample, and one of the ends when x is as far out as 128 + 512.
RangeLimit(x) ==
    LET m == x % 1024
    IN  IF m < 128 THEN m + 128 ELSE IF m < 512 THEN 255 ELSE IF m < 896 THEN 0 ELSE m - 896

-----------------------------------------------------------------------------
(***************************************************************************)
(* The kernels of the inverse transforms.  i holds the terms; half is what *)
(* is added so that the shift that follows rounds.  Output x is even + odd, *)
(* the output opposite to it even - odd, and the middle one of an odd      *)
(* number of outputs even alone.                                           *)
(***************************************************************************)
Kernel2(i, half) ==
    LET t0 == (-5906) * i[7] + 6967 * i[5] - 10426 * i[3] + 29692 * i[1]
    IN  [even |-> <<4 * Scaled(i[0]) + half>>, odd |-> <<t0>>]

Kernel3(i, half) ==
    LET t0 == Scaled(i[0]) + half   t12 == 5793 * i[2]   t10 == t0 + t12
        t2 == t0 - t12 - t12   t0b == 10033 * i[1]
    IN  [even |-> <<t10, t2>>, odd |-> <<t0b>>]

Kernel4(i, half) ==
    LET t0 == 2 * Scaled(i[0]) + half   t2 == 15137 * i[2] - 6270 * i[6]
        t0b == (-1730) * i[7] + 11893 * i[5] - 17799 * i[3] + 8697 * i[1]
        t2b == (-4176) * i[7] - 4926 * i[5] + 7373 * i[3] + 20995 * i[1]
    IN  [even |-> <<t0 + t2, t0 - t2>>, odd |-> <<t2b, t0b>>]

Kernel5(i, half) ==
    LET t12 == Scaled(i[0]) + half   z1 == 6476 * (i[2] + i[4])
        z2 == 2896 * (i[2] - i[4])   z3 == t12 + z2   t10 == z3 + z1   t11 == z3 - z1
        t12b == t12 - 4 * z2   z1b == 6810 * (i[1] + i[3])   t0 == z1b + 4209 * i[1]
        t1 == z1b - 17828 * i[3]
    IN  [even |-> <<t10, t11, t12b>>, odd |-> <<t0, t1>>]

Kernel6(i, half) ==
    LET t0 == Scaled(i[0]) + half   t10 == 5793 * i[4]   t1 == t0 + t10
        t11 == t0 - t10 - t10   t0b == 10033 * i[2]   t10b == t1 + t0b   t12 == t1 - t0b
        t1b == 2998 * (i[1] + i[5])   t0c == t1b + Scaled(i[1] + i[3])
        t2 == t1b + Scaled(i[5] - i[3])   t1c == Scaled(i[1] - i[3] - i[5])
    IN  [even |-> <<t10b, t11, t12>>, odd |-> <<t0c, t1c, t2>>]

Kernel7(i, half) ==
    LET t13 == Scaled(i[0]) + half   t10 == 7223 * (i[4] - i[6])
        t12 == 2578 * (i[2] - i[4])   t11 == t10 + t12 + t13 - 15083 * i[4]
        t0 == i[2] + i[6]   z2 == i[4] - t0   t0b == 10438 * t0 + t13
        t10b == t10 + t0b - 637 * i[6]   t12b == t12 + t0b - 20239 * i[2]
        t13b == t13 + 11585 * z2   t1 == 7663 * (i[1] + i[3])   t2 == 1395 * (i[1] - i[3])
        t0c == t1 - t2   t1b == t1 + t2   t2b == (-11295) * (i[3] + i[5])
        t1c == t1b + t2b   z2b == 5027 * (i[1] + i[5])   t0d == t0c + z2b
        t2c == t2b + z2b + 15326 * i[5]
    IN  [even |-> <<t10b, t11, t12b, t13b>>, odd |-> <<t0d, t1c, t2c>>]

Kernel8(i, half) ==
    LET z1 == 4433 * (i[2] + i[6])   t2 == z1 - 15137 * i[6]   t3 == z1 + 6270 * i[2]
        t0 == Scaled(i[0] + i[4]) + half   t1 == Scaled(i[0] - i[4]) + half
        z1b == (-7373) * (i[7] + i[1])   z2 == (-20995) * (i[5] + i[3])
        z3 == i[7] + i[3]   z4 == i[5] + i[1]   z5 == 9633 * (z3 + z4)
        z3b == (-16069) * z3 + z5   z4b == (-3196) * z4 + z5
        t0b == 2446 * i[7] + z1b + z3b   t1b == 16819 * i[5] + z2 + z4b
        t2b == 25172 * i[3] + z2 + z3b   t3b == 12299 * i[1] + z1b + z4b
    IN  [even |-> <<t0 + t3, t1 + t2, t1 - t2, t0 - t3>>, odd |-> <<t3b, t2b, t1b, t0b>>]

Kernel9(i, half) ==
    LET t0 == Scaled(i[0]) + half   t3 == 5793 * i[6]   t1 == t0 + t3   t2 == t0 - t3 - t3
        t0b == 5793 * (i[2] - i[4])   t11 == t2 + t0b   t14 == t2 - t0b - t0b
        t0c == 10887 * (i[2] + i[4])   t2b == 8875 * i[2]   t3b == 2012 * i[4]
        t10 == t1 + t0c - t3b   t12 == t1 - t0c + t2b   t13 == t1 - t2b + t3b
        z2 == (-10033) * i[3]   t2c == 7447 * (i[1] + i[5])   t3c == 3962 * (i[1] + i[7])
        t0d == t2c + t3c - z2   t1b == 11409 * (i[5] - i[7])   t2d == t2c + z2 - t1b
        t3d == t3c + z2 + t1b   t1c == 10033 * (i[1] - i[5] - i[7])
    IN  [even |-> <<t10, t11, t12, t13, t14>>, odd |-> <<t0d, t1c, t2d, t3d>>]

Kernel10(i, half) ==
    LET z3 == Scaled(i[0]) + half   z1 == 9373 * i[4]   z2 == 3580 * i[4]   t10 == z3 + z1
        t11 == z3 - z2   t22 == z3 - 2 * (z1 - z2)   z1b == 6810 * (i[2] + i[6])
        t12 == z1b + 4209 * i[2]   t13 == z1b - 17828 * i[6]   t20 == t10 + t12
        t24 == t10 - t12   t21 == t11 + t13   t23 == t11 - t13   z3b == Scaled(i[5])
        t11b == i[3] + i[7]   t13b == i[3] - i[7]   t12b == 2531 * t13b
        z2b == 7791 * t11b   z4 == z3b + t12b   t10b == 11443 * i[1] + z2b + z4
        t14 == 1812 * i[1] - z2b + z4   z2c == 4815 * t11b
        z4b == z3b - t12b - 4096 * t13b   t12c == Scaled(i[1] - t13b) - z3b
        t11c == 10323 * i[1] - z2c - z4b   t13c == 5260 * i[1] - z2c + z4b
    IN  [even |-> <<t20, t21, t22, t23, t24>>, odd |-> <<t10b, t11c, t12c, t13c, t14>>]

Kernel11(i, half) ==
    LET t10 == Scaled(i[0]) + half   t20 == 20862 * (i[4] - i[6])
        t23 == 3529 * (i[4] - i[2])   z4 == i[2] + i[6]   t24 == (-9467) * z4
        z4b == z4 - i[4]   t25 == t10 + 11116 * z4b
        t21 == t20 + t23 + t25 - 14924 * i[4]   t20b == t20 + t25 + 17333 * i[6]
        t23b == t23 + t25 - 12399 * i[2]   t24b == t24 + t25   t22 == t24b - 6461 * i[6]
        t24c == t24b + 15929 * i[4] - 11395 * i[2]   t25b == t10 - 11585 * z4b
        t11 == i[1] + i[3]   t14 == 3264 * (t11 + i[5] + i[7])   t11b == 7274 * t11
        t12 == 5492 * (i[1] + i[5])   t13 == t14 + 3000 * (i[1] + i[7])
        t10b == t11b + t12 + t13 - 7562 * i[1]   z1 == t14 - 9527 * (i[3] + i[5])
        t11c == t11b + z1 + 16984 * i[3]   t12b == t12 + z1 - 9766 * i[5]
        z1b == (-14731) * (i[3] + i[7])   t11d == t11c + z1b
        t13b == t13 + z1b + 17223 * i[7]
        t14b == t14 + (-12019) * i[3] + 8203 * i[5] - 13802 * i[7]
    IN  [even |-> <<t20b, t21, t22, t23b, t24c, t25b>>,
         odd |-> <<t10b, t11d, t12b, t13b, t14b>>]

Kernel12(i, half) ==
    LET z3 == Scaled(i[0]) + half   z4 == 10033 * i[4]   t10 == z3 + z4   t11 == z3 - z4
        z4b == 11190 * i[2]   z1 == Scaled(i[2])   z2 == Scaled(i[6])   t12 == z1 - z2
        t21 == z3 + t12   t24 == z3 - t12   t12b == z4b + z2   t20 == t10 + t12b
        t25 == t10 - t12b   t12c == z4b - z1 - z2   t22 == t11 + t12c   t23 == t11 - t12c
        t11b == 10703 * i[3]   t14 == (-4433) * i[3]   t10b == i[1] + i[5]
        t15 == 7053 * (t10b + i[7])   t12d == t15 + 2139 * t10b
        t10c == t12d + t11b + 2295 * i[1]   t13 == (-8565) * (i[5] + i[7])
        t12e == t12d + t13 + t14 - 12112 * i[5]   t13b == t13 + t15 - t11b + 12998 * i[7]
        t15b == t15 + t14 - 5540 * i[1] - 16244 * i[7]   z1b == i[1] - i[7]
        z2b == i[3] - i[5]   z3b == 4433 * (z1b + z2b)   t11c == z3b + 6270 * z1b
        t14b == z3b - 15137 * z2b
    IN  [even |-> <<t20, t21, t22, t23, t24, t25>>,
         odd |-> <<t10c, t11c, t12e, t13b, t14b, t15b>>]

Kernel13(i, half) ==
    LET z1 == Scaled(i[0]) + half   t10 == i[4] + i[6]   t11 == i[4] - i[6]
        t12 == 9465 * t10   t13 == 793 * t11 + z1   t20 == 11249 * i[2] + t12 + t13
        t22 == 4108 * i[2] - t12 + t13   t12b == 2592 * t10   t13b == 3989 * t11 + z1
        t21 == 8672 * i[2] - t12b + t13b   t25 == (-10258) * i[2] + t12b + t13b
        t12c == 3570 * t10   t13c == 7678 * t11 - z1   t23 == (-1396) * i[2] - t12c - t13c
        t24 == (-6581) * i[2] + t12c - t13c   t26 == 11585 * (t11 - i[2]) + z1
        t11b == 10832 * (i[1] + i[3])   t12d == 9534 * (i[1] + i[5])   t15 == i[1] + i[7]
        t13d == 7682 * t15   t10b == t11b + t12d + t13d - 16549 * i[1]
        t14 == (-2773) * (i[3] + i[5])   t11c == t11b + t14 + 6859 * i[3]
        t12e == t12d + t14 - 12879 * i[5]   t14b == (-9534) * (i[3] + i[7])
        t11d == t11c + t14b   t13e == t13d + t14b + 18068 * i[7]
        t14c == (-5384) * (i[5] + i[7])   t12f == t12e + t14c   t13f == t13e + t14c
        t15b == 2773 * t15   t14d == t15b + 2611 * i[1] - 3818 * i[3]
        z1b == 7682 * (i[5] - i[3])   t14e == t14d + z1b
        t15c == t15b + z1b + 3150 * i[5] - 14273 * i[7]
    IN  [even |-> <<t20, t21, t22, t23, t24, t25, t26>>,
         odd |-> <<t10b, t11d, t12f, t13f, t14e, t15c>>]

Kernel14(i, half) ==
    LET z1 == Scaled(i[0]) + half   z2 == 10438 * i[4]   z3 == 2578 * i[4]
        z4 == 7223 * i[4]   t10 == z1 + z2   t11 == z1 + z3   t12 == z1 - z4
        t23 == z1 - 2 * (z2 + z3 - z4)   z3b == 9058 * (i[2] + i[6])
        t13 == z3b + 2237 * i[2]   t14 == z3b - 14084 * i[6]
        t15 == 5027 * i[2] - 11295 * i[6]   t20 == t10 + t13   t26 == t10 - t13
        t21 == t11 + t14   t25 == t11 - t14   t22 == t12 + t15   t24 == t12 - t15
        z4b == Scaled(i[7])   t14b == i[1] + i[5]   t11b == 10935 * (i[1] + i[3])
        t12b == 9810 * t14b   t10b == t11b + t12b + z4b - 9232 * i[1]
        t14c == 6164 * t14b   t16 == t14c - 8693 * i[1]   z1b == i[1] - i[3]
        t15b == 3826 * z1b - z4b   t16b == t16 + t15b
        t13b == (-1297) * (i[3] + i[5]) - z4b   t11c == t11b + t13b - 3474 * i[3]
        t12c == t12b + t13b - 19447 * i[5]   t13c == 11512 * (i[5] - i[3])
        t14d == t14c + t13c + z4b - 13850 * i[5]   t15c == t15b + t13c + 5529 * i[3]
        t13d == Scaled(z1b - i[5]) + z4b
    IN  [even |-> <<t20, t21, t22, t23, t24, t25, t26>>,
         odd |-> <<t10b, t11c, t12c, t13d, t14d, t15c, t16b>>]

Kernel15(i, half) ==
    LET z1 == Scaled(i[0]) + half   t10 == 3580 * i[6]   t11 == 9373 * i[6]
        t12 == z1 - t10   t13 == z1 + t11   z1b == z1 - (2 * (t11 - t10))
        z4 == i[2] - i[4]   z3 == i[4] + i[2]   t10b == 10958 * z3   t11b == 374 * z4
        z2 == 11795 * i[2]   t20 == t13 + t10b + t11b   t23 == t12 - t10b + t11b + z2
        t10c == 4482 * z3   t11c == 3271 * z4   t25 == t13 - t10c - t11c
        t26 == t12 + t10c - t11c - z2   t10d == 6476 * z3   t11d == 2896 * z4
        t21 == t12 + t10d + t11d   t24 == t13 - t10d + t11d   t11e == t11d + t11d
        t22 == z1b + t11e   t27 == z1b - t11e - t11e   z3b == 10033 * i[5]
        t13b == i[3] - i[7]   t15 == 6810 * (i[1] + t13b)   t11f == t15 + 4209 * i[1]
        t14 == t15 - 17828 * t13b   t13c == (-6810) * i[3]   t15b == (-11018) * i[3]
        z2b == i[1] - i[7]   t12b == z3b + 11522 * z2b
        t10e == t12b + 20131 * i[7] - t15b   t16 == t12b - 9113 * i[1] + t13c
        t12c == 10033 * z2b - z3b   z2c == 4712 * (i[1] + i[7])
        t13d == t13c + z2c + 3897 * i[1] - z3b   t15c == t15b + z2c - 7121 * i[7] + z3b
    IN  [even |-> <<t20, t21, t22, t23, t24, t25, t26, t27>>,
         odd |-> <<t10e, t11f, t12c, t13d, t14, t15c, t16>>]

Kernel16(i, half) ==
    LET t0 == Scaled(i[0]) + half   t1 == 10703 * i[4]   t2 == 4433 * i[4]
        t10 == t0 + t1   t11 == t0 - t1   t12 == t0 + t2   t13 == t0 - t2
        z3 == i[2] - i[6]   z4 == 2260 * z3   z3b == 11363 * z3
        t0b == z3b + 20995 * i[6]   t1b == z4 + 7373 * i[2]   t2b == z3b - 4926 * i[2]
        t3 == z4 - 4176 * i[6]   t20 == t10 + t0b   t27 == t10 - t0b   t21 == t12 + t1b
        t26 == t12 - t1b   t22 == t13 + t2b   t25 == t13 - t2b   t23 == t11 + t3
        t24 == t11 - t3   t11b == i[1] + i[5]   t1c == 11086 * (i[1] + i[3])
        t2c == 10217 * t11b   t3b == 8956 * (i[1] + i[7])   t10b == 7350 * (i[1] - i[7])
        t11c == 5461 * t11b   t12b == 3363 * (i[1] - i[3])
        t0c == t1c + t2c + t3b - 18730 * i[1]   t13b == t10b + t11c + t12b - 15038 * i[1]
        z1 == 1136 * (i[3] + i[5])   t1d == t1c + z1 + 589 * i[3]
        t2d == t2c + z1 - 9222 * i[5]   z1b == 11529 * (i[5] - i[3])
        t11d == t11c + z1b - 6278 * i[5]   t12c == t12b + z1b + 16154 * i[3]
        z2 == i[3] + i[7]   z1c == (-5461) * z2   t1e == t1d + z1c
        t3c == t3b + z1c + 8728 * i[7]   z2b == (-10217) * z2
        t10c == t10b + z2b + 25733 * i[7]   t12d == t12c + z2b
        z2c == (-11086) * (i[5] + i[7])   t2e == t2d + z2c   t3d == t3c + z2c
        z2d == 3363 * (i[7] - i[5])   t10d == t10c + z2d   t11e == t11d + z2d
    IN  [even |-> <<t20, t21, t22, t23, t24, t25, t26, t27>>,
         odd |-> <<t0c, t1e, t2e, t3d, t10d, t11e, t12d, t13b>>]

\* What a kernel gives, in order.
Outputs(k) ==
    LET n == Len(k.even) + Len(k.odd)
    IN  [x \in 1 .. n |-> IF x <= Len(k.odd) THEN k.even[x] + k.odd[x]
                          ELSE IF x <= Len(k.even) THEN k.even[x]
                          ELSE k.even[n + 1 - x] - k.odd[n + 1 - x]]

-----------------------------------------------------------------------------
\* The transforms of 2, 4 and 8 do without the kernel where all the terms that they
\* examine are 0.  The reduced ones do not even compute the columns that they ignore.
Examined(n) == CASE n = 2 -> {1, 3, 5, 7} [] n = 4 -> {1, 2, 3, 5, 6, 7} [] OTHER -> 1 .. 7
Ignored(n) == CASE n = 2 -> {2, 4, 6} [] n = 4 -> {4} [] OTHER -> {}

Short(n, i) == n \in {2, 4, 8} /\ \A k \in Examined(n) : i[k] = 0

\* The kernels of 2 and 4 scale their outputs by 4 and 2 more.
MoreBits(n) == CASE n = 2 -> 2 [] n = 4 -> 1 [] OTHER -> 0

Pass1(n, Kernel(_, _), i) ==
    LET shift == CONST_BITS - PASS1_BITS + MoreBits(n)
        out == Outputs(Kernel(i, 2 ^ (shift - 1)))
    IN  IF Short(n, i) THEN [x \in 1 .. n |-> i[0] * 2 ^ PASS1_BITS]
        ELSE [x \in 1 .. n |-> RightShift(out[x], shift)]

Pass2(n, Kernel(_, _), w) ==
    LET shift == CONST_BITS + PASS1_BITS + 3 + MoreBits(n)
        out == Outputs(Kernel(w, 2 ^ (shift - 1)))
    IN  IF Short(n, w) THEN [x \in 1 .. n |-> RangeLimit(Descale(w[0], PASS1_BITS + 3))]
        ELSE [x \in 1 .. n |-> RangeLimit(RightShift(out[x], shift))]

\* Both passes: the workspace has a row for each output of the columns, and of a column
\* that is ignored nothing that the second pass reads.
Inverse(n, Kernel(_, _), block) ==
    LET columns == IF n < DCTSIZE /\ n \notin {2, 4} THEN n ELSE DCTSIZE
        worked == [c \in 1 .. columns |->
                       IF c - 1 \in Ignored(n) THEN [x \in 1 .. n |-> 0]
                       ELSE Kept(Pass1(n, Kernel, Column(block, c)))]
        ws == Turned(Kept(worked))
    IN  Kept([r \in 1 .. n |-> Kept(Pass2(n, Kernel, Row(ws, r)))])

jpeg_idct_1x1(block) == <<<<RangeLimit(Descale(block[1][1], 3))>>>>
jpeg_idct_2x2(block) == Inverse(2, Kernel2, block)
jpeg_idct_3x3(block) == Inverse(3, Kernel3, block)
jpeg_idct_4x4(block) == Inverse(4, Kernel4, block)
jpeg_idct_5x5(block) == Inverse(5, Kernel5, block)
jpeg_idct_6x6(block) == Inverse(6, Kernel6, block)
jpeg_idct_7x7(block) == Inverse(7, Kernel7, block)
jpeg_idct_islow(block) == Inverse(8, Kernel8, block)
jpeg_idct_9x9(block) == Inverse(9, Kernel9, block)
jpeg_idct_10x10(block) == Inverse(10, Kernel10, block)
jpeg_idct_11x11(block) == Inverse(11, Kernel11, block)
jpeg_idct_12x12(block) == Inverse(12, Kernel12, block)
jpeg_idct_13x13(block) == Inverse(13, Kernel13, block)
jpeg_idct_14x14(block) == Inverse(14, Kernel14, block)
jpeg_idct_15x15(block) == Inverse(15, Kernel15, block)
jpeg_idct_16x16(block) == Inverse(16, Kernel16, block)

\* The routine that start_pass() selects for a component's DCT_scaled_size, and the method
\* whose multipliers it wants.
InverseDCT(n, block) ==
    CASE n = 1 -> jpeg_idct_1x1(block)
      [] n = 2 -> jpeg_idct_2x2(block)
      [] n = 3 -> jpeg_idct_3x3(block)
      [] n = 4 -> jpeg_idct_4x4(block)
      [] n = 5 -> jpeg_idct_5x5(block)
      [] n = 6 -> jpeg_idct_6x6(block)
      [] n = 7 -> jpeg_idct_7x7(block)
      [] n = 8 -> jpeg_idct_islow(block)
      [] n = 9 -> jpeg_idct_9x9(block)
      [] n = 10 -> jpeg_idct_10x10(block)
      [] n = 11 -> jpeg_idct_11x11(block)
      [] n = 12 -> jpeg_idct_12x12(block)
      [] n = 13 -> jpeg_idct_13x13(block)
      [] n = 14 -> jpeg_idct_14x14(block)
      [] n = 15 -> jpeg_idct_15x15(block)
      [] n = 16 -> jpeg_idct_16x16(block)

-----------------------------------------------------------------------------
(***************************************************************************)
(* The fast inverse transform.  Its products lose their lowest bits.       *)
(***************************************************************************)
Product(v, c) == (v * c) \div 2 ^ 8

FastKernel(i) ==
    LET t13 == i[2] + i[6]   t12 == Product(i[2] - i[6], 362) - t13
        t10 == i[0] + i[4]   t11 == i[0] - i[4]
        z13 == i[5] + i[3]   z10 == i[5] - i[3]   z11 == i[1] + i[7]   z12 == i[1] - i[7]
        t7 == z11 + z13   t11b == Product(z11 - z13, 362)   z5 == Product(z10 + z12, 473)
        t10b == Product(z12, 277) - z5   t12b == Product(z10, -669) + z5
        t6 == t12b - t7   t5 == t11b - t6   t4 == t10b + t5
    IN  [even |-> <<t10 + t13, t11 + t12, t11 - t12, t10 - t13>>, odd |-> <<t7, t6, t5, -t4>>]

jpeg_idct_ifast(block) ==
    LET column(i) == IF Short(8, i) THEN [x \in 1 .. 8 |-> i[0]] ELSE Outputs(FastKernel(i))
        row(w) == [x \in 1 .. 8 |-> RangeLimit(RightShift(column(w)[x], PASS1_BITS + 3))]
        ws == Turned(Kept([c \in 1 .. 8 |-> Kept(column(Column(block, c)))]))
    IN  Kept([r \in 1 .. 8 |-> Kept(row(Row(ws, r)))])

-----------------------------------------------------------------------------
(***************************************************************************)
(* The forward transforms.                                                 *)
(***************************************************************************)
CENTERJSAMPLE == 128
convsamp(samples) == Kept([r \in 1 .. 8 |-> Kept([c \in 1 .. 8 |-> samples[r][c] - CENTERJSAMPLE])])

SlowForward(d) ==
    LET t0 == d[0] + d[7]   t7 == d[0] - d[7]   t1 == d[1] + d[6]   t6 == d[1] - d[6]
        t2 == d[2] + d[5]   t5 == d[2] - d[5]   t3 == d[3] + d[4]   t4 == d[3] - d[4]
        t10 == t0 + t3   t13 == t0 - t3   t11 == t1 + t2   t12 == t1 - t2
        z1 == 4433 * (t12 + t13)   z5 == 9633 * (t4 + t6 + t5 + t7)
        z1b == (-7373) * (t4 + t7)   z2 == (-20995) * (t5 + t6)
        z3 == (-16069) * (t4 + t6) + z5   z4 == (-3196) * (t5 + t7) + z5
    IN  <<Scaled(t10 + t11), 12299 * t7 + z1b + z4, z1 + 6270 * t13, 25172 * t6 + z2 + z3,
          Scaled(t10 - t11), 16819 * t5 + z2 + z4, z1 - 15137 * t12, 2446 * t4 + z1b + z3>>

FastForward(d) ==
    LET t0 == d[0] + d[7]   t7 == d[0] - d[7]   t1 == d[1] + d[6]   t6 == d[1] - d[6]
        t2 == d[2] + d[5]   t5 == d[2] - d[5]   t3 == d[3] + d[4]   t4 == d[3] - d[4]
        t10 == t0 + t3   t13 == t0 - t3   t11 == t1 + t2   t12 == t1 - t2
        z1 == Product(t12 + t13, 181)   t10b == t4 + t5   t11b == t5 + t6   t12b == t6 + t7
        z5 == Product(t10b - t12b, 98)   z2 == Product(t10b, 139) + z5
        z4 == Product(t12b, 334) + z5   z3 == Product(t11b, 181)
        z11 == t7 + z3   z13 == t7 - z3
    IN  <<t10 + t11, z11 + z4, t13 + z1, z13 - z2, t10 - t11, z13 + z2, t13 - z1, z11 - z4>>

\* The rows first, and then the columns.
Forward(pass1(_), pass2(_), block) ==
    LET rows == Kept([r \in 1 .. 8 |-> Kept(pass1(Row(block, r)))])
    IN  Turned(Kept([c \in 1 .. 8 |-> Kept(pass2(Column(rows, c)))]))

jpeg_fdct_islow(block) ==
    LET pass(d, shift) == LET y == SlowForward(d) IN [k \in 1 .. 8 |-> Descale(y[k], shift)]
        pass1(d) == pass(d, CONST_BITS - PASS1_BITS)
        pass2(d) == pass(d, CONST_BITS + PASS1_BITS)
    IN  Forward(pass1, pass2, block)

jpeg_fdct_ifast(block) == Forward(FastForward, FastForward, block)

-----------------------------------------------------------------------------
(***************************************************************************)
(* Quantization.  A DCTELEM has 16 bits and a product 32, of which TLC has *)
(* 31: a product is made of the halves of one factor.                      *)
(***************************************************************************)
\* The number of significant bits.
flss(v) == NBits(v)

\* Mutant of compute_reciprocal: what is added does not make up for a reciprocal rounded down.
compute_reciprocal_NoCorrection(divisor) ==
    LET b  == flss(divisor) - 1
        fr == ((65536 % divisor) * 2 ^ b) % divisor
        fq == (65536 \div divisor) * 2 ^ b + ((65536 % divisor) * 2 ^ b) \div divisor
    IN  IF divisor = 1 THEN [recip |-> 1, corr |-> 0, shift |-> -16, upper |-> FALSE]
        ELSE [recip |-> IF fr <= divisor \div 2 THEN fq ELSE fq + 1,
              corr |-> divisor \div 2, shift |-> b, upper |-> b > 0]

\* The division by a divisor: the reciprocal, what is added to the dividend, the shift
\* beyond the upper 16 bits, and whether an instruction that only takes these will do.
\* Where 2 ^ r / divisor does not fit in 31 bits it is made of that of 2 ^ 16.
compute_reciprocal(divisor) ==
    LET b  == flss(divisor) - 1
        q  == 65536 \div divisor
        fr == ((65536 % divisor) * 2 ^ b) % divisor
        fq == q * 2 ^ b + ((65536 % divisor) * 2 ^ b) \div divisor
        c  == divisor \div 2
    IN  IF divisor = 1 THEN [recip |-> 1, corr |-> 0, shift |-> -16, upper |-> FALSE]
        ELSE IF fr = 0
             THEN [recip |-> fq \div 2, corr |-> c, shift |-> b - 1, upper |-> b > 1]
             ELSE [recip |-> IF fr <= divisor \div 2 THEN fq ELSE fq + 1,
                   corr |-> IF fr <= divisor \div 2 THEN c + 1 ELSE c,
                   shift |-> b, upper |-> b > 0]

\* (a * recip) >> (shift + 16), the product being of 32 bits.
UpperOfProduct(a, recip, shift) ==
    LET low  == (a % 256) * recip
        high == (a \div 256) * recip + low \div 256
    IN  (high \div 256) \div 2 ^ shift

quantize(workspace, divisors) ==
    LET divided(v, d) == IF d.shift = -16 THEN v ELSE UpperOfProduct(v + d.corr, d.recip, d.shift)
        one(v, d) == IF v < 0 THEN -divided(-v, d) ELSE divided(v, d)
    IN  Kept([r \in 1 .. 8 |-> Kept([c \in 1 .. 8 |-> one(workspace[r][c], divisors[r][c])])])

aanscales ==
    <<<<16384, 22725, 21407, 19266, 16384, 12873, 8867, 4520>>,
      <<22725, 31521, 29692, 26722, 22725, 17855, 12299, 6270>>,
      <<21407, 29692, 27969, 25172, 21407, 16819, 11585, 5906>>,
      <<19266, 26722, 25172, 22654, 19266, 15137, 10426, 5315>>,
      <<16384, 22725, 21407, 19266, 16384, 12873, 8867, 4520>>,
      <<12873, 17855, 16819, 15137, 12873, 10114, 6967, 3552>>,
      <<8867, 12299, 11585, 10426, 8867, 6967, 4799, 2446>>,
      <<4520, 6270, 5906, 5315, 4520, 3552, 2446, 1247>>>>

\* start_pass_fdctmgr(): the divisors of a quantization table.  compute_reciprocal() takes
\* 16 bits of each.
Divisors(method, quantval) ==
    LET scaled(r, c) == IF method = "islow" THEN quantval[r][c] * 8
                        ELSE Descale(quantval[r][c] * aanscales[r][c], 11)
    IN  Kept([r \in 1 .. 8 |-> Kept([c \in 1 .. 8 |-> compute_reciprocal(scaled(r, c) % 65536)])])

\* start_pass(): the multipliers of the inverse transform.
Multipliers(method, quantval) ==
    IF method = "islow" THEN quantval
    ELSE Kept([r \in 1 .. 8 |-> Kept([c \in 1 .. 8 |->
                  Descale(quantval[r][c] * aanscales[r][c], 12)])])

Dequantized(coefs, multipliers) ==
    Kept([r \in 1 .. 8 |-> Kept([c \in 1 .. 8 |-> coefs[r][c] * multipliers[r][c]])])

\* forward_DCT() and what the decompressor makes of it again.
forward_DCT(method, samples, quantval) ==
    LET block == convsamp(samples)
    IN  quantize(IF method = "islow" THEN jpeg_fdct_islow(block) ELSE jpeg_fdct_ifast(block),
                 Divisors(method, quantval))

inverse_DCT(method, n, coefs, quantval) ==
    LET used == IF n = DCTSIZE THEN method ELSE "islow"
        block == Dequantized(coefs, Multipliers(used, quantval))
    IN  IF used = "ifast" THEN jpeg_idct_ifast(block) ELSE InverseDCT(n, block)

-----------------------------------------------------------------------------
(* What these transforms are to compute: the cosine transform itself, with  *)
(* cosines from their series.                                              *)

\* 2 ^ 13 sqrt(2) cos(m Pi / 2n), for 0 <= m <= n.
Acute(m, n) ==
    LET angle == (m * 25736) \div n
        square == RightShift(angle * angle, 14)
        term(k, rest) == 16384 - RightShift((square \div k) * rest, 14)
        cos == term(2, term(12, term(30, term(56, term(90, 16384)))))
    IN  RightShift(cos * 11585 + 8192, 14)

Cosine(m, n) ==
    LET k == m % (4 * n)
        half == IF k <= 2 * n THEN k ELSE 4 * n - k
    IN  IF half <= n THEN Acute(half, n) ELSE -Acute(2 * n - half, n)

\* Cosines[n][x][u]: the weight of term u in output x of n.  The routines of sizes under 8
\* leave the higher terms out, but for those of 2 and 4: their outputs are means of the
\* outputs of 8.
Cosines ==
    LET weight(n, x, u) ==
            IF u = 1 THEN 8192 ELSE IF u > n THEN 0 ELSE Cosine((2 * x - 1) * (u - 1), n)
    IN  Kept([n \in 1 .. 16 |-> Kept([x \in 1 .. n |-> Kept([u \in 1 .. 8 |->
            CASE n = 4 -> (weight(8, 2 * x - 1, u) + weight(8, 2 * x, u)) \div 2
              [] n = 2 -> (weight(8, 4 * x - 3, u) + weight(8, 4 * x - 2, u)
                           + weight(8, 4 * x - 1, u) + weight(8, 4 * x, u)) \div 4
              [] OTHER -> weight(n, x, u)])])])

Weighted(w, i) ==
    w[1] * i[0] + w[2] * i[1] + w[3] * i[2] + w[4] * i[3]
    + w[5] * i[4] + w[6] * i[5] + w[7] * i[6] + w[8] * i[7]

Clamped(v) == IF v < 0 THEN 0 ELSE IF v > 255 THEN 255 ELSE v

\* The n x n samples of a block.
TrueInverse(n, block) ==
    LET weights == Cosines[n]
        column(i) == [x \in 1 .. n |-> RightShift(Weighted(weights[x], i), 10)]
        ws == Turned(Kept([c \in 1 .. 8 |-> Kept(column(Column(block, c)))]))
        sample(w, x) == RightShift(Weighted(weights[x], w) + 2 ^ 18, 19)
    IN  Kept([r \in 1 .. n |->
            Kept([x \in 1 .. n |-> Clamped(sample(Row(ws, r), x) + CENTERJSAMPLE)])])

=============================================================================
