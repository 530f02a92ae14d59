----------------------------- MODULE SimdProofs -----------------------------
(***************************************************************************)
(* Proofs about Simd, for any number of threads and every machine: in each *)
(* table, whatever jsimd_can_x() finds is enough for a version that        *)
(* jsimd_x() picks; the threads that race in init_simd() leave what one    *)
(* alone would have; and a method runs what the processor has.             *)
(***************************************************************************)
EXTENDS Simd, FiniteSetTheorems, TLAPS

-----------------------------------------------------------------------------
(* The tables. *)

\* A routine whose jsimd_x() has something to run whenever jsimd_can_x() says so: the version
\* that a condition stands for is tested, with the same constants or none, or is what is left,
\* or an SSE2 version gives way to that for MMX.
Usable(e) ==
    /\ e.huffman \in BOOLEAN
    /\ DOMAIN e.tests \subseteq {1, 2} /\ \A i \in DOMAIN e.tests : e.tests[i].isa \in ISAs
    /\ e.otherwise \in ISAs \cup {"none"}
    /\ \A c \in e.can :
           \/ \E i \in DOMAIN e.tests : e.tests[i] = c \/ e.tests[i] = On(c.isa)
           \/ e.otherwise = c.isa
           \/ c.isa = "SSE2" /\ e.otherwise = "MMX"

\* A routine with one version, which is run without looking at simd_support again.
Single(e) == e.tests = <<>> /\ \A c \in e.can : c.isa = e.otherwise

AllUsable(table) == \A e \in table : Usable(e)
AllSingle(table) == \A e \in table : Usable(e) /\ Single(e)

\* Rows of a table: one version, none, or more asked for by jsimd_can_x().
LEMMA OnlyUsable ==
    \A isa \in ISAs : \A names : Usable(Only(isa, names)) /\ Single(Only(isa, names))
<1> TAKE isa \in ISAs
<1> TAKE names
<1>1. \A c \in {On(isa)} : c.isa = isa
  BY DEF On
<1> HIDE DEF On
<1> QED BY <1>1 DEF Usable, Single, Only, Routine

LEMMA NeverUsable == \A names : Usable(Never(names)) /\ Single(Never(names))
  BY DEF Usable, Single, Never, Routine

LEMMA IfHuffmanUsable ==
    \A names, can, tests, otherwise :
        LET e == Routine(names, can, tests, otherwise)
        IN  /\ Usable(e) => Usable(IfHuffman(e))
            /\ Single(e) => Single(IfHuffman(e))
  BY DEF IfHuffman, Usable, Single, Routine

\* A row with no test, with one, and with two.
LEMMA OnIs ==
    /\ \A isa : On(isa).isa = isa
    /\ \A isa, constants : Aligned(isa, constants).isa = isa
  BY DEF On, Aligned

Left(c, otherwise) == c.isa = otherwise \/ (c.isa = "SSE2" /\ otherwise = "MMX")
Same(c, test) == test = c \/ test = On(c.isa)

LEMMA UsableUntested ==
    \A names, can, otherwise :
        /\ otherwise \in ISAs \cup {"none"}
        /\ \A c \in can : Left(c, otherwise)
        => Usable(Routine(names, can, <<>>, otherwise))
  BY DEF Usable, Routine, Left

LEMMA UsableOnce ==
    \A names, can, test, otherwise :
        /\ otherwise \in ISAs \cup {"none"} /\ test.isa \in ISAs
        /\ \A c \in can : Left(c, otherwise) \/ Same(c, test)
        => Usable(Routine(names, can, <<test>>, otherwise))
  BY DEF Usable, Routine, Left, Same

LEMMA UsableTwice ==
    \A names, can, test1, test2, otherwise :
        /\ otherwise \in ISAs \cup {"none"} /\ test1.isa \in ISAs /\ test2.isa \in ISAs
        /\ \A c \in can : Left(c, otherwise) \/ Same(c, test1) \/ Same(c, test2)
        => Usable(Routine(names, can, <<test1, test2>>, otherwise))
  BY DEF Usable, Routine, Left, Same

\* simd/i386/jsimd.c
LEMMA I386Usable == AllUsable(I386Table)
<1>0. {"MMX", "3DNOW", "SSE", "SSE2", "AVX2"} \subseteq ISAs
  BY DEF ISAs
<1>1. AllUsable(I386ToYcc)
  BY <1>0, OnIs, UsableUntested, UsableOnce, UsableTwice, OnlyUsable, NeverUsable,
     IfHuffmanUsable DEF AllUsable, Left, Same, I386ToYcc, I386ColorCan
<1>2. AllUsable(I386ToRgb)
  BY <1>0, OnIs, UsableUntested, UsableOnce, UsableTwice, OnlyUsable, NeverUsable,
     IfHuffmanUsable DEF AllUsable, Left, Same, I386ToRgb, I386ColorCan
<1>3. AllUsable(I386Downsample)
  BY <1>0, OnIs, UsableUntested, UsableOnce, UsableTwice, OnlyUsable, NeverUsable,
     IfHuffmanUsable DEF AllUsable, Left, Same, I386Downsample
<1>4. AllUsable(I386Upsample)
  BY <1>0, OnIs, UsableUntested, UsableOnce, UsableTwice, OnlyUsable, NeverUsable,
     IfHuffmanUsable DEF AllUsable, Left, Same, I386Upsample
<1>5. AllUsable(I386Fancy)
  BY <1>0, OnIs, UsableUntested, UsableOnce, UsableTwice, OnlyUsable, NeverUsable,
     IfHuffmanUsable DEF AllUsable, Left, Same, I386Fancy
<1>6. AllUsable(I386Merged)
  BY <1>0, OnIs, UsableUntested, UsableOnce, UsableTwice, OnlyUsable, NeverUsable,
     IfHuffmanUsable DEF AllUsable, Left, Same, I386Merged
<1>7. AllUsable(I386Convsamp)
  BY <1>0, OnIs, UsableUntested, UsableOnce, UsableTwice, OnlyUsable, NeverUsable,
     IfHuffmanUsable DEF AllUsable, Left, Same, I386Convsamp
<1>8. AllUsable(I386Fdct)
  BY <1>0, OnIs, UsableUntested, UsableOnce, UsableTwice, OnlyUsable, NeverUsable,
     IfHuffmanUsable DEF AllUsable, Left, Same, I386Fdct
<1>9. AllUsable(I386Quantize)
  BY <1>0, OnIs, UsableUntested, UsableOnce, UsableTwice, OnlyUsable, NeverUsable,
     IfHuffmanUsable DEF AllUsable, Left, Same, I386Quantize
<1>10. AllUsable(I386ReducedIdct)
  BY <1>0, OnIs, UsableUntested, UsableOnce, UsableTwice, OnlyUsable, NeverUsable,
     IfHuffmanUsable DEF AllUsable, Left, Same, I386ReducedIdct
<1>11. AllUsable(I386Idct)
  BY <1>0, OnIs, UsableUntested, UsableOnce, UsableTwice, OnlyUsable, NeverUsable,
     IfHuffmanUsable DEF AllUsable, Left, Same, I386Idct
<1>12. AllUsable(I386Huffman)
  BY <1>0, OnIs, UsableUntested, UsableOnce, UsableTwice, OnlyUsable, NeverUsable,
     IfHuffmanUsable DEF AllUsable, Left, Same, I386Huffman
<1> QED BY <1>1, <1>2, <1>3, <1>4, <1>5, <1>6, <1>7, <1>8, <1>9, <1>10, <1>11, <1>12
        DEF AllUsable, I386Table

\* simd/x86_64/jsimd.c
LEMMA X64Usable == AllUsable(X64Table)
<1>0. {"MMX", "3DNOW", "SSE", "SSE2", "AVX2"} \subseteq ISAs
  BY DEF ISAs
<1>1. AllUsable(X64ToYcc)
  BY <1>0, OnIs, UsableUntested, UsableOnce, UsableTwice, OnlyUsable, NeverUsable,
     IfHuffmanUsable DEF AllUsable, Left, Same, X64ToYcc, X64ColorCan
<1>2. AllUsable(X64ToRgb)
  BY <1>0, OnIs, UsableUntested, UsableOnce, UsableTwice, OnlyUsable, NeverUsable,
     IfHuffmanUsable DEF AllUsable, Left, Same, X64ToRgb, X64ColorCan
<1>3. AllUsable(X64Downsample)
  BY <1>0, OnIs, UsableUntested, UsableOnce, UsableTwice, OnlyUsable, NeverUsable,
     IfHuffmanUsable DEF AllUsable, Left, Same, X64Downsample
<1>4. AllUsable(X64Upsample)
  BY <1>0, OnIs, UsableUntested, UsableOnce, UsableTwice, OnlyUsable, NeverUsable,
     IfHuffmanUsable DEF AllUsable, Left, Same, X64Upsample
<1>5. AllUsable(X64Fancy)
  BY <1>0, OnIs, UsableUntested, UsableOnce, UsableTwice, OnlyUsable, NeverUsable,
     IfHuffmanUsable DEF AllUsable, Left, Same, X64Fancy
<1>6. AllUsable(X64Merged)
  BY <1>0, OnIs, UsableUntested, UsableOnce, UsableTwice, OnlyUsable, NeverUsable,
     IfHuffmanUsable DEF AllUsable, Left, Same, X64Merged
<1>7. AllUsable(X64Convsamp)
  BY <1>0, OnIs, UsableUntested, UsableOnce, UsableTwice, OnlyUsable, NeverUsable,
     IfHuffmanUsable DEF AllUsable, Left, Same, X64Convsamp
<1>8. AllUsable(X64Fdct)
  BY <1>0, OnIs, UsableUntested, UsableOnce, UsableTwice, OnlyUsable, NeverUsable,
     IfHuffmanUsable DEF AllUsable, Left, Same, X64Fdct
<1>9. AllUsable(X64Quantize)
  BY <1>0, OnIs, UsableUntested, UsableOnce, UsableTwice, OnlyUsable, NeverUsable,
     IfHuffmanUsable DEF AllUsable, Left, Same, X64Quantize
<1>10. AllUsable(X64ReducedIdct)
  BY <1>0, OnIs, UsableUntested, UsableOnce, UsableTwice, OnlyUsable, NeverUsable,
     IfHuffmanUsable DEF AllUsable, Left, Same, X64ReducedIdct
<1>11. AllUsable(X64Idct)
  BY <1>0, OnIs, UsableUntested, UsableOnce, UsableTwice, OnlyUsable, NeverUsable,
     IfHuffmanUsable DEF AllUsable, Left, Same, X64Idct
<1>12. AllUsable(X64Huffman)
  BY <1>0, OnIs, UsableUntested, UsableOnce, UsableTwice, OnlyUsable, NeverUsable,
     IfHuffmanUsable DEF AllUsable, Left, Same, X64Huffman
<1> QED BY <1>1, <1>2, <1>3, <1>4, <1>5, <1>6, <1>7, <1>8, <1>9, <1>10, <1>11, <1>12
        DEF AllUsable, X64Table

\* simd/arm/aarch32/jsimd.c
LEMMA Arm32Usable == AllSingle(Arm32Table)
<1>0. "NEON" \in ISAs
  BY DEF ISAs
<1>1. AllSingle(Arm32ToYcc)
  BY <1>0, OnlyUsable DEF AllSingle, Arm32ToYcc, Arm32ColorCan, Only
<1>2. AllSingle(Arm32ToRgb)
  BY <1>0, OnlyUsable DEF AllSingle, Arm32ToRgb, Arm32ColorCan, Only
<1>3. AllSingle(Arm32Downsample)
  BY <1>0, OnlyUsable DEF AllSingle, Arm32Downsample
<1>4. AllSingle(Arm32Upsample)
  BY <1>0, OnlyUsable DEF AllSingle, Arm32Upsample
<1>5. AllSingle(Arm32Fancy)
  BY <1>0, OnlyUsable DEF AllSingle, Arm32Fancy
<1>6. AllSingle(Arm32Merged)
  BY <1>0, OnlyUsable DEF AllSingle, Arm32Merged
<1>7. AllSingle(Arm32Convsamp)
  BY <1>0, OnlyUsable, NeverUsable DEF AllSingle, Arm32Convsamp
<1>8. AllSingle(Arm32Fdct)
  BY <1>0, OnlyUsable, NeverUsable DEF AllSingle, Arm32Fdct
<1>9. AllSingle(Arm32Quantize)
  BY <1>0, OnlyUsable, NeverUsable DEF AllSingle, Arm32Quantize
<1>10. AllSingle(Arm32ReducedIdct)
  BY <1>0, OnlyUsable DEF AllSingle, Arm32ReducedIdct
<1>11. AllSingle(Arm32Idct)
  BY <1>0, OnlyUsable, NeverUsable DEF AllSingle, Arm32Idct
<1>12. AllSingle(Arm32Huffman)
  BY <1>0, OnlyUsable, IfHuffmanUsable DEF AllSingle, Arm32Huffman, Only
<1> QED BY <1>1, <1>2, <1>3, <1>4, <1>5, <1>6, <1>7, <1>8, <1>9, <1>10, <1>11, <1>12
        DEF AllSingle, Arm32Table

\* simd/arm/aarch64/jsimd.c
LEMMA Arm64Usable == AllSingle(Arm64Table)
<1>0. "NEON" \in ISAs
  BY DEF ISAs
<1>1. AllSingle(Arm64ToYcc)
  BY <1>0, OnlyUsable DEF AllSingle, Arm64ToYcc, Arm64ColorCan, Only
<1>2. AllSingle(Arm64ToRgb)
  BY <1>0, OnlyUsable DEF AllSingle, Arm64ToRgb, Arm64ColorCan, Only
<1>3. AllSingle(Arm64Downsample)
  BY <1>0, OnlyUsable DEF AllSingle, Arm64Downsample
<1>4. AllSingle(Arm64Upsample)
  BY <1>0, OnlyUsable DEF AllSingle, Arm64Upsample
<1>5. AllSingle(Arm64Fancy)
  BY <1>0, OnlyUsable DEF AllSingle, Arm64Fancy
<1>6. AllSingle(Arm64Merged)
  BY <1>0, OnlyUsable DEF AllSingle, Arm64Merged
<1>7. AllSingle(Arm64Convsamp)
  BY <1>0, OnlyUsable, NeverUsable DEF AllSingle, Arm64Convsamp
<1>8. AllSingle(Arm64Fdct)
  BY <1>0, OnlyUsable, NeverUsable DEF AllSingle, Arm64Fdct
<1>9. AllSingle(Arm64Quantize)
  BY <1>0, OnlyUsable, NeverUsable DEF AllSingle, Arm64Quantize
<1>10. AllSingle(Arm64ReducedIdct)
  BY <1>0, OnlyUsable DEF AllSingle, Arm64ReducedIdct
<1>11. AllSingle(Arm64Idct)
  BY <1>0, OnlyUsable, NeverUsable DEF AllSingle, Arm64Idct
<1>12. AllSingle(Arm64Huffman)
  BY <1>0, OnlyUsable, IfHuffmanUsable DEF AllSingle, Arm64Huffman, Only
<1> QED BY <1>1, <1>2, <1>3, <1>4, <1>5, <1>6, <1>7, <1>8, <1>9, <1>10, <1>11, <1>12
        DEF AllSingle, Arm64Table

\* simd/mips/jsimd.c
LEMMA MipsUsable == AllSingle(MipsTable)
<1>0. "DSPR2" \in ISAs
  BY DEF ISAs
<1>1. AllSingle(MipsToYcc)
  BY <1>0, OnlyUsable DEF AllSingle, MipsToYcc, MipsColorCan, Only
<1>2. AllSingle(MipsToRgb)
  BY <1>0, NeverUsable, OnlyUsable DEF AllSingle, MipsToRgb, MipsColorCan, Only
<1>3. AllSingle(MipsDownsample)
  BY <1>0, OnlyUsable, NeverUsable DEF AllSingle, MipsDownsample
<1>4. AllSingle(MipsUpsample)
  BY <1>0, OnlyUsable DEF AllSingle, MipsUpsample
<1>5. AllSingle(MipsFancy)
  BY <1>0, OnlyUsable DEF AllSingle, MipsFancy
<1>6. AllSingle(MipsMerged)
  BY <1>0, OnlyUsable DEF AllSingle, MipsMerged
<1>7. AllSingle(MipsConvsamp)
  BY <1>0, OnlyUsable DEF AllSingle, MipsConvsamp
<1>8. AllSingle(MipsFdct)
  BY <1>0, OnlyUsable, NeverUsable DEF AllSingle, MipsFdct
<1>9. AllSingle(MipsQuantize)
  BY <1>0, OnlyUsable DEF AllSingle, MipsQuantize
<1>10. AllSingle(MipsReducedIdct)
  BY <1>0, OnlyUsable DEF AllSingle, MipsReducedIdct
<1>11. AllSingle(MipsIdct)
  BY <1>0, OnlyUsable, NeverUsable DEF AllSingle, MipsIdct
<1>12. AllSingle(MipsHuffman)
  BY NeverUsable DEF AllSingle, MipsHuffman
<1> QED BY <1>1, <1>2, <1>3, <1>4, <1>5, <1>6, <1>7, <1>8, <1>9, <1>10, <1>11, <1>12
        DEF AllSingle, MipsTable

\* simd/mips64/jsimd.c
LEMMA Mips64Usable == AllSingle(Mips64Table)
<1>0. "MMI" \in ISAs
  BY DEF ISAs
<1>1. AllSingle(Mips64ToYcc)
  BY <1>0, OnlyUsable DEF AllSingle, Mips64ToYcc, Mips64ColorCan, Only
<1>2. AllSingle(Mips64ToRgb)
  BY <1>0, NeverUsable, OnlyUsable DEF AllSingle, Mips64ToRgb, Mips64ColorCan, Only
<1>3. AllSingle(Mips64Downsample)
  BY <1>0, OnlyUsable, NeverUsable DEF AllSingle, Mips64Downsample
<1>4. AllSingle(Mips64Upsample)
  BY NeverUsable DEF AllSingle, Mips64Upsample
<1>5. AllSingle(Mips64Fancy)
  BY <1>0, OnlyUsable DEF AllSingle, Mips64Fancy
<1>6. AllSingle(Mips64Merged)
  BY <1>0, OnlyUsable DEF AllSingle, Mips64Merged
<1>7. AllSingle(Mips64Convsamp)
  BY NeverUsable DEF AllSingle, Mips64Convsamp
<1>8. AllSingle(Mips64Fdct)
  BY <1>0, OnlyUsable, NeverUsable DEF AllSingle, Mips64Fdct
<1>9. AllSingle(Mips64Quantize)
  BY <1>0, OnlyUsable, NeverUsable DEF AllSingle, Mips64Quantize
<1>10. AllSingle(Mips64ReducedIdct)
  BY NeverUsable DEF AllSingle, Mips64ReducedIdct
<1>11. AllSingle(Mips64Idct)
  BY <1>0, OnlyUsable, NeverUsable DEF AllSingle, Mips64Idct
<1>12. AllSingle(Mips64Huffman)
  BY NeverUsable DEF AllSingle, Mips64Huffman
<1> QED BY <1>1, <1>2, <1>3, <1>4, <1>5, <1>6, <1>7, <1>8, <1>9, <1>10, <1>11, <1>12
        DEF AllSingle, Mips64Table

\* simd/powerpc/jsimd.c
LEMMA PowerPCUsable == AllSingle(PowerPCTable)
<1>0. "ALTIVEC" \in ISAs
  BY DEF ISAs
<1>1. AllSingle(PowerPCToYcc)
  BY <1>0, OnlyUsable DEF AllSingle, PowerPCToYcc, PowerPCColorCan, Only
<1>2. AllSingle(PowerPCToRgb)
  BY <1>0, NeverUsable, OnlyUsable DEF AllSingle, PowerPCToRgb, PowerPCColorCan, Only
<1>3. AllSingle(PowerPCDownsample)
  BY <1>0, OnlyUsable DEF AllSingle, PowerPCDownsample
<1>4. AllSingle(PowerPCUpsample)
  BY <1>0, OnlyUsable DEF AllSingle, PowerPCUpsample
<1>5. AllSingle(PowerPCFancy)
  BY <1>0, OnlyUsable DEF AllSingle, PowerPCFancy
<1>6. AllSingle(PowerPCMerged)
  BY <1>0, OnlyUsable DEF AllSingle, PowerPCMerged
<1>7. AllSingle(PowerPCConvsamp)
  BY <1>0, OnlyUsable, NeverUsable DEF AllSingle, PowerPCConvsamp
<1>8. AllSingle(PowerPCFdct)
  BY <1>0, OnlyUsable, NeverUsable DEF AllSingle, PowerPCFdct
<1>9. AllSingle(PowerPCQuantize)
  BY <1>0, OnlyUsable, NeverUsable DEF AllSingle, PowerPCQuantize
<1>10. AllSingle(PowerPCReducedIdct)
  BY NeverUsable DEF AllSingle, PowerPCReducedIdct
<1>11. AllSingle(PowerPCIdct)
  BY <1>0, OnlyUsable, NeverUsable DEF AllSingle, PowerPCIdct
<1>12. AllSingle(PowerPCHuffman)
  BY NeverUsable DEF AllSingle, PowerPCHuffman
<1> QED BY <1>1, <1>2, <1>3, <1>4, <1>5, <1>6, <1>7, <1>8, <1>9, <1>10, <1>11, <1>12
        DEF AllSingle, PowerPCTable

\* The tables of the machines.
LEMMA TablesUsable ==
    ASSUME NEW m \in Machines, NEW e \in Tables[m.arch]
    PROVE  Usable(e) /\ (Architectures[m.arch].adds => Single(e))
<1>1. m.arch \in DOMAIN Architectures
  BY MachinesAssumption DEF Machine
<1>2. m.arch \in {"I386", "X64", "Arm32", "Arm64", "Mips", "Mips64", "PowerPC"}
  BY <1>1 DEF Architectures
<1>3. /\ m.arch = "I386" => e \in I386Table /\ ~Architectures[m.arch].adds
      /\ m.arch = "X64" => e \in X64Table /\ ~Architectures[m.arch].adds
      /\ m.arch = "Arm32" => e \in Arm32Table
      /\ m.arch = "Arm64" => e \in Arm64Table
      /\ m.arch = "Mips" => e \in MipsTable
      /\ m.arch = "Mips64" => e \in Mips64Table
      /\ m.arch = "PowerPC" => e \in PowerPCTable
  BY DEF Tables, Architectures
<1> QED BY <1>2, <1>3, I386Usable, X64Usable, Arm32Usable, Arm64Usable, MipsUsable, Mips64Usable,
           PowerPCUsable DEF AllUsable, AllSingle

-----------------------------------------------------------------------------
(* Architectures and machines. *)

LEMMA ForcedIs ==
    \A forced \in {ForcedI386, ForcedX64} \cup {ForcedTo(isa) : isa \in ISAs} :
        /\ Len(forced) \in 2 .. 6 /\ DOMAIN forced = 1 .. Len(forced)
        /\ \A i \in 1 .. Len(forced) : forced[i][2] \subseteq ISAs /\ forced[i][1] # "NOHUFFENC"
<1>1. TAKE forced \in {ForcedI386, ForcedX64} \cup {ForcedTo(isa) : isa \in ISAs}
<1>2. CASE forced = ForcedI386
  BY <1>2 DEF ForcedI386, ForcedX64, ISAs
<1>3. CASE forced = ForcedX64
  BY <1>3 DEF ForcedX64, ISAs
<1>4. CASE \E isa \in ISAs : forced = ForcedTo(isa)
  BY <1>4 DEF ForcedTo
<1> QED BY <1>2, <1>3, <1>4

LEMMA ArchIs ==
    ASSUME machine \in Machines
    PROVE  /\ Arch.adds \in BOOLEAN /\ Arch.parses \in BOOLEAN /\ Arch.retries \in BOOLEAN
           /\ Arch.parses => Arch.adds
           /\ Len(Arch.forced) \in 2 .. 6 /\ DOMAIN Arch.forced = 1 .. Len(Arch.forced)
           /\ \A i \in 1 .. Len(Arch.forced) :
                  Arch.forced[i][2] \subseteq ISAs /\ Arch.forced[i][1] # "NOHUFFENC"
<1>1. machine.arch \in {"I386", "X64", "Arm32", "Arm64", "Mips", "Mips64", "PowerPC"}
  BY MachinesAssumption DEF Machine, Architectures
<1>2. /\ Arch.adds \in BOOLEAN /\ Arch.parses \in BOOLEAN /\ Arch.retries \in BOOLEAN
      /\ Arch.parses => Arch.adds
      /\ Arch.forced \in {ForcedI386, ForcedX64} \cup {ForcedTo(isa) : isa \in ISAs}
  <2>1. {"NEON", "DSPR2", "MMI", "ALTIVEC"} \subseteq ISAs
    BY DEF ISAs
  <2>2. /\ machine.arch = "I386" => Arch.forced = ForcedI386
        /\ machine.arch = "X64" => Arch.forced = ForcedX64
        /\ machine.arch \in {"Arm32", "Arm64"} => Arch.forced = ForcedTo("NEON")
        /\ machine.arch = "Mips" => Arch.forced = ForcedTo("DSPR2")
        /\ machine.arch = "Mips64" => Arch.forced = ForcedTo("MMI")
        /\ machine.arch = "PowerPC" => Arch.forced = ForcedTo("ALTIVEC")
    BY DEF Arch, Architectures
  <2>3. /\ Arch.adds \in BOOLEAN /\ Arch.parses \in BOOLEAN /\ Arch.retries \in BOOLEAN
        /\ Arch.parses => Arch.adds
    <3>1. /\ machine.arch \in {"I386", "X64"}
                 => Arch.adds = FALSE /\ Arch.parses = FALSE /\ Arch.retries = FALSE
          /\ machine.arch \in {"Arm32", "Mips64", "PowerPC"}
                 => Arch.adds = TRUE /\ Arch.parses = TRUE /\ Arch.retries = TRUE
          /\ machine.arch = "Arm64"
                 => Arch.adds = TRUE /\ Arch.parses = FALSE /\ Arch.retries = FALSE
          /\ machine.arch = "Mips"
                 => Arch.adds = TRUE /\ Arch.parses = TRUE /\ Arch.retries = FALSE
      BY DEF Arch, Architectures
    <3> QED BY <1>1, <3>1
  <2>4. \A isa \in {"NEON", "DSPR2", "MMI", "ALTIVEC"} :
            ForcedTo(isa) \in {ForcedTo(i) : i \in ISAs}
    BY <2>1
  <2> QED BY <1>1, <2>2, <2>3, <2>4
<1> QED BY <1>2, ForcedIs

LEMMA MachineIs ==
    ASSUME machine \in Machines
    PROVE  /\ machine.cpu \subseteq ISAs /\ machine.detected \subseteq machine.cpu
           /\ "SSE2" \in machine.cpu => "MMX" \in machine.cpu
           /\ \A isa : <<isa, "none">> \notin machine.unaligned
           /\ machine.users \subseteq Threads
           /\ Arch.adds => \A i \in 1 .. Len(Arch.forced) :
                  Arch.forced[i][1] \in machine.env => Arch.forced[i][2] \subseteq machine.cpu
<1>1. machine \in Machine
  BY MachinesAssumption
<1>2. \A isa : <<isa, "none">> \notin machine.unaligned
  BY <1>1 DEF Machine
<1>3. Arch.adds => \A i \in DOMAIN Arch.forced :
          Arch.forced[i][1] \in machine.env => Arch.forced[i][2] \subseteq machine.cpu
  BY MachinesAssumption DEF Arch
<1> QED BY <1>1, <1>2, <1>3, ArchIs, MachinesAssumption DEF Machine

\* Few numbers have a least and a largest.
LEMMA LeastAndLast ==
    ASSUME NEW S \in SUBSET (1 .. 6), S # {}
    PROVE  /\ \E i \in S : \A j \in S : i <= j
           /\ \E i \in S : \A j \in S : j <= i
<1>1. S \subseteq {1, 2, 3, 4, 5, 6}
  OBVIOUS
<1>2. \E i \in S : \A j \in S : i <= j
  <2> SUFFICES ASSUME \A i \in S : \E j \in S : j < i PROVE FALSE
    BY <1>1
  <2>1. 1 \notin S
    BY <1>1
  <2>2. 2 \notin S
    BY <1>1, <2>1
  <2>3. 3 \notin S
    BY <1>1, <2>1, <2>2
  <2>4. 4 \notin S
    BY <1>1, <2>1, <2>2, <2>3
  <2>5. 5 \notin S
    BY <1>1, <2>1, <2>2, <2>3, <2>4
  <2>6. 6 \notin S
    BY <1>1, <2>1, <2>2, <2>3, <2>4, <2>5
  <2> QED BY <1>1, <2>1, <2>2, <2>3, <2>4, <2>5, <2>6
<1>3. \E i \in S : \A j \in S : j <= i
  <2> SUFFICES ASSUME \A i \in S : \E j \in S : j > i PROVE FALSE
    BY <1>1
  <2>1. 6 \notin S
    BY <1>1
  <2>2. 5 \notin S
    BY <1>1, <2>1
  <2>3. 4 \notin S
    BY <1>1, <2>1, <2>2
  <2>4. 3 \notin S
    BY <1>1, <2>1, <2>2, <2>3
  <2>5. 2 \notin S
    BY <1>1, <2>1, <2>2, <2>3, <2>4
  <2>6. 1 \notin S
    BY <1>1, <2>1, <2>2, <2>3, <2>4, <2>5
  <2> QED BY <1>1, <2>1, <2>2, <2>3, <2>4, <2>5, <2>6
<1> QED BY <1>2, <1>3

-----------------------------------------------------------------------------
(* The invariant. *)

Within == {"parse", "read", "add", "force", "mask"}
Behind == {"huffman", "decide"}

\* Threads are where their machine lets them be.
Places ==
    /\ machine \in Machines /\ routine \in Entries
    /\ simd_support # Unset => machine.users # {}
    /\ \A t \in Threads :
           /\ t \notin machine.users => pc[t] = "idle" /\ ~method[t]
           /\ pc[t] \in {"parse", "read", "add"} => Arch.adds
           /\ pc[t] = "mask" => ~Arch.adds
           /\ pc[t] \in {"force", "mask"} => at[t] \in SetFrom(1)
           /\ pc[t] \in Within \cup Behind \/ method[t] => simd_support # Unset
           /\ method[t] => pc[t] = "idle"

\* One thread alone: what it has made of simd_support so far.
Sequential ==
    \A t \in machine.users :
        /\ pc[t] \in {"idle", "check"} => simd_support \in {Unset, Settled}
        /\ pc[t] \in {"parse", "read"} => simd_support \in {{}, machine.detected}
        /\ pc[t] = "add" => reg[t] \in {{}, machine.detected}
        /\ pc[t] = "force" => simd_support = RestrictedBy(SetFrom(1) \ SetFrom(at[t]))
        /\ pc[t] = "mask" => reg[t] = RestrictedBy(SetFrom(1) \ SetFrom(at[t]))
        /\ pc[t] \in Behind \/ method[t] => simd_support = Settled

\* Several threads, and one variable at most: a thread that has left something else behind is
\* still within init_simd, and will put it right.
OneAtMost == \A i, j \in SetFrom(1) : i = j
Converging ==
    /\ ~Arch.adds => simd_support \in {Unset, machine.cpu, Settled}
    /\ Arch.adds /\ SetFrom(1) = {} =>
           /\ simd_support \in {Unset, {}, machine.detected}
           /\ \A t \in Threads : pc[t] = "add" => reg[t] \in {{}, machine.detected}
    /\ \A t \in Threads : pc[t] = "mask" => reg[t] \in {machine.cpu, Settled}
    /\ simd_support \notin {Unset, Settled} => \E t \in Threads : pc[t] \in Within

\* A method was installed because of an instruction set that the machine settles for.
Installed ==
    \A t \in Threads : method[t] => \E c \in routine.can : Holds(c, Settled)

Calm == machine.env \subseteq {"NOHUFFENC"} \/ Alone

IInv ==
    /\ TypeOK /\ Places
    /\ Alone => Sequential
    /\ OneAtMost => Converging
    /\ Calm => Installed /\ RunsOnCpu /\ RunsAsTested

-----------------------------------------------------------------------------
(* Steps. *)

\* What is fixed with the machine.
LEMMA FixedBy ==
    ASSUME machine' = machine
    PROVE  /\ Arch' = Arch /\ (\A i : SetFrom(i)' = SetFrom(i))
           /\ (\A set : RestrictedBy(set)' = RestrictedBy(set)) /\ Settled' = Settled
           /\ Alone' = Alone /\ OneAtMost' = OneAtMost /\ Calm' = Calm
           /\ \A c, support : Holds(c, support)' = Holds(c, support)
  BY DEF Arch, SetFrom, RestrictedBy, Settled, Alone, OneAtMost, Calm, Holds

\* The variables of the environment that are set.
LEMMA SetFromIs ==
    ASSUME machine \in Machines
    PROVE  /\ \A i \in Nat \ {0} : SetFrom(i) \subseteq SetFrom(1)
           /\ \A i \in SetFrom(1) : /\ i \in 1 .. 6 /\ i \in 1 .. Len(Arch.forced) /\ i \in Nat
                                    /\ Arch.forced[i][1] \in machine.env
                                    /\ Arch.forced[i][2] \subseteq ISAs
           /\ \A i \in Nat \ {0}, j \in SetFrom(1) : j \in SetFrom(i) <=> i <= j
           /\ \A i \in Nat \ {0} :
                  SetFrom(i) # {} => \E k \in SetFrom(i) : \A j \in SetFrom(i) : k <= j
<1>1. Len(Arch.forced) \in 2 .. 6
  BY ArchIs
<1>2. \A i \in Nat \ {0} : SetFrom(i) \in SUBSET (1 .. 6) /\ SetFrom(i) \subseteq SetFrom(1)
  BY <1>1 DEF SetFrom
<1>3. \A i \in SetFrom(1) : /\ i \in 1 .. 6 /\ i \in 1 .. Len(Arch.forced) /\ i \in Nat
                            /\ Arch.forced[i][1] \in machine.env
                            /\ Arch.forced[i][2] \subseteq ISAs
  BY <1>1, ArchIs DEF SetFrom
<1>4. \A i \in Nat \ {0}, j \in SetFrom(1) : j \in SetFrom(i) <=> i <= j
  BY <1>1 DEF SetFrom
<1>5. \A i \in Nat \ {0} :
          SetFrom(i) # {} => \E k \in SetFrom(i) : \A j \in SetFrom(i) : k <= j
  BY <1>2, LeastAndLast
<1> QED BY <1>2, <1>3, <1>4, <1>5

\* Thread t goes on with the variables from number i on.
Onward(t, i) ==
    \/ SetFrom(i) = {} /\ pc'[t] = "huffman" /\ at'[t] = at[t]
    \/ /\ pc'[t] = "force" /\ at'[t] \in SetFrom(i)
       /\ \A j \in SetFrom(i) : at'[t] <= j

Others(t) ==
    \A u \in Threads \ {t} : /\ pc'[u] = pc[u] /\ at'[u] = at[u] /\ reg'[u] = reg[u]
                             /\ method'[u] = method[u]
Keeps(t) == reg'[t] = reg[t] /\ method'[t] = method[t]

LEMMA NextForcedIs ==
    ASSUME TypeOK, machine \in Machines, NEW t \in Threads, NEW i \in Nat \ {0},
           NextForced(t, i)
    PROVE  /\ Onward(t, i)
           /\ \A u \in Threads \ {t} : pc'[u] = pc[u] /\ at'[u] = at[u]
           /\ pc' \in [Threads -> {"idle", "check", "detect", "parse", "read", "add", "force",
                                   "mask", "huffman", "decide"}]
           /\ at' \in [Threads -> Nat]
<1>1. /\ pc \in [Threads -> {"idle", "check", "detect", "parse", "read", "add", "force",
                             "mask", "huffman", "decide"}]
      /\ at \in [Threads -> Nat]
  BY DEF TypeOK
<1>2. CASE SetFrom(i) = {}
  BY <1>1, <1>2 DEF NextForced, Onward
<1>3. CASE SetFrom(i) # {}
  <2> DEFINE first == CHOOSE j \in SetFrom(i) : \A k \in SetFrom(i) : j <= k
  <2>1. first \in SetFrom(i) /\ \A k \in SetFrom(i) : first <= k
    BY <1>3, SetFromIs
  <2>2. first \in Nat
    BY <2>1, SetFromIs
  <2>3. pc' = [pc EXCEPT ![t] = "force"] /\ at' = [at EXCEPT ![t] = first]
    BY <1>3 DEF NextForced
  <2> HIDE DEF first
  <2> QED BY <1>1, <2>1, <2>2, <2>3 DEF Onward
<1> QED BY <1>2, <1>3

\* A thread goes to another place.
LEMMA GotoIs ==
    ASSUME TypeOK, NEW t \in Threads,
           NEW place \in {"idle", "check", "detect", "parse", "read", "add", "force", "mask",
                          "huffman", "decide"}, Goto(t, place)
    PROVE  /\ pc'[t] = place /\ at' = at
           /\ \A u \in Threads \ {t} : pc'[u] = pc[u]
           /\ pc' \in [Threads -> {"idle", "check", "detect", "parse", "read", "add", "force",
                                   "mask", "huffman", "decide"}]
  BY DEF Goto, TypeOK

\* What a step of thread t does to what the invariant speaks of.
Leads(t, from, to) == pc[t] = from /\ pc'[t] = to /\ at'[t] = at[t]
Asks(t) == Leads(t, "idle", "check") /\ ~method[t] /\ simd_support' = simd_support /\ Keeps(t)
Checks(t) ==
    /\ simd_support' = simd_support /\ Keeps(t)
    /\ \/ simd_support # Unset /\ Leads(t, "check", "decide")
       \/ simd_support = Unset /\ Leads(t, "check", "detect")
DetectsNone(t) ==
    /\ Arch.adds /\ simd_support' = {} /\ Keeps(t)
    /\ Leads(t, "detect", "parse") \/ Leads(t, "detect", "read")
DetectsAll(t) ==
    ~Arch.adds /\ simd_support' = machine.cpu /\ Keeps(t) /\ pc[t] = "detect" /\ Onward(t, 1)
Parses(t) ==
    /\ pc[t] = "parse" /\ simd_support' \in {{}, simd_support} /\ Keeps(t)
    /\ \/ Leads(t, "parse", "parse")
       \/ machine.detected = {} /\ Onward(t, 1)
       \/ Leads(t, "parse", "read")
ReadsToAdd(t) ==
    /\ Leads(t, "read", "add") /\ simd_support' = simd_support
    /\ reg'[t] = simd_support \cap ISAs /\ method'[t] = method[t]
Adds(t) ==
    /\ pc[t] = "add" /\ simd_support' = reg[t] \cup machine.detected /\ Keeps(t)
    /\ Onward(t, 1) \/ (Arch.adds /\ (Leads(t, "add", "read") \/ Leads(t, "add", "parse")))
Forces(t) ==
    /\ Arch.adds /\ pc[t] = "force" /\ simd_support' = Arch.forced[at[t]][2] /\ Keeps(t)
    /\ Onward(t, at[t] + 1)
ReadsToMask(t) ==
    /\ ~Arch.adds /\ Leads(t, "force", "mask") /\ simd_support' = simd_support
    /\ reg'[t] = simd_support \cap ISAs /\ method'[t] = method[t]
Masks(t) ==
    /\ pc[t] = "mask" /\ simd_support' = reg[t] \cap Arch.forced[at[t]][2] /\ Keeps(t)
    /\ Onward(t, at[t] + 1)
Passes(t) == Leads(t, "huffman", "decide") /\ simd_support' = simd_support /\ Keeps(t)
Decides(t) ==
    /\ Leads(t, "decide", "idle") /\ simd_support' = simd_support /\ reg'[t] = reg[t]
    /\ method'[t] => \E c \in routine.can : Holds(c, simd_support)
Destroys(t) ==
    /\ pc'[t] = pc[t] /\ at'[t] = at[t] /\ reg'[t] = reg[t] /\ simd_support' = simd_support
    /\ method[t] /\ ~method'[t]

Fixed == machine' = machine /\ routine' = routine
Moves(t) ==
    \/ Asks(t) \/ Checks(t) \/ DetectsNone(t) \/ DetectsAll(t) \/ Parses(t) \/ ReadsToAdd(t)
    \/ Adds(t) \/ Forces(t) \/ ReadsToMask(t) \/ Masks(t) \/ Passes(t) \/ Decides(t)
    \/ Destroys(t)

\* The variables stay in their ranges.
LEMMA StepMoves ==
    ASSUME TypeOK, Places, NEW t \in machine.users, Step(t)
    PROVE  Fixed /\ ran' = ran /\ Others(t) /\ Moves(t) /\ TypeOK'
<1> DEFINE places == {"idle", "check", "detect", "parse", "read", "add", "force", "mask",
                      "huffman", "decide"}
<1>1. machine \in Machines /\ t \in Threads
  BY MachineIs DEF Places
<1>2. /\ simd_support = Unset \/ simd_support \subseteq ISAs
      /\ simd_huffman \in BOOLEAN /\ pc \in [Threads -> places] /\ at \in [Threads -> Nat]
      /\ reg \in [Threads -> SUBSET ISAs] /\ method \in [Threads -> BOOLEAN]
      /\ ran \in ISAs \cup {"none", "-"}
  BY DEF TypeOK
<1> DEFINE Typed == /\ simd_support' = Unset \/ simd_support' \subseteq ISAs
                    /\ simd_huffman' \in BOOLEAN /\ pc' \in [Threads -> places]
                    /\ at' \in [Threads -> Nat] /\ reg' \in [Threads -> SUBSET ISAs]
                    /\ method' \in [Threads -> BOOLEAN]
<1>3. SUFFICES Fixed /\ ran' = ran /\ Others(t) /\ Moves(t) /\ Typed
  BY <1>2 DEF TypeOK
<1>4. \A place \in places :
          Goto(t, place) => /\ pc'[t] = place /\ at' = at /\ pc' \in [Threads -> places]
                            /\ \A u \in Threads \ {t} : pc'[u] = pc[u]
  BY <1>1, GotoIs
<1>5. \A i \in Nat \ {0} :
          NextForced(t, i) => /\ Onward(t, i) /\ pc' \in [Threads -> places]
                              /\ at' \in [Threads -> Nat]
                              /\ \A u \in Threads \ {t} : pc'[u] = pc[u] /\ at'[u] = at[u]
  BY <1>1, NextForcedIs
<1>6. /\ machine.cpu \subseteq ISAs /\ machine.detected \subseteq ISAs
      /\ Arch.adds \in BOOLEAN /\ Arch.parses \in BOOLEAN /\ Arch.parses => Arch.adds
      /\ pc[t] \in {"parse", "read", "add"} => Arch.adds
      /\ pc[t] = "mask" => ~Arch.adds
      /\ pc[t] \in {"force", "mask"} =>
             at[t] \in Nat /\ at[t] + 1 \in Nat \ {0} /\ Arch.forced[at[t]][2] \subseteq ISAs
  BY <1>1, MachineIs, ArchIs, SetFromIs DEF Places
<1>7. CASE Ask(t)
  BY <1>1, <1>2, <1>4, <1>7 DEF Ask, Fixed, Others, Moves, Asks, Leads, Keeps
<1>8. CASE CheckSupport(t)
  <2>1. CASE simd_support # Unset
    BY <1>1, <1>2, <1>4, <1>8, <2>1 DEF CheckSupport, Fixed, Others, Moves, Checks, Leads, Keeps
  <2>2. CASE simd_support = Unset
    BY <1>1, <1>2, <1>4, <1>8, <2>2 DEF CheckSupport, Fixed, Others, Moves, Checks, Leads, Keeps
  <2> QED BY <2>1, <2>2
<1>9. CASE Detect(t)
  <2>1. /\ pc[t] = "detect" /\ Fixed /\ ran' = ran
        /\ simd_huffman' = simd_huffman /\ reg' = reg /\ method' = method
    BY <1>9 DEF Detect, Fixed
  <2>2. CASE Arch.adds
    <3>1. simd_support' = {} /\ (Goto(t, "parse") \/ Goto(t, "read"))
      BY <1>9, <2>2 DEF Detect
    <3> QED BY <1>1, <1>2, <1>4, <2>1, <2>2, <3>1 DEF Others, Moves, DetectsNone, Leads, Keeps
  <2>3. CASE ~Arch.adds
    <3>1. simd_support' = machine.cpu /\ NextForced(t, 1)
      BY <1>9, <2>3 DEF Detect
    <3>2. /\ Onward(t, 1) /\ pc' \in [Threads -> places] /\ at' \in [Threads -> Nat]
          /\ \A u \in Threads \ {t} : pc'[u] = pc[u] /\ at'[u] = at[u]
      BY <1>5, <3>1
    <3> QED BY <1>1, <1>2, <1>6, <2>1, <2>3, <3>1, <3>2 DEF Others, Moves, DetectsAll, Keeps
  <2> QED BY <2>2, <2>3
<1>10. CASE ParseCpuinfo(t)
  <2>1. /\ pc[t] = "parse" /\ Fixed /\ ran' = ran /\ simd_support' \in {{}, simd_support}
        /\ simd_huffman' = simd_huffman /\ reg' = reg /\ method' = method
    BY <1>10 DEF ParseCpuinfo, Fixed
  <2>2. CASE Goto(t, "parse") \/ Goto(t, "read")
    BY <1>1, <1>2, <1>4, <2>1, <2>2 DEF Others, Moves, Parses, Leads, Keeps
  <2>3. CASE machine.detected = {} /\ NextForced(t, 1)
    <3>1. /\ Onward(t, 1) /\ pc' \in [Threads -> places] /\ at' \in [Threads -> Nat]
          /\ \A u \in Threads \ {t} : pc'[u] = pc[u] /\ at'[u] = at[u]
      BY <1>5, <2>3
    <3> QED BY <1>1, <1>2, <2>1, <2>3, <3>1 DEF Others, Moves, Parses, Keeps
  <2> QED BY <1>10, <2>2, <2>3 DEF ParseCpuinfo
<1>11. CASE ReadToAdd(t)
  BY <1>1, <1>2, <1>4, <1>11 DEF ReadToAdd, Fixed, Others, Moves, ReadsToAdd, Leads
<1>12. CASE Add(t)
  <2>1. /\ pc[t] = "add" /\ Fixed /\ ran' = ran /\ simd_support' = reg[t] \cup machine.detected
        /\ simd_huffman' = simd_huffman /\ reg' = reg /\ method' = method
        /\ simd_support' \subseteq ISAs
    BY <1>1, <1>2, <1>6, <1>12 DEF Add, Fixed
  <2>2. CASE Goto(t, "parse") \/ Goto(t, "read")
    BY <1>1, <1>2, <1>4, <1>6, <2>1, <2>2 DEF Others, Moves, Adds, Leads, Keeps
  <2>3. CASE NextForced(t, 1)
    <3>1. /\ Onward(t, 1) /\ pc' \in [Threads -> places] /\ at' \in [Threads -> Nat]
          /\ \A u \in Threads \ {t} : pc'[u] = pc[u] /\ at'[u] = at[u]
      BY <1>5, <2>3
    <3> QED BY <1>1, <1>2, <2>1, <2>3, <3>1 DEF Others, Moves, Adds, Keeps
  <2> QED BY <1>12, <2>2, <2>3 DEF Add
<1>13. CASE ForceISA(t)
  <2>1. /\ pc[t] = "force" /\ Fixed /\ ran' = ran
        /\ simd_huffman' = simd_huffman /\ method' = method
    BY <1>13 DEF ForceISA, Fixed
  <2>2. CASE Arch.adds
    <3>1. simd_support' = Arch.forced[at[t]][2] /\ reg' = reg /\ NextForced(t, at[t] + 1)
      BY <1>13, <2>2 DEF ForceISA
    <3>2. /\ Onward(t, at[t] + 1) /\ pc' \in [Threads -> places] /\ at' \in [Threads -> Nat]
          /\ \A u \in Threads \ {t} : pc'[u] = pc[u] /\ at'[u] = at[u]
      BY <1>5, <1>6, <2>1, <3>1
    <3> QED BY <1>1, <1>2, <1>6, <2>1, <2>2, <3>1, <3>2 DEF Others, Moves, Forces, Keeps
  <2>3. CASE ~Arch.adds
    <3>1. /\ simd_support' = simd_support /\ reg' = [reg EXCEPT ![t] = simd_support \cap ISAs]
          /\ Goto(t, "mask")
      BY <1>13, <2>3 DEF ForceISA
    <3> QED BY <1>1, <1>2, <1>4, <2>1, <2>3, <3>1 DEF Others, Moves, ReadsToMask, Leads
  <2> QED BY <2>2, <2>3
<1>14. CASE Mask(t)
  <2>1. /\ pc[t] = "mask" /\ Fixed /\ ran' = ran
        /\ simd_support' = reg[t] \cap Arch.forced[at[t]][2]
        /\ simd_huffman' = simd_huffman /\ reg' = reg /\ method' = method
        /\ simd_support' \subseteq ISAs /\ NextForced(t, at[t] + 1)
    BY <1>1, <1>2, <1>14 DEF Mask, Fixed
  <2>2. /\ Onward(t, at[t] + 1) /\ pc' \in [Threads -> places] /\ at' \in [Threads -> Nat]
        /\ \A u \in Threads \ {t} : pc'[u] = pc[u] /\ at'[u] = at[u]
    BY <1>5, <1>6, <2>1
  <2> QED BY <1>1, <1>2, <2>1, <2>2 DEF Others, Moves, Masks, Keeps
<1>15. CASE NoHuffman(t)
  <2>1. simd_huffman' \in BOOLEAN
    BY <1>2, <1>15 DEF NoHuffman
  <2> QED BY <1>1, <1>2, <1>4, <1>15, <2>1
          DEF NoHuffman, Fixed, Others, Moves, Passes, Leads, Keeps
<1>16. CASE Decide(t)
  <2>1. Can(simd_support, simd_huffman) \in BOOLEAN
    BY <1>2 DEF Can
  <2>2. method'[t] => \E c \in routine.can : Holds(c, simd_support)
    BY <1>1, <1>2, <1>16 DEF Decide, Can
  <2>3. method' \in [Threads -> BOOLEAN] /\ \A u \in Threads \ {t} : method'[u] = method[u]
    BY <1>1, <1>2, <1>16, <2>1 DEF Decide
  <2> QED BY <1>1, <1>2, <1>4, <1>16, <2>2, <2>3 DEF Decide, Fixed, Others, Moves, Decides, Leads
<1>17. CASE Destroy(t)
  BY <1>1, <1>2, <1>17 DEF Destroy, Fixed, Others, Moves, Destroys
<1> QED BY <1>7, <1>8, <1>9, <1>10, <1>11, <1>12, <1>13, <1>14, <1>15, <1>16, <1>17 DEF Step

-----------------------------------------------------------------------------
(* What the variables of the environment leave. *)

LEMMA RestrictedIs ==
    ASSUME machine \in Machines
    PROVE  /\ RestrictedBy({}) = IF Arch.adds THEN machine.detected ELSE machine.cpu
           /\ \A i \in SetFrom(1) :
                  RestrictedBy({i}) = IF Arch.adds THEN Arch.forced[i][2]
                                      ELSE machine.cpu \cap Arch.forced[i][2]
           /\ \A set \in SUBSET SetFrom(1) : \A i \in SetFrom(1) :
                  (\A j \in set : j <= i) =>
                      RestrictedBy(set \cup {i}) =
                          IF Arch.adds THEN Arch.forced[i][2]
                          ELSE RestrictedBy(set) \cap Arch.forced[i][2]
           /\ Settled \subseteq machine.cpu
<1> USE DEF RestrictedBy
<1>1. /\ machine.cpu \subseteq ISAs /\ machine.detected \subseteq machine.cpu
      /\ Arch.adds \in BOOLEAN
      /\ \A i \in SetFrom(1) : i \in 1 .. 6 /\ i \in Nat
      /\ Arch.adds => \A i \in SetFrom(1) : Arch.forced[i][2] \subseteq machine.cpu
  BY MachineIs, ArchIs, SetFromIs
<1>2. \A set \in SUBSET SetFrom(1) : \A i \in SetFrom(1) :
          (\A j \in set : j <= i) =>
              RestrictedBy(set \cup {i}) = IF Arch.adds THEN Arch.forced[i][2]
                                           ELSE RestrictedBy(set) \cap Arch.forced[i][2]
  <2> SUFFICES ASSUME NEW set \in SUBSET SetFrom(1), NEW i \in SetFrom(1), \A j \in set : j <= i
               PROVE  RestrictedBy(set \cup {i}) = IF Arch.adds THEN Arch.forced[i][2]
                                                   ELSE RestrictedBy(set) \cap Arch.forced[i][2]
    OBVIOUS
  <2>1. CASE ~Arch.adds
    BY <2>1
  <2>2. CASE Arch.adds
    <3> DEFINE last == CHOOSE k \in set \cup {i} : \A j \in set \cup {i} : j <= k
    <3>1. i \in set \cup {i} /\ \A j \in set \cup {i} : j <= i
      BY <1>1
    <3>2. last \in set \cup {i} /\ \A j \in set \cup {i} : j <= last
      BY <3>1
    <3>3. last = i
      BY <1>1, <3>1, <3>2
    <3>4. RestrictedBy(set \cup {i}) = Arch.forced[last][2]
      BY <2>2, <3>1
    <3> HIDE DEF last
    <3> QED BY <2>2, <3>3, <3>4
  <2> QED BY <1>1, <2>1, <2>2
<1>3. RestrictedBy({}) = IF Arch.adds THEN machine.detected ELSE machine.cpu
  BY <1>1
<1>4. \A i \in SetFrom(1) : RestrictedBy({i}) = IF Arch.adds THEN Arch.forced[i][2]
                                                ELSE machine.cpu \cap Arch.forced[i][2]
  <2> SUFFICES ASSUME NEW i \in SetFrom(1)
               PROVE  RestrictedBy({} \cup {i}) = IF Arch.adds THEN Arch.forced[i][2]
                                                  ELSE machine.cpu \cap Arch.forced[i][2]
    OBVIOUS
  <2>1. RestrictedBy({} \cup {i}) = IF Arch.adds THEN Arch.forced[i][2]
                                    ELSE RestrictedBy({}) \cap Arch.forced[i][2]
    BY <1>2
  <2> QED BY <1>1, <1>3, <2>1
<1>5. Settled \subseteq machine.cpu
  <2>1. CASE ~Arch.adds
    BY <2>1 DEF Settled
  <2>2. CASE Arch.adds /\ SetFrom(1) = {}
    BY <1>1, <2>2 DEF Settled
  <2>3. CASE Arch.adds /\ SetFrom(1) # {}
    <3> DEFINE last == CHOOSE k \in SetFrom(1) : \A j \in SetFrom(1) : j <= k
    <3>1. SetFrom(1) \in SUBSET (1 .. 6)
      BY <1>1
    <3>2. last \in SetFrom(1)
      BY <2>3, <3>1, LeastAndLast
    <3>3. Settled = Arch.forced[last][2]
      BY <2>3 DEF Settled
    <3> QED BY <1>1, <2>3, <3>2, <3>3
  <2> QED BY <1>1, <2>1, <2>2, <2>3
<1> QED BY <1>2, <1>3, <1>4, <1>5

\* The next variable that is set, and there is none.
LEMMA OnwardIs ==
    ASSUME machine \in Machines, NEW t \in Threads, NEW i \in Nat \ {0}, Onward(t, i)
    PROVE  /\ pc'[t] \in {"huffman", "force"}
           /\ pc'[t] = "huffman" => SetFrom(i) = {}
           /\ pc'[t] = "force" => /\ at'[t] \in SetFrom(1) /\ at'[t] \in SetFrom(i)
                                  /\ SetFrom(1) \ SetFrom(at'[t]) = SetFrom(1) \ SetFrom(i)
<1>1. CASE pc'[t] = "force"
  <2>1. at'[t] \in SetFrom(i) /\ \A j \in SetFrom(i) : at'[t] <= j
    BY <1>1 DEF Onward
  <2>2. at'[t] \in SetFrom(1) /\ at'[t] \in Nat \ {0}
    BY <2>1, SetFromIs
  <2>3. \A j \in SetFrom(1) : j \in SetFrom(at'[t]) <=> j \in SetFrom(i)
    BY <2>1, <2>2, SetFromIs
  <2> QED BY <1>1, <2>1, <2>2, <2>3
<1>2. CASE pc'[t] = "huffman"
  BY <1>2 DEF Onward
<1> QED BY <1>1, <1>2 DEF Onward

\* Behind a variable there are the ones before and itself.
LEMMA BehindIs ==
    ASSUME machine \in Machines, NEW i \in SetFrom(1)
    PROVE  /\ SetFrom(1) \ SetFrom(i + 1) = (SetFrom(1) \ SetFrom(i)) \cup {i}
           /\ \A j \in SetFrom(1) \ SetFrom(i) : j <= i
           /\ i + 1 \in Nat \ {0}
<1>1. /\ i \in Nat \ {0} /\ i + 1 \in Nat \ {0}
      /\ \A j \in SetFrom(1) : j \in Nat \ {0}
  BY SetFromIs
<1>2. \A j \in SetFrom(1) : /\ j \in SetFrom(i) <=> i <= j
                            /\ j \in SetFrom(i + 1) <=> i + 1 <= j
  BY <1>1, SetFromIs
<1>3. \A j \in SetFrom(1) : j \notin SetFrom(i + 1) <=> (j \notin SetFrom(i) \/ j = i)
  <2> TAKE j \in SetFrom(1)
  <2>1. ~(i + 1 <= j) <=> (~(i <= j) \/ j = i)
    BY <1>1
  <2> QED BY <1>2, <2>1
<1>4. \A j \in SetFrom(1) \ SetFrom(i) : j <= i
  <2> TAKE j \in SetFrom(1) \ SetFrom(i)
  <2>1. ~(i <= j)
    BY <1>2
  <2> QED BY <1>1, <2>1
<1>5. SetFrom(1) \ SetFrom(i + 1) = (SetFrom(1) \ SetFrom(i)) \cup {i}
  BY <1>3
<1> QED BY <1>1, <1>4, <1>5

-----------------------------------------------------------------------------
(* Each part of the invariant is kept. *)

LEMMA UnsetIs == \A S : S \subseteq ISAs => S # Unset
<1>1. "unused bits" \in Unset /\ "unused bits" \notin ISAs
  BY DEF Unset, ISAs
<1> QED BY <1>1

LEMMA PlacesKept ==
    ASSUME TypeOK, Places, NEW t \in machine.users, Fixed, Others(t), Moves(t)
    PROVE  Places'
<1>1. /\ machine \in Machines /\ t \in Threads /\ machine.users \subseteq Threads
      /\ t \in machine.users
  BY MachineIs DEF Places
<1>2. /\ machine' = machine /\ Arch' = Arch /\ SetFrom(1)' = SetFrom(1) /\ Entries' = Entries
      /\ routine' = routine
  BY FixedBy DEF Fixed, Entries
<1>3. Arch.adds \in BOOLEAN /\ machine.cpu \subseteq ISAs /\ machine.detected \subseteq ISAs
  BY <1>1, ArchIs, MachineIs
<1>4. \A S : S \subseteq ISAs => S # Unset
  BY UnsetIs
<1>5. /\ pc[t] \in {"parse", "read", "add"} => Arch.adds
      /\ pc[t] = "mask" => ~Arch.adds
      /\ pc[t] \in {"force", "mask"} =>
             /\ at[t] \in SetFrom(1) /\ at[t] + 1 \in Nat \ {0}
             /\ Arch.forced[at[t]][2] \subseteq ISAs
      /\ pc[t] \in Within \cup Behind \/ method[t] => simd_support # Unset
      /\ method[t] => pc[t] = "idle"
  BY <1>1, SetFromIs, BehindIs DEF Places
<1>6. reg[t] \subseteq ISAs /\ (simd_support = Unset \/ simd_support \subseteq ISAs)
  BY <1>1 DEF TypeOK
<1>7. \A i \in Nat \ {0} :
          Onward(t, i) => /\ pc'[t] \in {"huffman", "force"}
                          /\ pc'[t] = "force" => at'[t] \in SetFrom(1)
  BY <1>1, OnwardIs
<1> DEFINE Own == /\ pc'[t] \in {"parse", "read", "add"} => Arch.adds
                  /\ pc'[t] = "mask" => ~Arch.adds
                  /\ pc'[t] \in {"force", "mask"} => at'[t] \in SetFrom(1)
                  /\ pc'[t] \in Within \cup Behind \/ method'[t] => simd_support' # Unset
                  /\ method'[t] => pc'[t] = "idle"
                  /\ simd_support # Unset => simd_support' # Unset
<1> USE DEF Within, Behind, Leads, Keeps
<1>8. Own
  <2>1. CASE Asks(t) \/ Checks(t)
    BY <1>5, <2>1 DEF Asks, Checks
  <2>2. CASE DetectsNone(t)
    BY <1>4, <1>5, <2>2 DEF DetectsNone
  <2>3. CASE DetectsAll(t)
    BY <1>3, <1>4, <1>5, <1>7, <2>3 DEF DetectsAll
  <2>4. CASE Parses(t)
    <3>1. simd_support' # Unset
      BY <1>4, <1>5, <2>4 DEF Parses
    <3> QED BY <1>5, <1>7, <2>4, <3>1 DEF Parses
  <2>5. CASE ReadsToAdd(t) \/ ReadsToMask(t)
    BY <1>5, <2>5 DEF ReadsToAdd, ReadsToMask
  <2>6. CASE Adds(t)
    <3>1. simd_support' # Unset
      BY <1>3, <1>4, <1>6, <2>6 DEF Adds
    <3> QED BY <1>5, <1>7, <2>6, <3>1 DEF Adds
  <2>7. CASE Forces(t)
    BY <1>4, <1>5, <1>7, <2>7 DEF Forces
  <2>8. CASE Masks(t)
    <3>1. simd_support' # Unset
      BY <1>4, <1>6, <2>8 DEF Masks
    <3> QED BY <1>5, <1>7, <2>8, <3>1 DEF Masks
  <2>9. CASE Passes(t) \/ Decides(t) \/ Destroys(t)
    BY <1>5, <2>9 DEF Passes, Decides, Destroys
  <2> QED BY <2>1, <2>2, <2>3, <2>4, <2>5, <2>6, <2>7, <2>8, <2>9 DEF Moves
<1>9. machine' \in Machines /\ routine' \in Entries' /\ machine'.users # {}
  BY <1>1, <1>2 DEF Places
<1>10. ASSUME NEW u \in Threads \ {t}
       PROVE  /\ u \notin machine.users => pc'[u] = "idle" /\ ~method'[u]
              /\ pc'[u] \in {"parse", "read", "add"} => Arch.adds
              /\ pc'[u] = "mask" => ~Arch.adds
              /\ pc'[u] \in {"force", "mask"} => at'[u] \in SetFrom(1)
              /\ pc'[u] \in Within \cup Behind \/ method'[u] => simd_support' # Unset
              /\ method'[u] => pc'[u] = "idle"
  <2>1. pc'[u] = pc[u] /\ at'[u] = at[u] /\ method'[u] = method[u]
    BY <1>10 DEF Others
  <2> QED BY <1>8, <2>1 DEF Places
<1> QED BY <1>1, <1>2, <1>8, <1>9, <1>10 DEF Places

\* One thread alone.
LEMMA SequentialKept ==
    ASSUME TypeOK, Places, Alone, Sequential, NEW t \in machine.users,
           Fixed, Others(t), Moves(t)
    PROVE  Sequential'
<1>1. /\ machine \in Machines /\ t \in Threads /\ \A u \in machine.users : u = t
      /\ Arch.adds \in BOOLEAN
  BY MachineIs, ArchIs DEF Places, Alone
<1>2. /\ machine' = machine /\ SetFrom(1)' = SetFrom(1) /\ Settled' = Settled
      /\ (\A i : SetFrom(i)' = SetFrom(i))
      /\ \A set : RestrictedBy(set)' = RestrictedBy(set)
  BY FixedBy DEF Fixed
<1> DEFINE before(i) == SetFrom(1) \ SetFrom(i)
<1>3. /\ pc[t] \in {"idle", "check"} => simd_support \in {Unset, Settled}
      /\ pc[t] \in {"parse", "read"} => simd_support \in {{}, machine.detected}
      /\ pc[t] = "add" => reg[t] \in {{}, machine.detected}
      /\ pc[t] = "force" => simd_support = RestrictedBy(before(at[t]))
      /\ pc[t] = "mask" => reg[t] = RestrictedBy(before(at[t]))
      /\ pc[t] \in Behind \/ method[t] => simd_support = Settled
  BY DEF Sequential
<1>4. /\ pc[t] \in {"parse", "read", "add"} => Arch.adds
      /\ pc[t] = "mask" => ~Arch.adds
      /\ pc[t] \in {"force", "mask"} => at[t] \in SetFrom(1)
      /\ pc[t] \in Within \cup Behind \/ method[t] => simd_support # Unset
      /\ method[t] => pc[t] = "idle"
      /\ reg[t] \subseteq ISAs /\ (simd_support = Unset \/ simd_support \subseteq ISAs)
  BY <1>1 DEF Places, TypeOK
<1>5. \A i \in Nat \ {0} :
          Onward(t, i) /\ simd_support' = RestrictedBy(before(i))
              => /\ pc'[t] \in {"huffman", "force"}
                 /\ pc'[t] = "huffman" => simd_support' = Settled
                 /\ pc'[t] = "force" => simd_support' = RestrictedBy(before(at'[t]))
  <2> SUFFICES ASSUME NEW i \in Nat \ {0},
                      Onward(t, i), simd_support' = RestrictedBy(before(i))
               PROVE  /\ pc'[t] \in {"huffman", "force"}
                      /\ pc'[t] = "huffman" => simd_support' = Settled
                      /\ pc'[t] = "force" => simd_support' = RestrictedBy(before(at'[t]))
    OBVIOUS
  <2>1. SetFrom(i) = {} => before(i) = SetFrom(1)
    OBVIOUS
  <2>2. /\ pc'[t] \in {"huffman", "force"}
        /\ pc'[t] = "huffman" => SetFrom(i) = {}
        /\ pc'[t] = "force" => before(at'[t]) = before(i)
    BY <1>1, OnwardIs
  <2> QED BY <2>1, <2>2 DEF Settled
<1>6. before(1) = {} /\ RestrictedBy(before(1)) = IF Arch.adds THEN machine.detected
                                                  ELSE machine.cpu
  BY <1>1, RestrictedIs
<1>7. pc[t] \in {"force", "mask"} =>
          /\ at[t] + 1 \in Nat \ {0}
          /\ RestrictedBy(before(at[t] + 1)) =
                 IF Arch.adds THEN Arch.forced[at[t]][2]
                 ELSE RestrictedBy(before(at[t])) \cap Arch.forced[at[t]][2]
  <2> SUFFICES ASSUME at[t] \in SetFrom(1)
               PROVE  /\ at[t] + 1 \in Nat \ {0}
                      /\ RestrictedBy(before(at[t] + 1)) =
                             IF Arch.adds THEN Arch.forced[at[t]][2]
                             ELSE RestrictedBy(before(at[t])) \cap Arch.forced[at[t]][2]
    BY <1>4
  <2>1. /\ before(at[t] + 1) = before(at[t]) \cup {at[t]} /\ at[t] + 1 \in Nat \ {0}
        /\ \A j \in before(at[t]) : j <= at[t]
    BY <1>1, BehindIs
  <2>2. before(at[t]) \in SUBSET SetFrom(1)
    OBVIOUS
  <2> HIDE DEF before
  <2>3. RestrictedBy(before(at[t]) \cup {at[t]}) =
            IF Arch.adds THEN Arch.forced[at[t]][2]
            ELSE RestrictedBy(before(at[t])) \cap Arch.forced[at[t]][2]
    BY <1>1, <2>1, <2>2, RestrictedIs
  <2> QED BY <2>1, <2>3
<1> HIDE DEF before
<1> DEFINE Own == /\ pc'[t] \in {"idle", "check"} => simd_support' \in {Unset, Settled}
                  /\ pc'[t] \in {"parse", "read"} => simd_support' \in {{}, machine.detected}
                  /\ pc'[t] = "add" => reg'[t] \in {{}, machine.detected}
                  /\ pc'[t] = "force" => simd_support' = RestrictedBy(before(at'[t]))
                  /\ pc'[t] = "mask" => reg'[t] = RestrictedBy(before(at'[t]))
                  /\ pc'[t] \in Behind \/ method'[t] => simd_support' = Settled
<1>8. Own
  <2> USE DEF Within, Behind, Leads, Keeps
  <2>1. CASE Asks(t) \/ Checks(t)
    BY <1>3, <1>4, <2>1 DEF Asks, Checks
  <2>2. CASE DetectsNone(t)
    BY <1>4, <2>2 DEF DetectsNone
  <2>3. CASE DetectsAll(t)
    <3>1. simd_support' = RestrictedBy(before(1)) /\ Onward(t, 1)
      BY <1>6, <2>3 DEF DetectsAll
    <3>2. /\ pc'[t] \in {"huffman", "force"}
          /\ pc'[t] = "huffman" => simd_support' = Settled
          /\ pc'[t] = "force" => simd_support' = RestrictedBy(before(at'[t]))
      BY <1>5, <3>1
    <3> QED BY <1>4, <2>3, <3>2 DEF DetectsAll
  <2>4. CASE Parses(t)
    <3>1. simd_support' \in {{}, machine.detected}
      BY <1>3, <2>4 DEF Parses
    <3>2. CASE machine.detected = {} /\ Onward(t, 1)
      <4>1. simd_support' = RestrictedBy(before(1))
        BY <1>4, <1>6, <2>4, <3>1, <3>2 DEF Parses
      <4>2. /\ pc'[t] \in {"huffman", "force"}
            /\ pc'[t] = "huffman" => simd_support' = Settled
            /\ pc'[t] = "force" => simd_support' = RestrictedBy(before(at'[t]))
        BY <1>5, <3>2, <4>1
      <4> QED BY <1>4, <2>4, <4>2 DEF Parses
    <3> QED BY <1>4, <2>4, <3>1, <3>2 DEF Parses
  <2>5. CASE ReadsToAdd(t)
    <3>1. simd_support \in {{}, machine.detected} /\ simd_support \subseteq ISAs
      BY <1>1, <1>3, <2>5, MachineIs DEF ReadsToAdd
    <3>2. reg'[t] = simd_support
      BY <2>5, <3>1 DEF ReadsToAdd
    <3> QED BY <1>4, <2>5, <3>1, <3>2 DEF ReadsToAdd
  <2>6. CASE Adds(t)
    <3>1. simd_support' = machine.detected
      BY <1>3, <2>6 DEF Adds
    <3>2. CASE Onward(t, 1)
      <4>1. simd_support' = RestrictedBy(before(1))
        BY <1>4, <1>6, <2>6, <3>1 DEF Adds
      <4>2. /\ pc'[t] \in {"huffman", "force"}
            /\ pc'[t] = "huffman" => simd_support' = Settled
            /\ pc'[t] = "force" => simd_support' = RestrictedBy(before(at'[t]))
        BY <1>5, <3>2, <4>1
      <4> QED BY <1>4, <2>6, <4>2 DEF Adds
    <3> QED BY <1>4, <2>6, <3>1, <3>2 DEF Adds
  <2>7. CASE Forces(t)
    <3>1. simd_support' = RestrictedBy(before(at[t] + 1)) /\ Onward(t, at[t] + 1)
      BY <1>7, <2>7 DEF Forces
    <3>2. /\ pc'[t] \in {"huffman", "force"}
          /\ pc'[t] = "huffman" => simd_support' = Settled
          /\ pc'[t] = "force" => simd_support' = RestrictedBy(before(at'[t]))
      BY <1>5, <1>7, <2>7, <3>1 DEF Forces
    <3> QED BY <1>4, <2>7, <3>2 DEF Forces
  <2>8. CASE ReadsToMask(t)
    <3>1. reg'[t] = simd_support
      BY <1>4, <2>8 DEF ReadsToMask
    <3> QED BY <1>3, <1>4, <2>8, <3>1 DEF ReadsToMask
  <2>9. CASE Masks(t)
    <3>1. simd_support' = RestrictedBy(before(at[t] + 1)) /\ Onward(t, at[t] + 1)
      BY <1>3, <1>4, <1>7, <2>9 DEF Masks
    <3>2. /\ pc'[t] \in {"huffman", "force"}
          /\ pc'[t] = "huffman" => simd_support' = Settled
          /\ pc'[t] = "force" => simd_support' = RestrictedBy(before(at'[t]))
      BY <1>5, <1>7, <2>9, <3>1 DEF Masks
    <3> QED BY <1>4, <2>9, <3>2 DEF Masks
  <2>10. CASE Passes(t) \/ Decides(t) \/ Destroys(t)
    BY <1>3, <1>4, <2>10 DEF Passes, Decides, Destroys
  <2> QED BY <2>1, <2>2, <2>3, <2>4, <2>5, <2>6, <2>7, <2>8, <2>9, <2>10 DEF Moves
<1>9. SUFFICES ASSUME NEW u \in machine'.users
               PROVE  /\ pc'[u] \in {"idle", "check"} => simd_support' \in {Unset, Settled'}
                      /\ pc'[u] \in {"parse", "read"} =>
                             simd_support' \in {{}, machine'.detected}
                      /\ pc'[u] = "add" => reg'[u] \in {{}, machine'.detected}
                      /\ pc'[u] = "force" =>
                             simd_support' = RestrictedBy(SetFrom(1) \ SetFrom(at[u]))'
                      /\ pc'[u] = "mask" =>
                             reg'[u] = RestrictedBy(SetFrom(1) \ SetFrom(at[u]))'
                      /\ pc'[u] \in Behind \/ method'[u] => simd_support' = Settled'
  BY DEF Sequential
<1>10. u = t
  BY <1>1, <1>2
<1>11. RestrictedBy(SetFrom(1) \ SetFrom(at[u]))' = RestrictedBy(before(at'[t]))
  BY <1>2, <1>10 DEF before
<1> QED BY <1>2, <1>8, <1>10, <1>11

\* Several threads, and one variable at most.
LEMMA OneAtMostIs ==
    ASSUME machine \in Machines, OneAtMost
    PROVE  /\ SetFrom(1) = {} =>
                  Settled = IF Arch.adds THEN machine.detected ELSE machine.cpu
           /\ \A i \in SetFrom(1) :
                  /\ i + 1 \in Nat \ {0}
                  /\ Settled = IF Arch.adds THEN Arch.forced[i][2]
                               ELSE machine.cpu \cap Arch.forced[i][2]
<1>1. SetFrom(1) = {} => Settled = IF Arch.adds THEN machine.detected ELSE machine.cpu
  BY RestrictedIs DEF Settled
<1>2. ASSUME NEW i \in SetFrom(1)
      PROVE  Settled = IF Arch.adds THEN Arch.forced[i][2]
                       ELSE machine.cpu \cap Arch.forced[i][2]
  <2>1. SetFrom(1) = {i}
    BY DEF OneAtMost
  <2>2. RestrictedBy({i}) = IF Arch.adds THEN Arch.forced[i][2]
                            ELSE machine.cpu \cap Arch.forced[i][2]
    BY RestrictedIs
  <2> QED BY <2>1, <2>2 DEF Settled
<1> QED BY <1>1, <1>2, BehindIs

LEMMA ConvergingKept ==
    ASSUME TypeOK, Places, OneAtMost, Converging, NEW t \in machine.users,
           Fixed, Others(t), Moves(t)
    PROVE  Converging'
<1>1. /\ machine \in Machines /\ t \in Threads /\ Arch.adds \in BOOLEAN
      /\ machine.detected \subseteq ISAs
  BY MachineIs, ArchIs DEF Places
<1>2. /\ machine' = machine /\ SetFrom(1)' = SetFrom(1) /\ Settled' = Settled /\ Arch' = Arch
  BY FixedBy DEF Fixed
<1> DEFINE none == SetFrom(1) = {}
<1>3. /\ none => Settled = IF Arch.adds THEN machine.detected ELSE machine.cpu
      /\ pc[t] \in {"force", "mask"} =>
             /\ ~none /\ at[t] + 1 \in Nat \ {0}
             /\ Settled = IF Arch.adds THEN Arch.forced[at[t]][2]
                          ELSE machine.cpu \cap Arch.forced[at[t]][2]
  BY <1>1, OneAtMostIs DEF Places
<1>4. /\ pc[t] \in {"parse", "read", "add"} => Arch.adds
      /\ pc[t] = "mask" => ~Arch.adds
      /\ pc[t] \in Within \cup Behind \/ method[t] => simd_support # Unset
      /\ method[t] => pc[t] = "idle"
      /\ reg[t] \subseteq ISAs /\ (simd_support = Unset \/ simd_support \subseteq ISAs)
  BY <1>1 DEF Places, TypeOK
<1>5. \A i \in Nat \ {0} :
          Onward(t, i) => /\ pc'[t] \in {"huffman", "force"}
                          /\ pc'[t] = "huffman" /\ i = 1 => none
  BY <1>1, OnwardIs
<1>6. /\ ~Arch.adds => simd_support \in {Unset, machine.cpu, Settled}
      /\ Arch.adds /\ none => /\ simd_support \in {Unset, {}, machine.detected}
                              /\ pc[t] = "add" => reg[t] \in {{}, machine.detected}
      /\ pc[t] = "mask" => reg[t] \in {machine.cpu, Settled}
  BY <1>1 DEF Converging
<1> HIDE DEF none
<1> DEFINE Support == /\ ~Arch.adds => simd_support' \in {Unset, machine.cpu, Settled}
                      /\ Arch.adds /\ none => simd_support' \in {Unset, {}, machine.detected}
           Registers == /\ Arch.adds /\ none /\ pc'[t] = "add" =>
                               reg'[t] \in {{}, machine.detected}
                        /\ pc'[t] = "mask" => reg'[t] \in {machine.cpu, Settled}
           Converges == \/ simd_support' \in {Unset, Settled}
                        \/ pc'[t] \in Within
                        \/ simd_support' = simd_support /\ pc[t] \notin Within
<1>7. Support /\ Registers /\ Converges
  <2> USE DEF Within, Behind, Leads, Keeps
  <2>1. CASE Asks(t) \/ Checks(t)
    BY <1>6, <2>1 DEF Asks, Checks
  <2>2. CASE DetectsNone(t)
    BY <2>2 DEF DetectsNone
  <2>3. CASE DetectsAll(t)
    BY <1>3, <1>5, <2>3 DEF DetectsAll
  <2>4. CASE Parses(t)
    <3>1. CASE machine.detected = {} /\ Onward(t, 1)
      <4>1. pc'[t] = "huffman" => none /\ simd_support' = {}
        BY <1>4, <1>5, <1>6, <2>4, <3>1 DEF Parses
      <4>2. pc'[t] \in {"huffman", "force"}
        BY <1>5, <3>1
      <4> QED BY <1>3, <1>4, <1>6, <2>4, <3>1, <4>1, <4>2 DEF Parses
    <3> QED BY <1>4, <1>6, <2>4, <3>1 DEF Parses
  <2>5. CASE ReadsToAdd(t)
    BY <1>4, <1>6, <2>5 DEF ReadsToAdd
  <2>6. CASE Adds(t)
    <3>1. none => simd_support' = machine.detected
      BY <1>4, <1>6, <2>6 DEF Adds
    <3>2. pc'[t] \in {"huffman", "force", "read", "parse"} /\ (pc'[t] = "huffman" => none)
      BY <1>5, <2>6 DEF Adds
    <3> QED BY <1>3, <1>4, <2>6, <3>1, <3>2 DEF Adds
  <2>7. CASE Forces(t)
    BY <1>3, <1>5, <2>7 DEF Forces
  <2>8. CASE ReadsToMask(t)
    <3>1. reg'[t] = simd_support /\ simd_support # Unset
      BY <1>4, <2>8 DEF ReadsToMask
    <3> QED BY <1>6, <2>8, <3>1 DEF ReadsToMask
  <2>9. CASE Masks(t)
    <3>1. simd_support' = Settled
      BY <1>3, <1>4, <1>6, <2>9 DEF Masks
    <3>2. pc'[t] \in {"huffman", "force"}
      BY <1>3, <1>5, <2>9 DEF Masks
    <3> QED BY <1>4, <2>9, <3>1, <3>2 DEF Masks
  <2>10. CASE Passes(t) \/ Decides(t) \/ Destroys(t)
    BY <1>4, <1>6, <2>10 DEF Passes, Decides, Destroys
  <2> QED BY <2>1, <2>2, <2>3, <2>4, <2>5, <2>6, <2>7, <2>8, <2>9, <2>10 DEF Moves
<1>8. \A u \in Threads \ {t} : pc'[u] = pc[u] /\ reg'[u] = reg[u]
  BY DEF Others
<1>9. simd_support' \notin {Unset, Settled} => \E u \in Threads : pc'[u] \in Within
  <2>1. CASE pc'[t] \in Within
    BY <1>1, <2>1
  <2>2. CASE simd_support' = simd_support /\ pc[t] \notin Within
                 /\ simd_support \notin {Unset, Settled}
    <3>1. PICK u \in Threads : pc[u] \in Within
      BY <2>2 DEF Converging
    <3>2. pc'[u] \in Within
      BY <1>8, <2>2, <3>1
    <3> QED BY <3>2
  <2> QED BY <1>7, <2>1, <2>2
<1>10. \A u \in Threads :
           /\ Arch.adds /\ none /\ pc'[u] = "add" => reg'[u] \in {{}, machine.detected}
           /\ pc'[u] = "mask" => reg'[u] \in {machine.cpu, Settled}
  BY <1>7, <1>8 DEF Converging, none
<1> QED BY <1>2, <1>7, <1>9, <1>10 DEF Converging, none

-----------------------------------------------------------------------------
(* What runs. *)

LEMMA CalmIs ==
    ASSUME machine \in Machines, machine.env \subseteq {"NOHUFFENC"}
    PROVE  SetFrom(1) = {} /\ OneAtMost
  BY ArchIs, SetFromIs DEF OneAtMost

\* A version; and what jsimd_can_x() found is enough for one.
LEMMA VersionIs ==
    ASSUME Places
    PROVE  /\ \A S : Version(S) \in ISAs \cup {"none"}
           /\ \A S \in SUBSET machine.cpu : \A c \in routine.can :
                  Holds(c, S) => Version(S) \in machine.cpu
           /\ Arch.adds => \A S : \A c \in routine.can : Version(S) = c.isa
<1>1. /\ machine \in Machines /\ Usable(routine) /\ (Arch.adds => Single(routine))
      /\ "SSE2" \in machine.cpu => "MMX" \in machine.cpu
      /\ \A isa : <<isa, "none">> \notin machine.unaligned
  BY TablesUsable, MachineIs DEF Places, Entries, Arch
<1>2. /\ DOMAIN routine.tests \subseteq {1, 2}
      /\ \A i \in DOMAIN routine.tests : routine.tests[i].isa \in ISAs
      /\ routine.otherwise \in ISAs \cup {"none"}
      /\ \A c \in routine.can :
             \/ \E i \in DOMAIN routine.tests :
                    routine.tests[i] = c \/ routine.tests[i] = On(c.isa)
             \/ routine.otherwise = c.isa
             \/ c.isa = "SSE2" /\ routine.otherwise = "MMX"
  BY <1>1 DEF Usable
<1> DEFINE holding(S) == {i \in DOMAIN routine.tests : Holds(routine.tests[i], S)}
<1>3. \A S : \/ holding(S) = {} /\ Version(S) = routine.otherwise
             \/ \E i \in holding(S) : Version(S) = routine.tests[i].isa
  <2> TAKE S
  <2> DEFINE first == CHOOSE i \in holding(S) : \A j \in holding(S) : i <= j
  <2>1. CASE holding(S) = {}
    BY <2>1 DEF Version
  <2>2. CASE holding(S) # {}
    <3>1. holding(S) \in SUBSET (1 .. 6)
      BY <1>2
    <3>2. \E i \in holding(S) : \A j \in holding(S) : i <= j
      BY <2>2, <3>1, LeastAndLast
    <3>3. first \in holding(S)
      BY <3>2
    <3>4. Version(S) = routine.tests[first].isa
      BY <2>2 DEF Version
    <3> QED BY <3>3, <3>4
  <2> QED BY <2>1, <2>2
<1>4. \A S : Version(S) \in ISAs \cup {"none"}
  BY <1>2, <1>3
<1>5. ASSUME NEW S \in SUBSET machine.cpu, NEW c \in routine.can, Holds(c, S)
      PROVE  Version(S) \in machine.cpu
  <2>1. c.isa \in S /\ Holds(On(c.isa), S)
    BY <1>1, <1>5 DEF Holds, On
  <2>2. CASE holding(S) = {}
    <3>1. \A i \in DOMAIN routine.tests : ~Holds(routine.tests[i], S)
      BY <2>2
    <3>2. Version(S) = routine.otherwise
      BY <1>3, <2>2
    <3> QED BY <1>1, <1>2, <1>5, <2>1, <3>1, <3>2
  <2>3. CASE \E i \in holding(S) : Version(S) = routine.tests[i].isa
    <3>1. PICK i \in DOMAIN routine.tests :
              Holds(routine.tests[i], S) /\ Version(S) = routine.tests[i].isa
      BY <2>3
    <3> QED BY <1>5, <3>1 DEF Holds
  <2> QED BY <1>3, <2>2, <2>3
<1>6. ASSUME Arch.adds, NEW S, NEW c \in routine.can
      PROVE  Version(S) = c.isa
  <2>1. routine.tests = <<>> /\ c.isa = routine.otherwise
    BY <1>1, <1>6 DEF Single
  <2>2. holding(S) = {}
    BY <2>1
  <2> QED BY <1>3, <2>1, <2>2
<1> QED BY <1>4, <1>5, <1>6

\* A method is installed for an instruction set that the machine settles for.
LEMMA InstalledKept ==
    ASSUME TypeOK, Places, Alone => Sequential, OneAtMost => Converging, Calm, Installed,
           NEW t \in machine.users, Fixed, Others(t), Moves(t)
    PROVE  Installed'
<1>1. machine \in Machines /\ t \in Threads /\ Arch.adds \in BOOLEAN
  BY MachineIs, ArchIs DEF Places
<1>2. /\ routine' = routine /\ Settled' = Settled
      /\ \A c, support : Holds(c, support)' = Holds(c, support)
  BY FixedBy DEF Fixed
<1>3. CASE Decides(t)
  <2>1. pc[t] = "decide" /\ simd_support # Unset
    BY <1>1, <1>3 DEF Decides, Leads, Places, Within, Behind
  <2>2. simd_support \in {{}, Settled}
    <3>1. CASE Alone
      BY <2>1, <3>1 DEF Sequential, Behind
    <3>2. CASE machine.env \subseteq {"NOHUFFENC"}
      <4>1. SetFrom(1) = {} /\ OneAtMost /\ Converging
        BY <1>1, <3>2, CalmIs
      <4>2. Settled = IF Arch.adds THEN machine.detected ELSE machine.cpu
        BY <1>1, <4>1, OneAtMostIs
      <4> QED BY <1>1, <2>1, <4>1, <4>2 DEF Converging
    <3> QED BY <3>1, <3>2 DEF Calm
  <2>3. method'[t] => \E c \in routine.can : Holds(c, simd_support)
    BY <1>3 DEF Decides
  <2>4. method'[t] => \E c \in routine.can : Holds(c, Settled)
    BY <2>2, <2>3 DEF Holds
  <2>5. \A u \in Threads \ {t} : method'[u] = method[u]
    BY DEF Others
  <2>6. \A u \in Threads : method'[u] => \E c \in routine.can : Holds(c, Settled)
    BY <2>4, <2>5 DEF Installed
  <2> QED BY <1>2, <2>6 DEF Installed
<1>4. CASE ~Decides(t)
  <2>1. \A u \in Threads : method'[u] => method[u]
    BY <1>1, <1>4 DEF Moves, Asks, Checks, DetectsNone, DetectsAll, Parses, ReadsToAdd, Adds,
                      Forces, ReadsToMask, Masks, Passes, Destroys, Keeps, Others
  <2>2. \A u \in Threads : method'[u] => \E c \in routine.can : Holds(c, Settled)
    BY <2>1 DEF Installed
  <2> QED BY <1>2, <2>2 DEF Installed
<1> QED BY <1>3, <1>4

\* The method is called.
LEMMA RunKeeps ==
    ASSUME IInv, Run
    PROVE  IInv'
<1>1. /\ machine' = machine /\ routine' = routine /\ simd_support' = simd_support
      /\ simd_huffman' = simd_huffman /\ pc' = pc /\ at' = at /\ reg' = reg /\ method' = method
      /\ ran' = Version(simd_support)
  BY DEF Run
<1>2. Places /\ TypeOK
  BY DEF IInv
<1>3. /\ Alone' = Alone /\ OneAtMost' = OneAtMost /\ Calm' = Calm /\ Arch' = Arch
      /\ SetFrom(1)' = SetFrom(1) /\ (\A i : SetFrom(i)' = SetFrom(i)) /\ Settled' = Settled
      /\ (\A set : RestrictedBy(set)' = RestrictedBy(set))
      /\ \A c, support : Holds(c, support)' = Holds(c, support)
  BY <1>1, FixedBy
<1>4. Places'
  BY <1>1, <1>2, <1>3 DEF Places, Entries
<1>5. TypeOK'
  BY <1>1, <1>2, VersionIs DEF TypeOK
<1>6. Alone => Sequential'
  BY <1>1, <1>3 DEF IInv, Sequential
<1>7. OneAtMost => Converging'
  BY <1>1, <1>3 DEF IInv, Converging
<1>8. ASSUME Calm PROVE Installed' /\ RunsOnCpu' /\ RunsAsTested'
  <2>1. Installed
    BY <1>8 DEF IInv
  <2>2. Installed'
    BY <1>1, <1>3, <2>1 DEF Installed
  <2>3. PICK t \in Threads : method[t]
    BY DEF Run
  <2>4. PICK c \in routine.can : Holds(c, Settled)
    BY <2>1, <2>3 DEF Installed
  <2>5. machine \in Machines /\ Settled \subseteq machine.cpu /\ simd_support # Unset
    BY <1>2, <2>3, RestrictedIs DEF Places
  <2>6. Version(simd_support) \in machine.cpu
    <3>1. CASE simd_support = Settled
      BY <1>2, <2>4, <2>5, <3>1, VersionIs
    <3>2. CASE Arch.adds
      <4>1. Version(simd_support) = c.isa
        BY <1>2, <3>2, VersionIs
      <4> QED BY <2>4, <2>5, <4>1 DEF Holds
    <3>3. CASE Alone
      <4>1. t \in machine.users /\ Sequential
        BY <1>2, <2>3, <3>3 DEF IInv, Places
      <4> QED BY <2>3, <3>1, <4>1 DEF Sequential
    <3>4. CASE ~Arch.adds /\ machine.env \subseteq {"NOHUFFENC"}
      <4>1. SetFrom(1) = {} /\ OneAtMost /\ Converging
        BY <2>5, <3>4, CalmIs DEF IInv
      <4>2. Settled = machine.cpu
        BY <2>5, <3>4, <4>1, OneAtMostIs
      <4> QED BY <2>5, <3>1, <3>4, <4>1, <4>2 DEF Converging
    <3> QED BY <1>8, <3>2, <3>3, <3>4 DEF Calm
  <2>7. RunsAsTested'
    BY <1>1, <1>3, <2>4 DEF RunsAsTested
  <2> QED BY <1>1, <2>2, <2>6, <2>7 DEF RunsOnCpu
<1> QED BY <1>3, <1>4, <1>5, <1>6, <1>7, <1>8 DEF IInv

-----------------------------------------------------------------------------
(* The invariant is inductive. *)

\* Nothing is asked yet.
LEMMA InitHolds == ASSUME Init PROVE IInv
<1>1. simd_support = Unset /\ ran = "-"
  BY DEF Init
<1>2. TypeOK
  BY DEF Init, TypeOK
<1>3. \A t \in Threads : pc[t] = "idle" /\ ~method[t]
  BY DEF Init
<1>4. machine \in Machines /\ routine \in Entries /\ machine.users \subseteq Threads
  BY MachineIs DEF Init
<1>5. Places
  BY <1>1, <1>3, <1>4 DEF Places, Within, Behind
<1>6. Sequential
  BY <1>1, <1>3, <1>4 DEF Sequential, Behind
<1>7. Converging
  BY <1>1, <1>3 DEF Converging
<1>8. Installed /\ RunsOnCpu /\ RunsAsTested
  BY <1>1, <1>3 DEF Installed, RunsOnCpu, RunsAsTested
<1> QED BY <1>2, <1>5, <1>6, <1>7, <1>8 DEF IInv

LEMMA StepKeeps ==
    ASSUME IInv, NEW t \in machine.users, Step(t)
    PROVE  IInv'
<1>1. /\ TypeOK /\ Places /\ (Alone => Sequential) /\ (OneAtMost => Converging)
      /\ (Calm => Installed /\ RunsOnCpu /\ RunsAsTested)
  BY DEF IInv
<1>2. Fixed /\ ran' = ran /\ Others(t) /\ Moves(t) /\ TypeOK'
  BY <1>1, StepMoves
<1>3. Alone' = Alone /\ OneAtMost' = OneAtMost /\ Calm' = Calm /\ machine' = machine
  BY <1>2, FixedBy DEF Fixed
<1>4. Places'
  BY <1>1, <1>2, PlacesKept
<1>5. Alone => Sequential'
  BY <1>1, <1>2, SequentialKept
<1>6. OneAtMost => Converging'
  BY <1>1, <1>2, ConvergingKept
<1>7. Calm => Installed'
  BY <1>1, <1>2, InstalledKept
<1>8. Calm => RunsOnCpu' /\ RunsAsTested'
  <2>1. /\ Settled' = Settled /\ routine' = routine
        /\ \A c, support : Holds(c, support)' = Holds(c, support)
    BY <1>2, FixedBy DEF Fixed
  <2>2. Calm => RunsAsTested'
    BY <1>1, <1>2, <1>3, <2>1 DEF RunsAsTested
  <2> QED BY <1>1, <1>2, <1>3, <2>2 DEF RunsOnCpu
<1> QED BY <1>2, <1>3, <1>4, <1>5, <1>6, <1>7, <1>8 DEF IInv

LEMMA NextKeeps == IInv /\ [Next]_vars => IInv'
<1> SUFFICES ASSUME IInv, [Next]_vars PROVE IInv'
  OBVIOUS
<1>1. CASE UNCHANGED vars
  <2>1. /\ machine' = machine /\ routine' = routine /\ simd_support' = simd_support
        /\ simd_huffman' = simd_huffman /\ pc' = pc /\ at' = at /\ reg' = reg
        /\ method' = method /\ ran' = ran
    BY <1>1 DEF vars
  <2>2. /\ Alone' = Alone /\ OneAtMost' = OneAtMost /\ Calm' = Calm /\ Arch' = Arch
        /\ SetFrom(1)' = SetFrom(1) /\ (\A i : SetFrom(i)' = SetFrom(i)) /\ Settled' = Settled
        /\ (\A set : RestrictedBy(set)' = RestrictedBy(set))
        /\ \A c, support : Holds(c, support)' = Holds(c, support)
    BY <2>1, FixedBy
  <2>3. TypeOK' /\ Places'
    BY <2>1, <2>2 DEF IInv, TypeOK, Places, Entries
  <2>4. (Alone => Sequential') /\ (OneAtMost => Converging')
    BY <2>1, <2>2 DEF IInv, Sequential, Converging
  <2>5. Calm => Installed' /\ RunsOnCpu' /\ RunsAsTested'
    BY <2>1, <2>2 DEF IInv, Installed, RunsOnCpu, RunsAsTested
  <2> QED BY <2>2, <2>3, <2>4, <2>5 DEF IInv
<1>2. CASE Run
  BY <1>2, RunKeeps
<1>3. CASE \E t \in machine.users : Step(t)
  BY <1>3, StepKeeps
<1> QED BY <1>1, <1>2, <1>3 DEF Next

LEMMA InvariantHolds == Spec => []IInv
<1>1. Init => IInv
  BY InitHolds
<1>2. IInv /\ [Next]_vars => IInv'
  BY NextKeeps
<1> QED BY <1>1, <1>2, PTL DEF Spec

-----------------------------------------------------------------------------
(* The theorems. *)

\* No more than one variable that is set, as a number.
LEMMA CountedIs ==
    ASSUME machine \in Machines, Cardinality(SetFrom(1)) <= 1
    PROVE  OneAtMost
<1>1. SetFrom(1) \in SUBSET (1 .. 6)
  BY SetFromIs
<1>2. IsFiniteSet(1 .. 6)
  <2>1. 1 \in Int /\ 6 \in Int
    OBVIOUS
  <2> QED BY ONLY <2>1, FS_Interval
<1>3. IsFiniteSet(SetFrom(1)) /\ Cardinality(SetFrom(1)) \in Nat
  BY <1>1, <1>2, FS_Subset, FS_CardinalityType
<1>4. CASE Cardinality(SetFrom(1)) = 0
  BY <1>3, <1>4, FS_EmptySet DEF OneAtMost
<1>5. CASE Cardinality(SetFrom(1)) = 1
  <2>1. \E x : SetFrom(1) = {x}
    BY <1>3, <1>5, FS_Singleton
  <2> QED BY <2>1 DEF OneAtMost
<1> QED BY <1>3, <1>4, <1>5

\* Whatever version a method runs is one that the processor has the instructions of, although
\* jsimd_can_x() and jsimd_x() look at simd_support at different times (init_simd and the
\* functions behind it in simd/*/jsimd.c), and it runs only where the constants of a version that
\* is allowed have been found aligned: for any number of threads that race if no variable
\* of the environment is set, and for one thread on every machine of the assumption.
THEOREM MethodsRunSupported == Spec => []RunsSupported
<1>1. IInv => RunsSupported
  BY DEF IInv, RunsSupported, Calm, RunsOnCpu, RunsAsTested
<1> QED BY <1>1, InvariantHolds, PTL

\* However the assignments of init_simd interleave, any number of threads leave in simd_support
\* what one alone would have left, if no more than one variable restricts it.
THEOREM AssignmentsSettle == Spec => []SupportSettles
<1>1. ASSUME IInv PROVE SupportSettles
  <2> SUFFICES ASSUME \A t \in Threads : pc[t] \in {"idle", "decide"}, simd_support # Unset,
                      Cardinality(SetFrom(1)) <= 1 \/ Alone
               PROVE  simd_support = Settled
    BY DEF SupportSettles
  <2>1. machine \in Machines /\ machine.users # {} /\ machine.users \subseteq Threads
    BY <1>1, MachineIs DEF IInv, Places
  <2>2. CASE Cardinality(SetFrom(1)) <= 1
    <3>1. Converging
      BY <1>1, <2>1, <2>2, CountedIs DEF IInv
    <3> QED BY <3>1 DEF Converging, Within
  <2>3. CASE Alone
    <3>1. PICK t \in machine.users : t \in Threads
      BY <2>1
    <3>2. pc[t] \in {"idle", "decide"} /\ Sequential
      BY <1>1, <2>3, <3>1 DEF IInv
    <3> QED BY <3>1, <3>2 DEF Sequential, Behind
  <2> QED BY <2>2, <2>3
<1> QED BY <1>1, InvariantHolds, PTL

=============================================================================
