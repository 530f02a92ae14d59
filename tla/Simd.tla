-------------------------------- MODULE Simd --------------------------------
(***************************************************************************)
(* How the library finds out which SIMD instructions it may use.  The      *)
(* answer is kept in static variables that all threads share without a     *)
(* lock (init_simd: "FIXME: This code is racy under a multi-threaded       *)
(* environment").  A thread that sets up an object asks jsimd_can_x() and, *)
(* if the answer is yes, installs jsimd_x() as a method of the object;     *)
(* jsimd_x() looks at simd_support again whenever it is called.            *)
(*                                                                         *)
(* Every access to simd_support is a step of its own, the read and the     *)
(* write of "&=" and "|=" too, so that threads interleave between them.    *)
(***************************************************************************)
EXTENDS Sequences, Naturals, FiniteSets

CONSTANTS
    Threads,      \* the threads that use the library
    Machines      \* what it may run on, see Machine

-----------------------------------------------------------------------------
(***************************************************************************)
(* Which routines have a SIMD version on which instruction set.  One table *)
(* for each file simd/<architecture>/jsimd.c, which has two functions for  *)
(* each routine: jsimd_can_x() tells whether there is a version that may   *)
(* be used, jsimd_x() picks the version and runs it.  A table keeps of the *)
(* first the conditions of which any suffices, of the second the tests in  *)
(* their order and what runs if all fail.  Both test simd_support anew.    *)
(* The tests of types and sizes that the compiler decides are taken to     *)
(* hold (8-bit samples, DCTSIZE 8; on MIPS little-endian with an FPU), and *)
(* the variants of a routine for each order of the colors are one.         *)
(***************************************************************************)

\* simd_support & JSIMD_isa
On(isa) == [isa |-> isa, constants |-> "none"]

\* ... && IS_ALIGNED(the constants of this version of a routine)
Aligned(isa, constants) == [isa |-> isa, constants |-> constants]

\* if (tests[1]) ... else if (tests[2]) ... else otherwise; otherwise = "none"
\* if there is no last else.
Routine(names, can, tests, otherwise) ==
    [names |-> names, can |-> can, tests |-> tests, otherwise |-> otherwise, huffman |-> FALSE]

\* ... && simd_huffman
IfHuffman(routine) == [routine EXCEPT !.huffman = TRUE]

\* Routines with one version.
Only(isa, names) == Routine(names, {On(isa)}, <<>>, isa)

\* Routines without any: jsimd_can_x() returns 0.
Never(names) == Routine(names, {}, <<>>, "none")

-----------------------------------------------------------------------------
\* simd/i386/jsimd.c

I386ColorCan(routine) ==
    {Aligned("AVX2", routine), Aligned("SSE2", routine), On("MMX")}

I386ToYcc ==
    {Routine({"rgb_ycc"}, I386ColorCan("rgb_ycc"), <<On("AVX2"), On("SSE2")>>, "MMX"),
     Routine({"rgb_gray"}, I386ColorCan("rgb_gray"), <<On("AVX2"), On("SSE2")>>, "MMX")}

I386ToRgb ==
    {Routine({"ycc_rgb"}, I386ColorCan("ycc_rgb"), <<On("AVX2"), On("SSE2")>>, "MMX"),
     Never({"ycc_rgb565"})}

I386Downsample ==
    {Routine({"h2v2_downsample", "h2v1_downsample"},
             {On("AVX2"), On("SSE2"), On("MMX")}, <<On("AVX2"), On("SSE2")>>, "MMX")}

I386Upsample ==
    {Routine({"h2v2_upsample", "h2v1_upsample"},
             {On("AVX2"), On("SSE2"), On("MMX")}, <<On("AVX2"), On("SSE2")>>, "MMX")}

I386Fancy ==
    {Routine({"h2v2_fancy_upsample", "h2v1_fancy_upsample"},
             {Aligned("AVX2", "fancy_upsample"), Aligned("SSE2", "fancy_upsample"), On("MMX")},
             <<On("AVX2"), On("SSE2")>>, "MMX")}

I386Merged ==
    {Routine({"h2v2_merged_upsample", "h2v1_merged_upsample"},
             {Aligned("AVX2", "merged_upsample"), Aligned("SSE2", "merged_upsample"), On("MMX")},
             <<On("AVX2"), On("SSE2")>>, "MMX")}

I386Convsamp ==
    {Routine({"convsamp"},
             {On("AVX2"), On("SSE2"), On("MMX")}, <<On("AVX2"), On("SSE2")>>, "MMX"),
     Routine({"convsamp_float"},
             {On("SSE2"), On("SSE"), On("3DNOW")}, <<On("SSE2"), On("SSE")>>, "3DNOW")}

I386Fdct ==
    {Routine({"fdct_islow"},
             {Aligned("AVX2", "fdct_islow"), Aligned("SSE2", "fdct_islow"), On("MMX")},
             <<On("AVX2"), On("SSE2")>>, "MMX"),
     Routine({"fdct_ifast"},
             {Aligned("SSE2", "fdct_ifast"), On("MMX")}, <<Aligned("SSE2", "fdct_islow")>>, "MMX"),
     Routine({"fdct_float"},
             {Aligned("SSE", "fdct_float"), On("3DNOW")},
             <<Aligned("SSE", "fdct_float"), On("3DNOW")>>, "none")}

I386Quantize ==
    {Routine({"quantize"},
             {On("AVX2"), On("SSE2"), On("MMX")}, <<On("AVX2"), On("SSE2")>>, "MMX"),
     Routine({"quantize_float"},
             {On("SSE2"), On("SSE"), On("3DNOW")}, <<On("SSE2"), On("SSE")>>, "3DNOW")}

I386ReducedIdct ==
    {Routine({"idct_2x2", "idct_4x4"},
             {Aligned("SSE2", "idct_red"), On("MMX")}, <<Aligned("SSE2", "idct_red")>>, "MMX")}

I386Idct ==
    {Routine({"idct_islow"},
             {Aligned("AVX2", "idct_islow"), Aligned("SSE2", "idct_islow"), On("MMX")},
             <<On("AVX2"), On("SSE2")>>, "MMX"),
     Routine({"idct_ifast"},
             {Aligned("SSE2", "idct_ifast"), On("MMX")}, <<Aligned("SSE2", "idct_ifast")>>, "MMX"),
     Routine({"idct_float"},
             {Aligned("SSE2", "idct_float"), Aligned("SSE", "idct_float"), On("3DNOW")},
             <<Aligned("SSE2", "idct_float"), Aligned("SSE", "idct_float")>>, "3DNOW")}

I386Huffman ==
    {IfHuffman(Routine({"huff_encode_one_block"},
             {Aligned("SSE2", "huff_encode_one_block")}, <<>>, "SSE2")),
     Only("SSE2", {"encode_mcu_AC_first_prepare", "encode_mcu_AC_refine_prepare"})}

I386Table ==
    I386ToYcc \cup I386ToRgb \cup I386Downsample \cup I386Upsample \cup I386Fancy \cup
    I386Merged \cup I386Convsamp \cup I386Fdct \cup I386Quantize \cup I386ReducedIdct \cup
    I386Idct \cup I386Huffman

-----------------------------------------------------------------------------
\* simd/x86_64/jsimd.c

X64ColorCan(routine) ==
    {Aligned("AVX2", routine), Aligned("SSE2", routine)}

X64ToYcc ==
    {Routine({"rgb_ycc"}, X64ColorCan("rgb_ycc"), <<On("AVX2")>>, "SSE2"),
     Routine({"rgb_gray"}, X64ColorCan("rgb_gray"), <<On("AVX2")>>, "SSE2")}

X64ToRgb ==
    {Routine({"ycc_rgb"}, X64ColorCan("ycc_rgb"), <<On("AVX2")>>, "SSE2"),
     Never({"ycc_rgb565"})}

X64Downsample ==
    {Routine({"h2v2_downsample", "h2v1_downsample"},
             {On("AVX2"), On("SSE2")}, <<On("AVX2")>>, "SSE2")}

X64Upsample ==
    {Routine({"h2v2_upsample", "h2v1_upsample"},
             {On("AVX2"), On("SSE2")}, <<On("AVX2")>>, "SSE2")}

X64Fancy ==
    {Routine({"h2v2_fancy_upsample", "h2v1_fancy_upsample"},
             {Aligned("AVX2", "fancy_upsample"), Aligned("SSE2", "fancy_upsample")},
             <<On("AVX2")>>, "SSE2")}

X64Merged ==
    {Routine({"h2v2_merged_upsample", "h2v1_merged_upsample"},
             {Aligned("AVX2", "merged_upsample"), Aligned("SSE2", "merged_upsample")},
             <<On("AVX2")>>, "SSE2")}

X64Convsamp ==
    {Routine({"convsamp"},
             {On("AVX2"), On("SSE2")}, <<On("AVX2")>>, "SSE2"),
     Only("SSE2", {"convsamp_float"})}

X64Fdct ==
    {Routine({"fdct_islow"},
             {Aligned("AVX2", "fdct_islow"), Aligned("SSE2", "fdct_islow")},
             <<On("AVX2")>>, "SSE2"),
     Routine({"fdct_ifast"},
             {Aligned("SSE2", "fdct_ifast")}, <<>>, "SSE2"),
     Routine({"fdct_float"},
             {Aligned("SSE", "fdct_float")}, <<>>, "SSE")}

X64Quantize ==
    {Routine({"quantize"},
             {On("AVX2"), On("SSE2")}, <<On("AVX2")>>, "SSE2"),
     Only("SSE2", {"quantize_float"})}

X64ReducedIdct ==
    {Routine({"idct_2x2", "idct_4x4"},
             {Aligned("SSE2", "idct_red")}, <<>>, "SSE2")}

X64Idct ==
    {Routine({"idct_islow"},
             {Aligned("AVX2", "idct_islow"), Aligned("SSE2", "idct_islow")},
             <<On("AVX2")>>, "SSE2"),
     Routine({"idct_ifast"},
             {Aligned("SSE2", "idct_ifast")}, <<>>, "SSE2"),
     Routine({"idct_float"},
             {Aligned("SSE2", "idct_float")}, <<>>, "SSE2")}

X64Huffman ==
    {IfHuffman(Routine({"huff_encode_one_block"},
             {Aligned("SSE2", "huff_encode_one_block")}, <<>>, "SSE2")),
     Only("SSE2", {"encode_mcu_AC_first_prepare", "encode_mcu_AC_refine_prepare"})}

X64Table ==
    X64ToYcc \cup X64ToRgb \cup X64Downsample \cup X64Upsample \cup X64Fancy \cup X64Merged \cup
    X64Convsamp \cup X64Fdct \cup X64Quantize \cup X64ReducedIdct \cup X64Idct \cup X64Huffman

-----------------------------------------------------------------------------
\* simd/arm/aarch32/jsimd.c

Arm32ColorCan ==
    {On("NEON")}

Arm32ToYcc ==
    {Routine({"rgb_ycc", "rgb_gray"}, Arm32ColorCan, <<>>, "NEON")}

Arm32ToRgb ==
    {Routine({"ycc_rgb", "ycc_rgb565"}, Arm32ColorCan, <<>>, "NEON")}

Arm32Downsample ==
    {Only("NEON", {"h2v2_downsample", "h2v1_downsample"})}

Arm32Upsample ==
    {Only("NEON", {"h2v2_upsample", "h2v1_upsample"})}

Arm32Fancy ==
    {Only("NEON", {"h2v2_fancy_upsample", "h2v1_fancy_upsample", "h1v2_fancy_upsample"})}

Arm32Merged ==
    {Only("NEON", {"h2v2_merged_upsample", "h2v1_merged_upsample"})}

Arm32Convsamp ==
    {Only("NEON", {"convsamp"}),
     Never({"convsamp_float"})}

Arm32Fdct ==
    {Only("NEON", {"fdct_islow", "fdct_ifast"}),
     Never({"fdct_float"})}

Arm32Quantize ==
    {Only("NEON", {"quantize"}),
     Never({"quantize_float"})}

Arm32ReducedIdct ==
    {Only("NEON", {"idct_2x2", "idct_4x4"})}

Arm32Idct ==
    {Only("NEON", {"idct_islow", "idct_ifast"}),
     Never({"idct_float"})}

Arm32Huffman ==
    {IfHuffman(Only("NEON", {"huff_encode_one_block"})),
     Only("NEON", {"encode_mcu_AC_first_prepare", "encode_mcu_AC_refine_prepare"})}

Arm32Table ==
    Arm32ToYcc \cup Arm32ToRgb \cup Arm32Downsample \cup Arm32Upsample \cup Arm32Fancy \cup
    Arm32Merged \cup Arm32Convsamp \cup Arm32Fdct \cup Arm32Quantize \cup Arm32ReducedIdct \cup
    Arm32Idct \cup Arm32Huffman

-----------------------------------------------------------------------------
\* simd/arm/aarch64/jsimd.c

Arm64ColorCan ==
    {On("NEON")}

Arm64ToYcc ==
    {Routine({"rgb_ycc", "rgb_gray"}, Arm64ColorCan, <<>>, "NEON")}

Arm64ToRgb ==
    {Routine({"ycc_rgb", "ycc_rgb565"}, Arm64ColorCan, <<>>, "NEON")}

Arm64Downsample ==
    {Only("NEON", {"h2v2_downsample", "h2v1_downsample"})}

Arm64Upsample ==
    {Only("NEON", {"h2v2_upsample", "h2v1_upsample"})}

Arm64Fancy ==
    {Only("NEON", {"h2v2_fancy_upsample", "h2v1_fancy_upsample", "h1v2_fancy_upsample"})}

Arm64Merged ==
    {Only("NEON", {"h2v2_merged_upsample", "h2v1_merged_upsample"})}

Arm64Convsamp ==
    {Only("NEON", {"convsamp"}),
     Never({"convsamp_float"})}

Arm64Fdct ==
    {Only("NEON", {"fdct_islow", "fdct_ifast"}),
     Never({"fdct_float"})}

Arm64Quantize ==
    {Only("NEON", {"quantize"}),
     Never({"quantize_float"})}

Arm64ReducedIdct ==
    {Only("NEON", {"idct_2x2", "idct_4x4"})}

Arm64Idct ==
    {Only("NEON", {"idct_islow", "idct_ifast"}),
     Never({"idct_float"})}

Arm64Huffman ==
    {IfHuffman(Only("NEON", {"huff_encode_one_block"})),
     Only("NEON", {"encode_mcu_AC_first_prepare", "encode_mcu_AC_refine_prepare"})}

Arm64Table ==
    Arm64ToYcc \cup Arm64ToRgb \cup Arm64Downsample \cup Arm64Upsample \cup Arm64Fancy \cup
    Arm64Merged \cup Arm64Convsamp \cup Arm64Fdct \cup Arm64Quantize \cup Arm64ReducedIdct \cup
    Arm64Idct \cup Arm64Huffman

-----------------------------------------------------------------------------
\* simd/mips/jsimd.c

MipsColorCan ==
    {On("DSPR2")}

MipsToYcc ==
    {Routine({"rgb_ycc", "rgb_gray"}, MipsColorCan, <<>>, "DSPR2")}

MipsToRgb ==
    {Routine({"ycc_rgb", "c_null"}, MipsColorCan, <<>>, "DSPR2"),
     Never({"ycc_rgb565"})}

MipsDownsample ==
    {Never({"h2v2_downsample", "h2v1_downsample"}),
     Only("DSPR2", {"h2v2_smooth_downsample"})}

MipsUpsample ==
    {Only("DSPR2", {"h2v2_upsample", "h2v1_upsample", "int_upsample"})}

MipsFancy ==
    {Only("DSPR2", {"h2v2_fancy_upsample", "h2v1_fancy_upsample"})}

MipsMerged ==
    {Only("DSPR2", {"h2v2_merged_upsample", "h2v1_merged_upsample"})}

MipsConvsamp ==
    {Only("DSPR2", {"convsamp", "convsamp_float"})}

MipsFdct ==
    {Only("DSPR2", {"fdct_islow", "fdct_ifast"}),
     Never({"fdct_float"})}

MipsQuantize ==
    {Only("DSPR2", {"quantize", "quantize_float"})}

MipsReducedIdct ==
    {Only("DSPR2", {"idct_2x2", "idct_4x4", "idct_6x6", "idct_12x12"})}

MipsIdct ==
    {Only("DSPR2", {"idct_islow", "idct_ifast"}),
     Never({"idct_float"})}

MipsHuffman ==
    {Never({"huff_encode_one_block", "encode_mcu_AC_first_prepare",
            "encode_mcu_AC_refine_prepare"})}

MipsTable ==
    MipsToYcc \cup MipsToRgb \cup MipsDownsample \cup MipsUpsample \cup MipsFancy \cup
    MipsMerged \cup MipsConvsamp \cup MipsFdct \cup MipsQuantize \cup MipsReducedIdct \cup
    MipsIdct \cup MipsHuffman

-----------------------------------------------------------------------------
\* simd/mips64/jsimd.c

Mips64ColorCan ==
    {On("MMI")}

Mips64ToYcc ==
    {Routine({"rgb_ycc", "rgb_gray"}, Mips64ColorCan, <<>>, "MMI")}

Mips64ToRgb ==
    {Routine({"ycc_rgb"}, Mips64ColorCan, <<>>, "MMI"),
     Never({"ycc_rgb565", "c_null"})}

Mips64Downsample ==
    {Only("MMI", {"h2v2_downsample"}),
     Never({"h2v2_smooth_downsample", "h2v1_downsample"})}

Mips64Upsample ==
    {Never({"h2v2_upsample", "h2v1_upsample", "int_upsample"})}

Mips64Fancy ==
    {Only("MMI", {"h2v2_fancy_upsample", "h2v1_fancy_upsample"})}

Mips64Merged ==
    {Only("MMI", {"h2v2_merged_upsample", "h2v1_merged_upsample"})}

Mips64Convsamp ==
    {Never({"convsamp", "convsamp_float"})}

Mips64Fdct ==
    {Only("MMI", {"fdct_islow", "fdct_ifast"}),
     Never({"fdct_float"})}

Mips64Quantize ==
    {Only("MMI", {"quantize"}),
     Never({"quantize_float"})}

Mips64ReducedIdct ==
    {Never({"idct_2x2", "idct_4x4", "idct_6x6", "idct_12x12"})}

Mips64Idct ==
    {Only("MMI", {"idct_islow", "idct_ifast"}),
     Never({"idct_float"})}

Mips64Huffman ==
    {Never({"huff_encode_one_block", "encode_mcu_AC_first_prepare",
            "encode_mcu_AC_refine_prepare"})}

Mips64Table ==
    Mips64ToYcc \cup Mips64ToRgb \cup Mips64Downsample \cup Mips64Upsample \cup Mips64Fancy \cup
    Mips64Merged \cup Mips64Convsamp \cup Mips64Fdct \cup Mips64Quantize \cup
    Mips64ReducedIdct \cup Mips64Idct \cup Mips64Huffman

-----------------------------------------------------------------------------
\* simd/powerpc/jsimd.c

PowerPCColorCan ==
    {On("ALTIVEC")}

PowerPCToYcc ==
    {Routine({"rgb_ycc", "rgb_gray"}, PowerPCColorCan, <<>>, "ALTIVEC")}

PowerPCToRgb ==
    {Routine({"ycc_rgb"}, PowerPCColorCan, <<>>, "ALTIVEC"),
     Never({"ycc_rgb565"})}

PowerPCDownsample ==
    {Only("ALTIVEC", {"h2v2_downsample", "h2v1_downsample"})}

PowerPCUpsample ==
    {Only("ALTIVEC", {"h2v2_upsample", "h2v1_upsample"})}

PowerPCFancy ==
    {Only("ALTIVEC", {"h2v2_fancy_upsample", "h2v1_fancy_upsample"})}

PowerPCMerged ==
    {Only("ALTIVEC", {"h2v2_merged_upsample", "h2v1_merged_upsample"})}

PowerPCConvsamp ==
    {Only("ALTIVEC", {"convsamp"}),
     Never({"convsamp_float"})}

PowerPCFdct ==
    {Only("ALTIVEC", {"fdct_islow", "fdct_ifast"}),
     Never({"fdct_float"})}

PowerPCQuantize ==
    {Only("ALTIVEC", {"quantize"}),
     Never({"quantize_float"})}

PowerPCReducedIdct ==
    {Never({"idct_2x2", "idct_4x4"})}

PowerPCIdct ==
    {Only("ALTIVEC", {"idct_islow", "idct_ifast"}),
     Never({"idct_float"})}

PowerPCHuffman ==
    {Never({"huff_encode_one_block", "encode_mcu_AC_first_prepare",
            "encode_mcu_AC_refine_prepare"})}

PowerPCTable ==
    PowerPCToYcc \cup PowerPCToRgb \cup PowerPCDownsample \cup PowerPCUpsample \cup
    PowerPCFancy \cup PowerPCMerged \cup PowerPCConvsamp \cup PowerPCFdct \cup
    PowerPCQuantize \cup PowerPCReducedIdct \cup PowerPCIdct \cup PowerPCHuffman

-----------------------------------------------------------------------------
ISAs == {"MMX", "3DNOW", "SSE", "SSE2", "AVX2", "NEON", "DSPR2", "MMI", "ALTIVEC"}

\* static unsigned int simd_support = (unsigned int)(~0)
Unset == ISAs \cup {"unused bits"}

\* The variables of the environment in the order init_simd looks at them: what each
\* leaves (x86) or makes (elsewhere) of simd_support.
ForcedX64 ==
    << <<"FORCESSE2", {"SSE2"}>>, <<"FORCEAVX2", {"AVX2"}>>, <<"FORCENONE", {}>> >>
ForcedI386 ==
    << <<"FORCEMMX", {"MMX"}>>, <<"FORCE3DNOW", {"3DNOW", "MMX"}>>,
       <<"FORCESSE", {"SSE", "MMX"}>>, ForcedX64[1], ForcedX64[2], ForcedX64[3] >>
ForcedTo(isa) == << <<"FORCEISA", {isa}>>, <<"FORCENONE", {}>> >>

\* An architecture: whether init_simd begins with simd_support = 0 and adds to it, or
\* assigns what jpeg_simd_cpu_support() returns; whether it has to read /proc/cpuinfo to
\* know, and does so again if its buffer is too small; the variables.
Architectures ==
    LET a(adds, parses, retries, forced) ==
            [adds |-> adds, parses |-> parses, retries |-> retries, forced |-> forced]
    IN [ I386    |-> a(FALSE, FALSE, FALSE, ForcedI386),
         X64     |-> a(FALSE, FALSE, FALSE, ForcedX64),
         Arm32   |-> a(TRUE, TRUE, TRUE, ForcedTo("NEON")),
         Arm64   |-> a(TRUE, FALSE, FALSE, ForcedTo("NEON")),
         Mips    |-> a(TRUE, TRUE, FALSE, ForcedTo("DSPR2")),
         Mips64  |-> a(TRUE, TRUE, TRUE, ForcedTo("MMI")),
         PowerPC |-> a(TRUE, TRUE, TRUE, ForcedTo("ALTIVEC")) ]

Tables ==
    [ I386 |-> I386Table, X64 |-> X64Table, Arm32 |-> Arm32Table, Arm64 |-> Arm64Table,
      Mips |-> MipsTable, Mips64 |-> Mips64Table, PowerPC |-> PowerPCTable ]

\* What the library runs on.  cpu: the instruction sets of the processor; detected: those
\* that are found out (all, or none if /proc/cpuinfo cannot be read); env: the variables
\* that are 1; unaligned: the constants <<isa, name>> that the linker did not align; users:
\* the threads that use the library.
Machine == [arch : DOMAIN Architectures, cpu : SUBSET ISAs, detected : SUBSET ISAs,
            env : SUBSET STRING, unaligned : SUBSET (ISAs \X (STRING \ {"none"})),
            users : SUBSET Threads]

\* What is found out is there; a processor with SSE2 has MMX; and nobody claims with
\* FORCENEON and the like, which are taken at their word, what the processor lacks.
ASSUME MachinesAssumption ==
    /\ Machines \subseteq Machine
    /\ \A m \in Machines :
           LET forced == Architectures[m.arch].forced
           IN  /\ m.detected \subseteq m.cpu
               /\ "SSE2" \in m.cpu => "MMX" \in m.cpu
               /\ Architectures[m.arch].adds =>
                      \A i \in DOMAIN forced :
                          forced[i][1] \in m.env => forced[i][2] \subseteq m.cpu

VARIABLES
    machine,       \* (fixed) one of Machines
    routine,       \* (fixed) the routine x that the threads' objects use: an entry of a table
    simd_support,  \* the shared variables
    simd_huffman,
    pc,            \* where each thread is
    at,            \* the variable of the environment a thread is at
    reg,           \* the value of simd_support a thread has read and not yet written back
    method,        \* whether the thread's object has jsimd_x() for its method
    ran            \* (history) the version that ran last: an instruction set, "none", or "-"

vars == <<machine, routine, simd_support, simd_huffman, pc, at, reg, method, ran>>

Arch == Architectures[machine.arch]
Entries == Tables[machine.arch]

TypeOK ==
    /\ simd_support = Unset \/ simd_support \subseteq ISAs
    /\ simd_huffman \in BOOLEAN
    /\ pc \in [Threads -> {"idle", "check", "detect", "parse", "read", "add", "force",
                           "mask", "huffman", "decide"}]
    /\ at \in [Threads -> Nat]
    /\ reg \in [Threads -> SUBSET ISAs]
    /\ method \in [Threads -> BOOLEAN]
    /\ ran \in ISAs \cup {"none", "-"}

Init ==
    /\ machine \in Machines
    /\ routine \in Entries
    /\ simd_support = Unset
    /\ simd_huffman = TRUE
    /\ pc = [t \in Threads |-> "idle"]
    /\ at = [t \in Threads |-> 1]
    /\ reg = [t \in Threads |-> {}]
    /\ method = [t \in Threads |-> FALSE]
    /\ ran = "-"

-----------------------------------------------------------------------------
\* A condition of a table, in a given state of simd_support.
Holds(condition, support) ==
    /\ condition.isa \in support
    /\ <<condition.isa, condition.constants>> \notin machine.unaligned

\* jsimd_can_x()
Can(support, huffman) ==
    /\ \E c \in routine.can : Holds(c, support)
    /\ routine.huffman => huffman

\* Mutant of Version: the versions for older processors are forgotten.
Version_NewestOnly(support) ==
    IF routine.tests # <<>> /\ ~Holds(routine.tests[1], support) THEN "none"
    ELSE IF routine.tests # <<>> THEN routine.tests[1].isa ELSE routine.otherwise

\* The version jsimd_x() runs.
Version(support) ==
    LET holding == {i \in DOMAIN routine.tests : Holds(routine.tests[i], support)}
    IN  IF holding = {} THEN routine.otherwise
        ELSE routine.tests[CHOOSE i \in holding : \A j \in holding : i <= j].isa

\* The variables of the environment that are set, from number i on.
SetFrom(i) == {j \in i .. Len(Arch.forced) : Arch.forced[j][1] \in machine.env}

\* Thread t goes on with the next variable that is set.
NextForced(t, i) ==
    IF SetFrom(i) = {}
    THEN pc' = [pc EXCEPT ![t] = "huffman"] /\ UNCHANGED at
    ELSE /\ pc' = [pc EXCEPT ![t] = "force"]
         /\ at' = [at EXCEPT ![t] = CHOOSE j \in SetFrom(i) : \A k \in SetFrom(i) : j <= k]

Goto(t, place) == pc' = [pc EXCEPT ![t] = place] /\ UNCHANGED at

-----------------------------------------------------------------------------
\* An object is set up: jsimd_can_x() calls init_simd().
Ask(t) ==
    /\ pc[t] = "idle" /\ ~method[t]
    /\ Goto(t, "check")
    /\ UNCHANGED <<machine, routine, simd_support, simd_huffman, reg, method, ran>>

\* if (simd_support != ~0U) return
CheckSupport(t) ==
    /\ pc[t] = "check"
    /\ Goto(t, IF simd_support # Unset THEN "decide" ELSE "detect")
    /\ UNCHANGED <<machine, routine, simd_support, simd_huffman, reg, method, ran>>

\* simd_support = jpeg_simd_cpu_support(), or simd_support = 0
Detect(t) ==
    /\ pc[t] = "detect"
    /\ IF Arch.adds
       THEN simd_support' = {} /\ Goto(t, IF Arch.parses THEN "parse" ELSE "read")
       ELSE simd_support' = machine.cpu /\ NextForced(t, 1)
    /\ UNCHANGED <<machine, routine, simd_huffman, reg, method, ran>>

\* parse_proc_cpuinfo() begins with simd_support = 0 if it may be called again, which it is
\* when its buffer is too small; or it fails or finds nothing; or it finds the instruction set.
ParseCpuinfo(t) ==
    /\ pc[t] = "parse"
    /\ simd_support' = IF Arch.retries THEN {} ELSE simd_support
    /\ \/ Arch.retries /\ Goto(t, "parse")
       \/ machine.detected = {} /\ NextForced(t, 1)
       \/ machine.detected # {} /\ Goto(t, "read")
    /\ UNCHANGED <<machine, routine, simd_huffman, reg, method, ran>>

\* The read and the write of simd_support |= ...
ReadToAdd(t) ==
    /\ pc[t] = "read"
    /\ reg' = [reg EXCEPT ![t] = simd_support \cap ISAs]
    /\ Goto(t, "add")
    /\ UNCHANGED <<machine, routine, simd_support, simd_huffman, method, ran>>

\* /proc/cpuinfo names it once for each processor, and may have a line too long behind.
Add(t) ==
    /\ pc[t] = "add"
    /\ simd_support' = reg[t] \cup machine.detected
    /\ \/ NextForced(t, 1)
       \/ Arch.parses /\ Goto(t, "read")
       \/ Arch.retries /\ Goto(t, "parse")
    /\ UNCHANGED <<machine, routine, simd_huffman, reg, method, ran>>

\* A variable of the environment is set: simd_support is assigned, or read for "&=" ...
ForceISA(t) ==
    /\ pc[t] = "force"
    /\ IF Arch.adds
       THEN /\ simd_support' = Arch.forced[at[t]][2]
            /\ NextForced(t, at[t] + 1)
            /\ UNCHANGED reg
       ELSE /\ reg' = [reg EXCEPT ![t] = simd_support \cap ISAs]
            /\ Goto(t, "mask")
            /\ UNCHANGED simd_support
    /\ UNCHANGED <<machine, routine, simd_huffman, method, ran>>

\* Mutant of Mask: "=" instead of "&=".
Mask_Assigns(t) ==
    /\ pc[t] = "mask"
    /\ simd_support' = Arch.forced[at[t]][2]
    /\ NextForced(t, at[t] + 1)
    /\ UNCHANGED <<machine, routine, simd_huffman, reg, method, ran>>

\* ... and written.
Mask(t) ==
    /\ pc[t] = "mask"
    /\ simd_support' = reg[t] \cap Arch.forced[at[t]][2]
    /\ NextForced(t, at[t] + 1)
    /\ UNCHANGED <<machine, routine, simd_huffman, reg, method, ran>>

\* JSIMD_NOHUFFENC, the last variable (not on all architectures).
NoHuffman(t) ==
    /\ pc[t] = "huffman"
    /\ simd_huffman' = (simd_huffman /\ "NOHUFFENC" \notin machine.env)
    /\ Goto(t, "decide")
    /\ UNCHANGED <<machine, routine, simd_support, reg, method, ran>>

\* The rest of jsimd_can_x(): if its answer is yes the object gets jsimd_x() for its method.
Decide(t) ==
    /\ pc[t] = "decide"
    /\ method' = [method EXCEPT ![t] = Can(simd_support, simd_huffman)]
    /\ Goto(t, "idle")
    /\ UNCHANGED <<machine, routine, simd_support, simd_huffman, reg, ran>>

\* The method is called, by any thread: an object may be passed on.
Run ==
    /\ \E t \in Threads : method[t]
    /\ ran' = Version(simd_support)
    /\ UNCHANGED <<machine, routine, simd_support, simd_huffman, pc, at, reg, method>>

\* An object is destroyed; the next one asks again.
Destroy(t) ==
    /\ method[t]
    /\ method' = [method EXCEPT ![t] = FALSE]
    /\ UNCHANGED <<machine, routine, simd_support, simd_huffman, pc, at, reg, ran>>

Step(t) ==
    \/ Ask(t) \/ CheckSupport(t) \/ Detect(t) \/ ParseCpuinfo(t) \/ ReadToAdd(t) \/ Add(t)
    \/ ForceISA(t) \/ Mask(t) \/ NoHuffman(t) \/ Decide(t) \/ Destroy(t)

Next == Run \/ \E t \in machine.users : Step(t)

Spec == Init /\ [][Next]_vars

-----------------------------------------------------------------------------
Alone == \A t, u \in machine.users : t = u

\* What init_simd leaves when no other thread interferes and some of the variables are set: of
\* those that are assigned, what the last one makes; of those that mask, what all leave.
RestrictedBy(set) ==
    IF ~Arch.adds
    THEN {isa \in machine.cpu : \A i \in set : isa \in Arch.forced[i][2]}
    ELSE IF set = {} THEN machine.detected
    ELSE Arch.forced[CHOOSE i \in set : \A j \in set : j <= i][2]

Settled == RestrictedBy(SetFrom(1))

\* A method runs a version, and one that the processor has the instructions of, although
\* jsimd_can_x() and jsimd_x() look at simd_support at different times, and the one at the
\* constants of some versions that the other does not look at: for threads that race if no
\* variable is set, else for one thread.
RunsOnCpu ==
    machine.env \subseteq {"NOHUFFENC"} \/ Alone => ran \in machine.cpu \cup {"-"}

\* ... And only if the constants of some version have been found aligned, of those that the
\* processor and the environment allow.  Not always of the one that runs: jsimd_can_x() takes
\* SSE2's where jsimd_x() then runs AVX2, and for MMX, which has none, runs SSE2.
RunsAsTested ==
    (machine.env \subseteq {"NOHUFFENC"} \/ Alone) /\ ran # "-"
        => \E c \in routine.can : Holds(c, Settled)

\* The invariant: the variables in their ranges, and a version that can run.
RunsSupported == TypeOK /\ RunsOnCpu /\ RunsAsTested

\* When no thread is within init_simd, simd_support is what one thread alone would have left
\* there, however the assignments of several were interleaved: if no more than one variable
\* restricts it.
SupportSettles ==
    /\ \A t \in Threads : pc[t] \in {"idle", "decide"}
    /\ simd_support # Unset
    /\ Cardinality(SetFrom(1)) <= 1 \/ Alone
    => simd_support = Settled

=============================================================================
