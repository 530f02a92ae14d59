----------------------------- MODULE JavaBinding -----------------------------
(***************************************************************************)
(* The native methods of the Java classes (turbojpeg-jni.c).  A method     *)
(* looks at its arguments, takes the arrays it has to work on from the     *)
(* virtual machine (GetPrimitiveArrayCritical), has the TurboJPEG API work *)
(* on them, and gives them back; what fails leaves an exception behind and *)
(* goes to the end of the method, "bailout".                               *)
(*                                                                         *)
(* A method is the sequence of its steps and what its bailout gives back   *)
(* and frees.  A run of functions of the virtual machine between which     *)
(* nothing changes is one step, whichever of them fails.  What the API     *)
(* does is the matter of TurboJPEG and Planes; the virtual machine is      *)
(* external.                                                               *)
(***************************************************************************)
EXTENDS Integers, Sequences, CodedData

P == INSTANCE Planes

Step(does, of) == [does |-> does, of |-> of]

\* Functions of the virtual machine any of which may fail (BAILIF0).
Calls == Step("calls", "")

\* Arguments are refused, with an exception (THROW_ARG).
Refuse == Step("refuse", "")

\* ProcessSystemProperties(): may fail, or let an exception pass.
ProcessSystemProperties == Step("properties", "")

\* An array is taken; that leaves no exception if it fails (BAILIF0NOEC).
Take(pointer) == Step("take", pointer)

\* Memory is allocated (THROW_MEM), and the arrays of pointers in it are set to NULL.
Allocate(block) == Step("allocate", block)
Clear == Step("clear", "")

\* The API is called; if it fails the arrays are given back and its error is thrown (THROW_TJ).
Library == Step("library", "")

\* It calls methods of Java meanwhile.
CallBack == Step("callback", "")

\* The arrays are given back (SAFE_RELEASE).
Release == Step("release", "")

\* What is allocated gets an owner.
Hand(block) == Step("hand", block)

\* One step for each of n planes, or of n transforms.
Each(n, step(_)) == [i \in 1 .. n |-> step(i)]

-----------------------------------------------------------------------------
\* The methods.  pointers: those the bailout gives back if they are not NULL; blocks: the memory
\* that it frees.
Method(steps, pointers, blocks) == [steps |-> steps, pointers |-> pointers, blocks |-> blocks]

Plane(i) == <<"plane 1", "plane 2", "plane 3">>[i]
PlanesOf(n) == {Plane(i) : i \in 1 .. n}

TJCompressor_init == Method(<<Allocate("handle"), Calls, Hand("handle")>>, {}, {})

TJDecompressor_init == TJCompressor_init
TJTransformer_init == TJCompressor_init

TJCompressor_destroy == Method(<<Calls, Library>>, {}, {})

\* TJ_bufSize and the like
TJ_sizes == Method(<<Refuse>>, {}, {})

TJ_getScalingFactors == Method(<<Refuse, Calls>>, {}, {})

TJCompressor_compress ==
    Method(<<Calls, Refuse, ProcessSystemProperties, Take("src"), Take("dst"), Library>>,
           {"src", "dst"}, {})

TJCompressor_compressFromYUV(n) ==
    Method(<<Calls, Refuse, ProcessSystemProperties, Calls>> \o Each(n, LAMBDA i : Refuse)
               \o Each(n, LAMBDA i : Take(Plane(i))) \o <<Take("dst"), Library>>,
           {"dst"} \cup PlanesOf(n), {})

TJCompressor_encodeYUV(n) ==
    Method(<<Calls, Refuse, Calls>> \o Each(n, LAMBDA i : Refuse)
               \o Each(n, LAMBDA i : Take(Plane(i))) \o <<Take("src"), Library>>,
           {"src"} \cup PlanesOf(n), {})

TJCompressor_encodeYUV_12 ==
    Method(<<Calls, Refuse, Take("src"), Take("dst"), Library>>, {"src", "dst"}, {})

\* The result is put into fields of the object after the array has been given back.
TJDecompressor_decompressHeader ==
    Method(<<Calls, Refuse, Take("src"), Library, Release, Calls>>, {"src"}, {})

TJDecompressor_decompress ==
    Method(<<Calls, Refuse, Take("src"), Take("dst"), Library>>, {"src", "dst"}, {})

TJDecompressor_decompressToYUV(n) ==
    Method(<<Calls, Refuse, Calls, Refuse, Calls>> \o Each(n, LAMBDA i : Refuse)
               \o Each(n, LAMBDA i : Take(Plane(i))) \o <<Take("src"), Library>>,
           {"src"} \cup PlanesOf(n), {})

TJDecompressor_decompressToYUV_12 ==
    Method(<<Calls, Refuse, Calls, Refuse, Take("src"), Take("dst"), Library>>,
           {"src", "dst"}, {})

TJDecompressor_decodeYUV(n) ==
    Method(<<Calls, Refuse, Calls>> \o Each(n, LAMBDA i : Refuse)
               \o Each(n, LAMBDA i : Take(Plane(i))) \o <<Take("dst"), Library>>,
           {"dst"} \cup PlanesOf(n), {})

\* n transforms of which one may have a custom filter (JNICustomFilter).  The parameters of the
\* filters, params, are not freed.
TJTransformer_transform(n, filter) ==
    Method(<<Calls, Refuse, Calls, Refuse,
             Allocate("dstBufs"), Allocate("jdstBufs"), Allocate("dstSizes"), Allocate("t"),
             Allocate("params"), Clear>>
               \o Each(n, LAMBDA i : Calls) \o Each(n, LAMBDA i : Refuse)
               \o <<Take("src")>> \o Each(n, LAMBDA i : Take(Plane(i)))
               \o (IF filter THEN <<CallBack, Library>> ELSE <<Library>>) \o <<Release, Calls>>,
           {"src"} \cup PlanesOf(n), {"dstBufs", "jdstBufs", "dstSizes", "t"})

-----------------------------------------------------------------------------
\* A call of a method.  pointers: those that are not NULL; held: the arrays that the virtual
\* machine has lent; heap: the memory that is allocated and has no owner; thrown: an exception
\* is pending; left: the method has gone to its bailout; critical: functions of the virtual
\* machine were called while it had lent an array; wild: pointers that were never set were
\* given back; twice: an array was given back which was not lent.
Start == [pointers |-> {}, held |-> {}, heap |-> {}, thrown |-> FALSE, left |-> FALSE,
          critical |-> FALSE, wild |-> FALSE, twice |-> FALSE]

Left(call) == [call EXCEPT !.left = TRUE]
Thrown(call) == [call EXCEPT !.left = TRUE, !.thrown = TRUE, !.critical = @ \/ call.held # {}]

GivenBack(call, pointers) ==
    [call EXCEPT !.pointers = @ \ pointers, !.held = @ \ pointers,
                 !.twice = @ \/ ~((call.pointers \cap pointers) \subseteq call.held)]

\* A step that fails.  The bailout gives back the arrays that are still held.
Failed(call, step, method) ==
    CASE step.does = "take"    -> Left(call)
      [] step.does = "library" -> Thrown(GivenBack(call, method.pointers))
      [] OTHER                 -> Thrown(call)

\* A step that does not fail.
Taken(call, step, method) ==
    CASE step.does = "take"     -> [call EXCEPT !.pointers = @ \cup {step.of},
                                               !.held = @ \cup {step.of}]
      [] step.does = "allocate" -> [call EXCEPT !.heap = @ \cup {step.of}]
      [] step.does = "clear"    -> [call EXCEPT !.heap = @ \cup {"cleared"}]
      [] step.does = "hand"     -> [call EXCEPT !.heap = @ \ {step.of}]
      [] step.does = "release"  -> GivenBack(call, method.pointers)
      [] step.does \in {"calls", "callback"} ->
             [call EXCEPT !.critical = @ \/ call.held # {}]
      [] OTHER                  -> call

\* The bailout gives back what is not NULL: of the destinations of a transform, whatever is in
\* dstBufs and jdstBufs, if there are both.
Bailout(call, method) ==
    LET wild == {"dstBufs", "jdstBufs"} \subseteq call.heap /\ "cleared" \notin call.heap
    IN  [GivenBack(call, method.pointers) EXCEPT
            !.wild = wild, !.heap = @ \ (method.blocks \cup {"cleared"})]

\* A method whose step number failing fails, or passes on an exception; 0: none does.
NativeCall(method, failing, quietly) ==
    LET step(call, k) ==
            CASE call.left -> call
              [] k # failing -> Taken(call, method.steps[k], method)
              [] k = failing /\ quietly -> [call EXCEPT !.thrown = TRUE]
              [] OTHER -> Failed(call, method.steps[k], method)
    IN  Bailout(Through(step, Start, 1, Len(method.steps)), method)

-----------------------------------------------------------------------------
\* The bytes of a packed image that a method asks for: of height rows from place x, y on, of an
\* array whose rows are pitch apart, or if that is 0 just as wide as the image.
ActualPitch(width, pitch, ps) == IF pitch = 0 THEN width * ps ELSE pitch
ArraySize(x, y, width, pitch, height, ps) ==
    (y + height - 1) * ActualPitch(width, pitch, ps) + (x + width) * ps

\* The methods that have no place.
ArraySize_12(width, pitch, height, ps) ==
    IF pitch = 0 THEN width * ps * height ELSE pitch * height

tjPlaneSizeYUV(i, width, stride, height, subsamp) ==
    LET pw == P!tjPlaneWidth(i, width, subsamp)
        distance == IF stride = 0 THEN pw ELSE Absolute(stride)
    IN  distance * (P!tjPlaneHeight(i, height, subsamp) - 1) + pw

\* Whether a plane of stride, which begins at offset in an array of length, is accepted.
PlaneAccepted(i, width, stride, height, subsamp, offset, length) ==
    LET size == tjPlaneSizeYUV(i, width, stride, height, subsamp)
    IN  /\ offset >= 0
        /\ ~(stride < 0 /\ offset - size + P!tjPlaneWidth(i, width, subsamp) < 0)
        /\ length >= offset + size

=============================================================================
