------------------------------ MODULE TurboJPEG ------------------------------
(***************************************************************************)
(* A TurboJPEG instance (turbojpeg.c) in the hands of an application that  *)
(* makes one call after the other: a compressor and a decompressor that    *)
(* live as long as the instance, with flags of its own.  Each call makes a *)
(* sequence of calls of the library, any of which may jump out of it (an   *)
(* error, a warning that is to stop the call, too many scans), and then    *)
(* whatever was under way is to be cleaned up for the next call.  Results  *)
(* are in buffers that the memory destination (jdatadst-tj.c) allocates,   *)
(* enlarges and gives away, and gets back for another result.              *)
(*                                                                         *)
(* Pictures, planes and their sizes are left out, and calls with arguments *)
(* that are refused before anything is done.  A file is what makes calls   *)
(* differ: see the field names of Files.                                   *)
(***************************************************************************)
EXTENDS Integers, Sequences, FiniteSets

CONSTANTS Calls,       \* the calls that an application makes
          Addresses,   \* where buffers may lie: an address is used again
          Worst        \* tjBufSize(): the size that is always enough

VARIABLES tj,     \* the instance
          heap,   \* the buffers that are allocated, with their sizes
          held,   \* the buffers that the application has and has to free
          call,   \* the call under way
          last    \* the call that ended last, and its answer
vars == <<tj, heap, held, call, last>>

OUTPUT_BUF_SIZE == 1
NULL == "null"
NoFile == [header |-> "none"]

\* Addresses are not null, and tjBufSize() is a number of bytes.
ASSUME AddressesAssumption == NULL \notin Addresses /\ Worst \in Nat

Decompressing == {"tjDecompressHeader3", "tjDecompress2", "tjDecompressToYUVPlanes",
                  "tjDecompressToYUV2", "tjTransform"}
Compressing == {"tjCompress2", "tjCompressFromYUVPlanes"}

Files == [header : {"good", "damaged", "noSOI", "tables"}, warns : {"no", "header", "scan"},
          sampling : BOOLEAN, scans : {"few", "many"}, markers : BOOLEAN]
Results == [copynone : BOOLEAN, nooutput : BOOLEAN]

\* A call reads its file, or has none to read.  tjBufSize() is enough for what is compressed
\* (tjTransform() may copy markers of any size).  tjTransform() makes one result at least, is
\* handed no buffers, and can fail to write a result only when it has one to write.
ASSUME CallsAssumption ==
    \A what \in Calls :
        /\ what \in [name : Decompressing \cup Compressing
                            \cup {"tjEncodeYUVPlanes", "tjDecodeYUVPlanes"},
                    file : Files \cup {NoFile},
                    flags : SUBSET {"STOPONWARNING", "LIMITSCANS", "NOREALLOC"},
                    fails : {"no", "start", "rows"}, size : Nat, t : Seq(Results)]
        /\ what.name \in Decompressing => what.file \in Files
        /\ what.name \in Compressing => what.size <= Worst
        /\ what.name = "tjTransform" =>
               /\ what.t # <<>> /\ "NOREALLOC" \notin what.flags
               /\ what.fails = "rows" => \E k \in DOMAIN what.t : ~what.t[k].nooutput

\* tjInitCompress(), tjInitDecompress(), tjInitTransform()
Instance(init) ==
    [init |-> init, warning |-> FALSE, stopOnWarning |-> FALSE, headerRead |-> FALSE,
     d |-> [global_state |-> "START", saw_SOI |-> FALSE, image |-> NoFile, read_markers |-> "own",
            saved |-> FALSE, progress |-> "none"],
     c |-> [global_state |-> "START", newbuffer |-> NULL, buffer |-> NULL,
            bufsize |-> 0, alloc |-> TRUE]]

Idle == [at |-> "idle"]
Nothing == [what |-> [name |-> "none"], fit |-> TRUE, retval |-> 0, image |-> NoFile,
            copied |-> {}]

Init ==
    /\ \E init \in {{"COMPRESS"}, {"DECOMPRESS"}, {"COMPRESS", "DECOMPRESS"}} :
           tj = Instance(init)
    /\ heap = <<>>
    /\ held = {}
    /\ call = Idle
    /\ last = Nothing

At(step) == call.at = step
Goto(step) == call' = [call EXCEPT !.at = step]
Is(names) == call.what.name \in names
file == call.what.file
flags == call.what.flags

\* Where malloc() may put a buffer.
FreeAddresses == Addresses \ DOMAIN heap

-----------------------------------------------------------------------------
(* How calls begin and end. *)

\* The objects of the instance that a call works with.
Needs(name) ==
    CASE name = "tjTransform"                                    -> {"COMPRESS", "DECOMPRESS"}
      [] name \in Compressing \cup {"tjEncodeYUVPlanes"}         -> {"COMPRESS"}
      [] OTHER                                                   -> {"DECOMPRESS"}

\* Nothing of an earlier call is left in what a call works with.
Fit(name) ==
    /\ "COMPRESS" \in Needs(name) => tj.c.global_state = "START"
    /\ "DECOMPRESS" \in Needs(name) =>
           /\ tj.d.global_state = "START" /\ tj.d.read_markers = "own"
           /\ ~tj.stopOnWarning /\ ~tj.headerRead

FirstStep(name) ==
    CASE name \in Decompressing         -> "source"
      [] name \in Compressing           -> "destination"
      [] name = "tjEncodeYUVPlanes"     -> "encode"
      [] name = "tjDecodeYUVPlanes"     -> "decode"

\* Mutant of Monitor: a call that has no monitor leaves that of another.
Monitor_Left(d, limited) == [d EXCEPT !.progress = IF limited THEN "own" ELSE @]

\* The monitor lies in the frame of the call: it is set, or taken away, by the calls that read
\* whole files, in tjDecompressToYUV2() once the header has been read.
Monitor(d, limited) == [d EXCEPT !.progress = IF limited THEN "own" ELSE "none"]

\* GET_INSTANCE, and what each call sets up before anything else.  given is the buffer that the
\* application hands in.
Enter(what, given) ==
    LET monitored == what.name \in {"tjDecompress2", "tjDecompressToYUVPlanes", "tjTransform"}
        able == Needs(what.name) \subseteq tj.init
    IN  /\ tj' = [tj EXCEPT !.warning = FALSE,
                            !.stopOnWarning = IF what.name = "tjDecompressHeader3" THEN @
                                              ELSE "STOPONWARNING" \in what.flags,
                            !.d = IF able /\ monitored
                                  THEN Monitor(@, "LIMITSCANS" \in what.flags) ELSE @]
        /\ call' = [at |-> IF able THEN FirstStep(what.name) ELSE "bailout", what |-> what,
                    fit |-> Fit(what.name), given |-> given, jpegBuf |-> given, done |-> {}, k |-> 1,
                    inPlanes |-> what.name # "tjDecompressToYUV2",
                    retval |-> IF able THEN 0 ELSE -1, image |-> NoFile, copied |-> {}]
        /\ last' = Nothing
        /\ UNCHANGED <<heap, held>>

\* An application hands a buffer in for a result: none, one that is large enough for any
\* result, or the last result, to have it replaced.
Call(what) ==
    LET large == {b \in held : heap[b] >= Worst}
        handed == IF what.name \notin Compressing THEN {NULL}
                  ELSE IF "NOREALLOC" \in what.flags THEN large
                  ELSE {NULL} \cup large \cup (held \cap {tj.c.buffer})
    IN  /\ At("idle")
        /\ what.name = "tjDecompressToYUV2" => "DECOMPRESS" \in tj.init
        /\ what.name \in Compressing \cup {"tjTransform"} => Cardinality(FreeAddresses) >= 2
        /\ \E given \in handed : Enter(what, given)

\* The call returns; the application has what is in jpegBuf instead of what it had handed in.
Return(retval, instance) ==
    /\ tj' = [instance EXCEPT !.d.progress = IF @ = "own" THEN "gone" ELSE @]
    /\ held' = ((held \ {call.given}) \cup call.done \cup {call.jpegBuf}) \ {NULL}
    /\ last' = [what |-> call.what, fit |-> call.fit, retval |-> retval,
                image |-> IF retval = 0 THEN call.image ELSE NoFile, copied |-> call.copied]
    /\ call' = Idle

Proceed(instance, step) ==
    /\ tj' = instance
    /\ Goto(step)
    /\ UNCHANGED <<held, last>>

\* my_error_exit(): the library is left for where setjmp() was called.  tjDecompressHeader3()
\* and tjDecompressToYUV2() return from there, the others clean up.
Raise(instance) ==
    IF Is({"tjDecompressHeader3"}) \/ ~call.inPlanes THEN Return(-1, instance)
    ELSE /\ tj' = instance
         /\ call' = [call EXCEPT !.at = "bailout", !.retval = -1]
         /\ UNCHANGED <<held, last>>

\* my_emit_message()
Warned(instance, warns, step) ==
    LET warned == [instance EXCEPT !.warning = TRUE]
    IN  IF ~warns THEN Proceed(instance, step)
        ELSE IF tj.stopOnWarning THEN Raise(warned) ELSE Proceed(warned, step)

\* jpeg_abort_decompress(), which jpeg_finish_decompress() ends with, frees the image's memory.
jpeg_abort_decompress(d) == [d EXCEPT !.global_state = "START", !.image = NoFile]

\* Mutant of Cleaned: a decompressor that was left at work stays as it is.
Cleaned_DecompressorLeft(instance) ==
    [instance EXCEPT !.c.global_state = "START", !.stopOnWarning = FALSE]

\* What is done at bailout, to an instance that is anywhere: jpeg_abort_compress() and
\* jpeg_abort_decompress(), each by the calls that work with that object.
Cleaned(instance) ==
    LET named == Needs(call.what.name)
    IN  [instance EXCEPT
            !.c.global_state = IF "COMPRESS" \in named THEN "START" ELSE @,
            !.d = IF "DECOMPRESS" \in named THEN jpeg_abort_decompress(@) ELSE @,
            !.stopOnWarning = FALSE]

\* Mutant of Terminated: a result that was begun is forgotten.
Terminated_Never(jpegBuf) == jpegBuf

\* term_mem_destination(), which a call that fails makes itself.
Terminated(jpegBuf) ==
    IF tj.c.global_state # "START" /\ tj.c.alloc THEN tj.c.buffer ELSE jpegBuf

\* bailout:
Bailout ==
    /\ At("bailout")
    /\ tj' = [Cleaned(tj) EXCEPT !.d.progress = IF @ = "own" THEN "gone" ELSE @]
    /\ LET jpegBuf == Terminated(call.jpegBuf)
           retval == IF tj.warning THEN -1 ELSE call.retval
       IN  /\ held' = ((held \ {call.given}) \cup call.done \cup {jpegBuf}) \ {NULL}
           /\ last' = [what |-> call.what, fit |-> call.fit, retval |-> retval,
                       image |-> IF retval = 0 THEN call.image ELSE NoFile,
                       copied |-> call.copied]
    /\ call' = Idle
    /\ UNCHANGED heap

-----------------------------------------------------------------------------
(* Reading a file. *)

\* jpeg_mem_src_tj(); tjTransform() has markers saved when a result is to have them, and what
\* is to be saved stays so.
Source ==
    /\ At("source")
    /\ Proceed([tj EXCEPT !.d.saved = @ \/ \E k \in DOMAIN call.what.t : ~call.what.t[k].copynone],
               IF Is({"tjDecompressToYUVPlanes"}) /\ tj.headerRead THEN "check" ELSE "header")
    /\ UNCHANGED heap

\* jpeg_read_header(), in an instance that may be anywhere.  A header that was begun is gone on
\* with: its SOI is there already when that of the next file is read.
ReadHeader ==
    LET d == tj.d
        fresh == d.global_state = "START" /\ d.read_markers = "own"
        saw_SOI == IF fresh THEN FALSE ELSE d.saw_SOI
        \* where the decompressor is after an error, or at the end
        in(state, soi, image) ==
            [tj EXCEPT !.d.global_state = state, !.d.saw_SOI = soi, !.d.image = image]
    IN  /\ At("header")
        /\ IF d.global_state \notin {"START", "INHEADER"} THEN Raise(tj)
           ELSE IF d.read_markers = "my" THEN Proceed(in("READY", d.saw_SOI, d.image), "check")
           ELSE IF file.header = "noSOI" THEN Raise(in("INHEADER", saw_SOI, NoFile))
           ELSE IF saw_SOI \/ file.header = "damaged" THEN Raise(in("INHEADER", TRUE, NoFile))
           ELSE IF file.header = "tables" /\ Is({"tjDecompressHeader3"})
                THEN Return(0, in("START", TRUE, NoFile))
           ELSE IF file.header = "tables" THEN Raise(in("INHEADER", TRUE, NoFile))
           ELSE IF file.warns = "header" /\ tj.stopOnWarning
                THEN Raise([in("INHEADER", TRUE, NoFile) EXCEPT !.warning = TRUE])
           ELSE Warned(in("READY", TRUE, file), file.warns = "header", "check")
        /\ UNCHANGED heap

\* The header that tjDecompressToYUV2() has read is taken over once.
Sampled(instance) == [instance EXCEPT !.headerRead = FALSE]

\* What the calls look at in the header.  An instance that took nothing for a header has no
\* file to look at.
CheckHeader ==
    LET knows == tj.d.image = NoFile \/ tj.d.image.sampling
        refused == /\ call' = [call EXCEPT !.at = "bailout", !.retval = -1]
                   /\ UNCHANGED <<held, last>>
    IN  /\ At("check")
        /\ CASE call.what.name = "tjDecompressHeader3" ->
                  LET retval == IF ~knows \/ tj.warning THEN -1 ELSE 0
                  IN  /\ tj' = [tj EXCEPT !.d = jpeg_abort_decompress(@)]
                      /\ held' = held
                      /\ last' = [what |-> call.what, fit |-> call.fit, retval |-> retval,
                                  image |-> IF retval = 0 THEN tj.d.image ELSE NoFile,
                                  copied |-> {}]
                      /\ call' = Idle
             [] call.what.name = "tjDecompressToYUV2" /\ ~call.inPlanes ->
                  IF ~knows THEN Return(-1, [tj EXCEPT !.stopOnWarning = FALSE])
                  ELSE /\ tj' = [tj EXCEPT !.headerRead = TRUE, !.warning = FALSE,
                                           !.d = Monitor(@, "LIMITSCANS" \in flags)]
                       /\ call' = [call EXCEPT !.inPlanes = TRUE]
                       /\ UNCHANGED <<held, last>>
             [] call.what.name \in {"tjDecompressToYUV2", "tjDecompressToYUVPlanes"}
                /\ call.inPlanes ->
                  LET sampled == Sampled(tj)
                  IN  IF knows THEN Proceed(sampled, "start") ELSE tj' = sampled /\ refused
             [] call.what.name = "tjTransform" ->
                  IF knows THEN Proceed(tj, "start") ELSE UNCHANGED tj /\ refused
             [] OTHER -> Proceed(tj, "start")
        /\ UNCHANGED heap

\* jpeg_start_decompress() or jpeg_read_coefficients(): all scans are read, and the monitor, if
\* there is one, is called before each of their rows.
StartDecompress ==
    LET working == [tj EXCEPT !.d.global_state = "WORKING"]
        limited == tj.d.progress # "none" /\ file.scans = "many"
    IN  /\ At("start")
        /\ IF call.what.fails = "start" THEN Raise(working)
           ELSE IF limited THEN Raise([working EXCEPT !.warning = FALSE])
           ELSE Warned(working, file.warns = "scan",
                       IF Is({"tjTransform"}) THEN "destination" ELSE "rows")
        /\ UNCHANGED heap

\* jpeg_read_scanlines() or jpeg_read_raw_data(), and jpeg_finish_decompress().
ReadRows ==
    /\ At("rows")
    /\ IF call.what.fails = "rows" THEN Raise(tj)
       ELSE /\ tj' = [tj EXCEPT !.d = jpeg_abort_decompress(@)]
            /\ call' = [call EXCEPT !.at = "bailout", !.image = tj.d.image]
            /\ UNCHANGED <<held, last>>
    /\ UNCHANGED heap

\* tjDecodeYUVPlanes(): jpeg_read_header() makes what it makes of a header, but reads no
\* markers; it fails in the wrong state, and when the picture is too large.
Decode ==
    LET d == tj.d
        own == [d EXCEPT !.read_markers = "my"]
        failed == d.global_state \notin {"START", "INHEADER"} \/ call.what.fails = "start"
        state == IF d.global_state = "START" THEN "INHEADER" ELSE d.global_state
    IN  /\ At("decode")
        /\ IF failed THEN Raise([tj EXCEPT !.d = [own EXCEPT !.global_state = state]])
           ELSE /\ tj' = [tj EXCEPT !.d.global_state = "READY"]
                /\ Goto("decoded")
                /\ UNCHANGED <<held, last>>
        /\ UNCHANGED heap

\* The rows are upsampled and converted, outside of any pass.
Decoded ==
    /\ At("decoded")
    /\ IF call.what.fails = "rows" THEN Raise(tj)
       ELSE Proceed([tj EXCEPT !.d = jpeg_abort_decompress(@)], "bailout")
    /\ UNCHANGED heap

-----------------------------------------------------------------------------
(* Making a result. *)

\* malloc() of n bytes at a.
Allocated(a, n) == [b \in DOMAIN heap \cup {a} |-> IF b = a THEN n ELSE heap[b]]
Freed(h, a) == [b \in DOMAIN h \ {a} |-> h[b]]

\* jpeg_mem_dest_tj(), before which tjCompress2() and tjCompressFromYUVPlanes() change nothing.
\* tjTransform() is handed no buffers here; it passes over results that nobody wants.
TakeDestination ==
    LET alloc == "NOREALLOC" \notin flags
        given == IF Is({"tjTransform"}) THEN NULL ELSE call.given
        reused == tj.c.buffer = given /\ given # NULL /\ alloc
        dest(b, size, made) ==
            [tj.c EXCEPT !.buffer = b, !.newbuffer = made, !.alloc = alloc,
                         !.bufsize = IF reused THEN @ ELSE size]
    IN  /\ At("destination")
        /\ Is({"tjTransform"}) => ~call.what.t[call.k].nooutput
        /\ IF given # NULL
           THEN /\ Proceed([tj EXCEPT !.c = dest(given, Worst, tj.c.newbuffer)], "startCompress")
                /\ UNCHANGED heap
           ELSE \E a \in FreeAddresses :
                    /\ heap' = Allocated(a, OUTPUT_BUF_SIZE)
                    /\ tj' = [tj EXCEPT !.c = dest(a, OUTPUT_BUF_SIZE, a)]
                    /\ call' = [call EXCEPT !.at = "startCompress", !.jpegBuf = a]
                    /\ UNCHANGED <<held, last>>

\* TJXOPT_NOOUTPUT: the coefficients are transformed for the custom filter only.
PassOver ==
    /\ At("destination") /\ Is({"tjTransform"}) /\ call.what.t[call.k].nooutput
    /\ Goto("transformed")
    /\ UNCHANGED <<tj, heap, held, last>>

\* jpeg_start_compress() or jpeg_write_coefficients(), and jcopy_markers_execute(): whatever was
\* saved is copied.
StartCompress ==
    LET copies == Is({"tjTransform"}) /\ tj.d.saved /\ file.markers
    IN  /\ At("startCompress")
        /\ IF call.what.fails = "start" /\ ~Is({"tjTransform"}) THEN Raise(tj)
           ELSE /\ tj' = [tj EXCEPT !.c.global_state = "WORKING"]
                /\ call' = [call EXCEPT !.at = "write",
                                        !.copied = IF copies THEN @ \cup {call.k} ELSE @]
                /\ UNCHANGED <<held, last>>
        /\ UNCHANGED heap

\* empty_mem_output_buffer(), when it has enlarged the buffer.
Enlarged(c, a) ==
    [c EXCEPT !.newbuffer = a, !.buffer = a, !.bufsize = 2 * @]

\* The buffer is full, and another one of double the size takes its place.
Enlarge ==
    LET c == tj.c
    IN  /\ At("write") /\ call.what.size > c.bufsize
        /\ IF ~c.alloc THEN Raise(tj) /\ UNCHANGED heap
           ELSE \E a \in FreeAddresses :
                    /\ heap' = Freed(Allocated(a, 2 * c.bufsize), c.newbuffer)
                    /\ tj' = [tj EXCEPT !.c = Enlarged(c, a)]
                    /\ UNCHANGED <<call, held, last>>

\* All has been written; jpeg_finish_compress() calls term_mem_destination().
FinishCompress ==
    /\ At("write") /\ call.what.size <= tj.c.bufsize
    /\ IF call.what.fails = "rows" THEN Raise(tj)
       ELSE /\ tj' = [tj EXCEPT !.c.global_state = "START"]
            /\ call' = [call EXCEPT !.at = IF Is({"tjTransform"}) THEN "transformed"
                                           ELSE "bailout",
                                    !.jpegBuf = IF tj.c.alloc THEN tj.c.buffer ELSE @]
            /\ UNCHANGED <<held, last>>
    /\ UNCHANGED heap

\* The next result of tjTransform(), or jpeg_finish_decompress().
NextResult ==
    LET done == [call EXCEPT !.done = @ \cup {call.jpegBuf}, !.jpegBuf = NULL]
    IN  /\ At("transformed")
        /\ IF call.k < Len(call.what.t)
           THEN call' = [done EXCEPT !.at = "destination", !.k = @ + 1] /\ UNCHANGED tj
           ELSE /\ call' = [done EXCEPT !.at = "bailout", !.image = tj.d.image]
                /\ tj' = [tj EXCEPT !.d = jpeg_abort_decompress(@)]
        /\ UNCHANGED <<heap, held, last>>

\* tjEncodeYUVPlanes(): the compressor is set up, and used without being started.
Encode ==
    /\ At("encode")
    /\ IF tj.c.global_state # "START" \/ call.what.fails # "no" THEN Raise(tj)
       ELSE Proceed(tj, "bailout")
    /\ UNCHANGED heap

-----------------------------------------------------------------------------
(* Between calls. *)

\* tjFree()
Free ==
    /\ At("idle")
    /\ \E b \in held :
           /\ held' = held \ {b}
           /\ heap' = Freed(heap, b)
    /\ last' = Nothing
    /\ UNCHANGED <<tj, call>>

\* tjAlloc() of tjBufSize().
Alloc ==
    /\ At("idle")
    /\ \E a \in FreeAddresses :
           /\ held' = held \cup {a}
           /\ heap' = Allocated(a, Worst)
    /\ last' = Nothing
    /\ UNCHANGED <<tj, call>>

\* tjDestroy(), and another instance.
Renew ==
    /\ At("idle")
    /\ tj' = Instance(tj.init)
    /\ last' = Nothing
    /\ UNCHANGED <<heap, held, call>>

Next ==
    \/ \E what \in Calls : Call(what)
    \/ Source \/ ReadHeader \/ CheckHeader \/ StartDecompress \/ ReadRows
    \/ Decode \/ Decoded
    \/ TakeDestination \/ PassOver \/ StartCompress \/ Enlarge \/ FinishCompress \/ NextResult
    \/ Encode
    \/ Bailout
    \/ Free \/ Alloc \/ Renew

Spec == Init /\ [][Next]_vars

-----------------------------------------------------------------------------
\* A call answers as it would on a new instance, whatever calls were made before it, if those
\* left clean what it works with (see CallsEndClean): the picture that it reads is that of its
\* own file, and it fails when its own file, its own flags or its own luck has it fail, not
\* because of a header, a monitor or a warning of another call.  A call that compresses answers
\* so even when the decompressor was left in the middle of a header.  (What
\* tjDecompressToYUV2() is warned of in the header it has forgotten when it answers.)
Promised(what) ==
    LET reads == what.name \in Decompressing
        whole == reads /\ what.name # "tjDecompressHeader3"
        f == what.file
        unreadable == \/ f.header \notin {"good", "tables"}
                      \/ f.header = "tables" /\ whole
                      \/ f.header = "good" /\ ~f.sampling /\ what.name # "tjDecompress2"
        warned == \/ /\ f.header = "good" /\ f.warns = "header"
                     /\ what.name = "tjDecompressToYUV2" => "STOPONWARNING" \in what.flags
                  \/ f.warns = "scan" /\ whole
        tooLong == whole /\ f.scans = "many" /\ "LIMITSCANS" \in what.flags
        failing == \/ ~(Needs(what.name) \subseteq tj.init)
                   \/ what.fails # "no" /\ what.name # "tjDecompressHeader3"
                   \/ reads /\ (unreadable \/ warned \/ tooLong)
    IN  [retval |-> IF failing THEN -1 ELSE 0,
         image |-> IF ~failing /\ reads /\ f.header = "good" THEN f ELSE NoFile]

AnswersAsFresh ==
    At("idle") /\ last # Nothing /\ last.fit =>
        [retval |-> last.retval, image |-> last.image] = Promised(last.what)

\* Every call leaves what it works with clean for the next call that works with it, with nothing
\* under way and no flag of its own in it, except tjDecompressHeader3() and tjDecompressToYUV2()
\* when they fail.  A decompressor that these left in the middle of a header is cleaned up by any
\* other call that decompresses, but by none that only compresses; and none takes back the way
\* that markers are read, which tjDecodeYUVPlanes() leaves changed when it fails.
CallsEndClean ==
    LET name == last.what.name
        forgetful == {"tjDecompressHeader3", "tjDecompressToYUV2"}
    IN  At("idle") =>
            /\ tj.c.global_state = "START" /\ ~tj.headerRead
            /\ last # Nothing /\ name \notin forgetful =>
                   /\ ~tj.stopOnWarning
                   /\ "DECOMPRESS" \in Needs(name) => tj.d.global_state = "START"
            /\ /\ last # Nothing /\ last.fit
               /\ last.retval = 0 \/ name \notin forgetful \cup {"tjDecodeYUVPlanes"}
               => Fit(name)

\* Between calls the application has exactly the buffers that are allocated, whatever results
\* were enlarged, replaced or left unfinished, and during a call no result of an earlier one is
\* freed; and nothing is ever written beyond the end of a buffer: what is written is no more
\* than there is to write, and no more than the destination takes the buffer to hold.
ResultsKept ==
    /\ At("idle") => held = DOMAIN heap
    /\ ~At("idle") => held \ {call.given} \subseteq DOMAIN heap
    /\ At("write") => /\ tj.c.buffer \in DOMAIN heap
                      /\ \/ call.what.size <= heap[tj.c.buffer]
                         \/ tj.c.bufsize <= heap[tj.c.buffer]

\* "This option will prevent tjTransform() from copying any extra markers": a result for which
\* TJXOPT_COPYNONE was given has none.
CopyNoneCopiesNone ==
    At("idle") => \A k \in last.copied : ~last.what.t[k].copynone

=============================================================================
